--------------------------- MODULE WriteBackProofs ---------------------------
(***************************************************************************)
(* Proofs about the writeback queue for any number of files, threads,      *)
(* calls, failures and transfers, and then about the cache items above it, *)
(* for any number of writes and crashes.                                   *)
(***************************************************************************)
EXTENDS WriteBackCache, FiniteSetTheorems, SequenceTheorems, TLAPS

-----------------------------------------------------------------------------
(* The inductive invariant *)

GoroRec(its) == [item : DOMAIN its, gen : Nat \ {0}, cancelled : BOOLEAN]

\* An item is started again with a new generation, so no two uploads are the
\* same and none is younger than its item.
GorosOK(gs, its) ==
  /\ gs \subseteq GoroRec(its) /\ IsFiniteSet(gs)
  /\ \A g, h \in gs : g.item = h.item /\ g.gen = h.gen => g = h
  /\ \A g \in gs : g.gen <= its[g.item].gen

\* What a handle finds is its own item, and it waits or is being uploaded.
Found(its, lk) ==
  \A h \in Handle :
    lk[h] # 0 => its[lk[h]].id = h /\ (its[lk[h]].onHeap \/ its[lk[h]].uploading)

\* The timer has fired only while a processItems it started waits for the lock.
Timed ==
  /\ timer = "off" <=> expiry = NoTime
  /\ timer = "fired" => expiry = 0
  /\ timer = "fired" /\ ~stopped => runs > 0

IInv ==
  /\ TypeOK /\ GorosOK(goros, items) /\ Found(items, lookup)
  /\ UploadsCounted /\ Timed /\ Awake

-----------------------------------------------------------------------------
(* Numbers and sets *)

\* A set of numbers that is not empty has a least one.
LEMMA MinFacts ==
  ASSUME NEW S \in SUBSET Nat, S # {}
  PROVE  Min(S) \in S /\ \A x \in S : Min(S) <= x
  <1> DEFINE R == OpToRel(<, Nat)
  <1>1. \E x \in S : \A y \in S : ~(<<y, x>> \in R)
    BY NatLessThanWellFounded, WFMin
  <1>2. \A x, y \in Nat : y < x => <<y, x>> \in R
    BY DEF OpToRel
  <1> HIDE DEF R
  <1>3. \E x \in S : \A y \in S : x <= y
    <2>1. PICK x \in S : \A y \in S : ~(<<y, x>> \in R)
      BY <1>1
    <2>2. ASSUME NEW y \in S PROVE x <= y
      <3>1. x \in Nat /\ y \in Nat /\ ~(<<y, x>> \in R)
        BY <2>1
      <3>2. ~(y < x)
        BY <3>1, <1>2
      <3>3. QED
        BY <3>1, <3>2
    <2>3. QED
      BY <2>2
  <1>4. QED
    BY <1>3 DEF Min

\* A function on an interval is a sequence.
LEMMA FunSeq ==
  ASSUME NEW S, NEW n \in Nat, NEW f \in [1..n -> S]
  PROVE  f \in Seq(S) /\ Len(f) = n
  <1>1. f \in Seq(S)
    BY SeqDef
  <1>2. QED
    BY <1>1

Marked(gs, C) == {IF g \in C THEN [g EXCEPT !.cancelled = TRUE] ELSE g : g \in gs}

\* Cancelling some of the uploads changes neither how many there are nor
\* which ones they are.
LEMMA CancelSome ==
  ASSUME NEW its, NEW gs, GorosOK(gs, its), NEW C
  PROVE  GorosOK(Marked(gs, C), its) /\ Cardinality(Marked(gs, C)) = Cardinality(gs)
  <1> DEFINE hs == Marked(gs, C)
             f == [g \in gs |-> IF g \in C THEN [g EXCEPT !.cancelled = TRUE] ELSE g]
  <1>1. \A g \in gs : f[g] \in GoroRec(its) /\ f[g].item = g.item /\ f[g].gen = g.gen /\ f[g] \in hs
    BY DEF GorosOK, GoroRec, Marked
  <1>2. \A h \in hs : \E g \in gs : h = f[g]
    BY DEF Marked
  <1>3. DOMAIN f = gs
    OBVIOUS
  <1> HIDE DEF f, hs
  <1>4. f \in [gs -> hs]
    <2>1. f = [g \in gs |-> f[g]]
      BY DEF f
    <2>2. QED
      BY <1>1, <2>1
  <1>5. f \in Surjection(gs, hs)
    BY <1>2, <1>4 DEF Surjection
  <1>6. f \in Injection(gs, hs)
    <2>1. \A g, h \in gs : f[g] = f[h] => g = h
      BY <1>1 DEF GorosOK
    <2>2. QED
      BY <2>1, <1>4 DEF Injection, IsInjective
  <1>7. IsFiniteSet(hs) /\ Cardinality(hs) = Cardinality(gs)
    BY <1>5, <1>6, FS_Surjection DEF GorosOK
  <1>8. hs \subseteq GoroRec(its)
    BY <1>1, <1>2
  <1>9. \A g, h \in hs : g.item = h.item /\ g.gen = h.gen => g = h
    BY <1>1, <1>2 DEF GorosOK
  <1>10. \A h \in hs : h.gen <= its[h.item].gen
    BY <1>1, <1>2 DEF GorosOK
  <1>11. QED
    BY <1>7, <1>8, <1>9, <1>10 DEF GorosOK, hs

-----------------------------------------------------------------------------
(* Items *)

\* The items are the same ones, apart from where they are in the queue.
SameItems(its, new) ==
  /\ new \in Seq(ItemRec) /\ DOMAIN new = DOMAIN its
  /\ \A j \in DOMAIN its : new[j].id = its[j].id /\ new[j].gen = its[j].gen

\* Replacing one item.
LEMMA Edit ==
  ASSUME NEW its \in Seq(ItemRec), NEW k \in DOMAIN its, NEW r \in ItemRec,
         r.id = its[k].id, r.gen = its[k].gen,
         NEW new, new = [its EXCEPT ![k] = r]
  PROVE  SameItems(its, new) /\ new[k] = r /\ \A j \in DOMAIN its : j # k => new[j] = its[j]
  <1>1. k \in 1..Len(its) /\ DOMAIN its = 1..Len(its)
    OBVIOUS
  <1>2. /\ new \in Seq(ItemRec) /\ Len(new) = Len(its)
        /\ \A j \in 1..Len(its) : new[j] = IF j = k THEN r ELSE its[j]
    BY <1>1, ExceptSeq
  <1>3. DOMAIN new = DOMAIN its
    BY <1>1, <1>2
  <1>4. QED
    BY <1>1, <1>2, <1>3 DEF SameItems

WithExpiry(its, k, e) == [its EXCEPT ![k].expiry = e]
WithName(its, k, n) == [its EXCEPT ![k].name = n]

\* An item put back on the heap, taken off it, or given an expiry.
LEMMA Edits ==
  ASSUME NEW its \in Seq(ItemRec), NEW k \in DOMAIN its, NEW e \in 0..MaxUploadDelay, NEW n \in Name
  PROVE  /\ SameItems(its, Back(its, k)) /\ Back(its, k)[k].onHeap
         /\ SameItems(its, Drop(its, k))
         /\ SameItems(its, WithExpiry(its, k, e))
         /\ WithExpiry(its, k, e)[k].onHeap = its[k].onHeap
         /\ WithExpiry(its, k, e)[k].uploading = its[k].uploading
         /\ SameItems(its, WithName(its, k, n))
         /\ WithName(its, k, n)[k].onHeap = its[k].onHeap
         /\ WithName(its, k, n)[k].uploading = its[k].uploading
         /\ \A j \in DOMAIN its : j # k =>
              /\ Back(its, k)[j] = its[j] /\ Drop(its, k)[j] = its[j]
              /\ WithExpiry(its, k, e)[j] = its[j] /\ WithName(its, k, n)[j] = its[j]
  <1>1. its[k] \in ItemRec
    OBVIOUS
  <1> DEFINE b == [its[k] EXCEPT !.onHeap = TRUE]
             d == [its[k] EXCEPT !.onHeap = FALSE]
             x == [its[k] EXCEPT !.expiry = e]
             m == [its[k] EXCEPT !.name = n]
  <1>2. /\ b \in ItemRec /\ b.id = its[k].id /\ b.gen = its[k].gen /\ b.onHeap
        /\ d \in ItemRec /\ d.id = its[k].id /\ d.gen = its[k].gen
    BY <1>1 DEF ItemRec
  <1>3. /\ x \in ItemRec /\ x.id = its[k].id /\ x.gen = its[k].gen
        /\ x.onHeap = its[k].onHeap /\ x.uploading = its[k].uploading
    BY <1>1 DEF ItemRec
  <1>4. /\ m \in ItemRec /\ m.id = its[k].id /\ m.gen = its[k].gen
        /\ m.onHeap = its[k].onHeap /\ m.uploading = its[k].uploading
    BY <1>1 DEF ItemRec
  <1> HIDE DEF b, d, x, m
  <1>5. Back(its, k) = [its EXCEPT ![k] = b] /\ Drop(its, k) = [its EXCEPT ![k] = d]
    BY DEF Back, Drop, b, d
  <1>6. WithExpiry(its, k, e) = [its EXCEPT ![k] = x] /\ WithName(its, k, n) = [its EXCEPT ![k] = m]
    BY DEF WithExpiry, WithName, x, m
  <1>7. /\ SameItems(its, [its EXCEPT ![k] = b]) /\ [its EXCEPT ![k] = b][k] = b
        /\ \A j \in DOMAIN its : j # k => [its EXCEPT ![k] = b][j] = its[j]
    BY <1>2, Edit
  <1>8. /\ SameItems(its, [its EXCEPT ![k] = d])
        /\ \A j \in DOMAIN its : j # k => [its EXCEPT ![k] = d][j] = its[j]
    BY <1>2, Edit
  <1>9. /\ SameItems(its, [its EXCEPT ![k] = x]) /\ [its EXCEPT ![k] = x][k] = x
        /\ \A j \in DOMAIN its : j # k => [its EXCEPT ![k] = x][j] = its[j]
    BY <1>3, Edit
  <1>10. /\ SameItems(its, [its EXCEPT ![k] = m]) /\ [its EXCEPT ![k] = m][k] = m
         /\ \A j \in DOMAIN its : j # k => [its EXCEPT ![k] = m][j] = its[j]
    BY <1>4, Edit
  <1>11. QED
    BY <1>2, <1>3, <1>4, <1>5, <1>6, <1>7, <1>8, <1>9, <1>10

\* Where the items are the same ones, the uploads and the channels are.
LEMMA SameGoros ==
  ASSUME NEW its, NEW new, SameItems(its, new), NEW gs, GorosOK(gs, its)
  PROVE  GorosOK(gs, new)
  <1>1. GoroRec(new) = GoroRec(its)
    BY DEF SameItems, GoroRec
  <1>2. \A g \in gs : g.item \in DOMAIN its
    BY DEF GorosOK, GoroRec
  <1>3. QED
    BY <1>1, <1>2 DEF GorosOK, SameItems

-----------------------------------------------------------------------------
(* Calls *)

\* What a call remembers stays valid while items are added.
LEMMA CallsGrow ==
  ASSUME NEW D, NEW E, D \subseteq E, NEW c \in [Thread -> CallRec(D)]
  PROVE  c \in [Thread -> CallRec(E)]
  <1>1. WaitRec(D) \subseteq WaitRec(E)
    BY DEF WaitRec
  <1>2. RenameRec(D) \subseteq RenameRec(E)
    BY DEF RenameRec
  <1>3. CallRec(D) \subseteq CallRec(E)
    BY <1>1, <1>2 DEF CallRec
  <1>4. QED
    BY <1>3

\* The place of a call says what it remembers.
LEMMA CallFacts ==
  ASSUME NEW D, NEW c \in CallRec(D)
  PROVE  /\ c.op = "none" => c = NoCall
         /\ c.op \in {"add", "remove"} => c \in WaitRec(D)
         /\ c.op \in {"rename", "renaming", "clash"} => c \in RenameRec(D)
         /\ c.op # "none" => c.victim \in D
         /\ c.op \in {"none", "add", "remove", "rename", "renaming", "clash"}
  <1>1. CASE c = NoCall
    BY <1>1 DEF NoCall
  <1>2. CASE c \in WaitRec(D)
    BY <1>2 DEF WaitRec
  <1>3. CASE c \in RenameRec(D)
    BY <1>3 DEF RenameRec
  <1>4. QED
    BY <1>1, <1>2, <1>3 DEF CallRec

-----------------------------------------------------------------------------
(* The timer *)

\* The expiry of the item at the top of the heap is a time.
LEMMA TopFacts ==
  ASSUME NEW its \in Seq(ItemRec), Heap(its) # {}
  PROVE  /\ Top(its) \in 0..MaxUploadDelay
         /\ \E k \in Heap(its) : Top(its) = its[k].expiry
  <1> DEFINE S == {its[k].expiry : k \in Heap(its)}
  <1>a. \A k \in DOMAIN its : its[k] \in ItemRec
    OBVIOUS
  <1>1. \A k \in Heap(its) : its[k].expiry \in 0..MaxUploadDelay
    BY <1>a DEF Heap, ItemRec
  <1>2. S \in SUBSET Nat /\ S # {}
    BY <1>1, WriteBackAssumption
  <1>3. Min(S) \in S
    BY <1>2, MinFacts
  <1>4. QED
    BY <1>1, <1>3 DEF Top

\* After _resetTimer the timer runs, or it has fired before, if an item waits.
LEMMA TimerReset ==
  ASSUME expiry \in 0..NoTime, timer \in {"off", "armed", "fired"}, Timed,
         NEW its \in Seq(ItemRec), ResetTimer(its)
  PROVE  /\ expiry' \in 0..NoTime /\ timer' \in {"off", "armed", "fired"}
         /\ timer' = "off" <=> expiry' = NoTime
         /\ timer' = "fired" => timer = "fired" /\ expiry' = 0 /\ Heap(its) # {} /\ Top(its) = 0
         /\ Heap(its) # {} => timer' \in {"armed", "fired"}
  <1> USE WriteBackAssumption DEF NoTime
  <1>1. CASE Heap(its) = {}
    BY <1>1 DEF ResetTimer, StopTimer, Timed
  <1>2. CASE Heap(its) # {}
    <2>1. Top(its) \in 0..MaxUploadDelay
      BY <1>2, TopFacts
    <2>2. CASE expiry = Top(its) /\ UNCHANGED <<expiry, timer>>
      BY <1>2, <2>1, <2>2 DEF Timed
    <2>3. CASE expiry' = Top(its) /\ timer' = "armed"
      BY <1>2, <2>1, <2>3
    <2>4. QED
      BY <1>2, <2>2, <2>3 DEF ResetTimer
  <1>3. QED
    BY <1>1, <1>2

\* A step that resets the timer loses no wakeup.
LEMMA Woken ==
  ASSUME IInv, items' \in Seq(ItemRec), ResetTimer(items'), runs' = runs, stopped' = stopped
  PROVE  Timed' /\ Awake' /\ expiry' \in 0..NoTime /\ timer' \in {"off", "armed", "fired"}
  <1>1. /\ expiry' \in 0..NoTime /\ timer' \in {"off", "armed", "fired"}
        /\ timer' = "off" <=> expiry' = NoTime
        /\ timer' = "fired" => timer = "fired" /\ expiry' = 0
        /\ Heap(items') # {} => timer' \in {"armed", "fired"}
    BY TimerReset DEF IInv, TypeOK
  <1>2. Timed'
    BY <1>1 DEF IInv, Timed, NoTime
  <1>3. Awake'
    BY <1>1 DEF IInv, Timed, Awake
  <1>4. QED
    BY <1>1, <1>2, <1>3

\* What is left to show of a step that ends with _resetTimer.
LEMMA Settle ==
  ASSUME IInv, items' \in Seq(ItemRec), ResetTimer(items'), UNCHANGED <<runs, stopped>>,
         lookup' \in [Handle -> {0} \cup DOMAIN items'], Found(items', lookup'),
         GorosOK(goros', items'), closed' \subseteq (DOMAIN items') \X (Nat \ {0}),
         uploads' \in Nat, UploadsCounted', calls' \in [Thread -> CallRec(DOMAIN items')],
         ncalls' \in Nat, errors' \in Nat, panicked' \in BOOLEAN
  PROVE  IInv'
  <1>1. Timed' /\ Awake' /\ expiry' \in 0..NoTime /\ timer' \in {"off", "armed", "fired"}
    BY Woken
  <1>2. runs' \in Nat /\ stopped' \in BOOLEAN
    BY DEF IInv, TypeOK
  <1>3. goros' \subseteq [item : DOMAIN items', gen : Nat \ {0}, cancelled : BOOLEAN]
    BY DEF GorosOK, GoroRec
  <1>4. TypeOK'
    BY <1>1, <1>2, <1>3 DEF TypeOK, NoTime
  <1>5. QED
    BY <1>1, <1>4 DEF IInv

\* The same where the items are the same ones and no upload starts or ends.
LEMMA SettleSame ==
  ASSUME IInv, SameItems(items, items'), ResetTimer(items'),
         UNCHANGED <<goros, closed, runs, uploads, errors, stopped, panicked>>,
         lookup' \in [Handle -> {0} \cup DOMAIN items'], Found(items', lookup'),
         calls' \in [Thread -> CallRec(DOMAIN items')], ncalls' \in Nat
  PROVE  IInv'
  <1>1. items' \in Seq(ItemRec) /\ DOMAIN items' = DOMAIN items
    BY DEF SameItems
  <1>2. GorosOK(goros', items')
    BY SameGoros DEF IInv
  <1>3. closed' \subseteq (DOMAIN items') \X (Nat \ {0}) /\ uploads' \in Nat /\ errors' \in Nat
    BY <1>1 DEF IInv, TypeOK
  <1>4. panicked' \in BOOLEAN
    BY DEF IInv, TypeOK
  <1>5. UploadsCounted'
    BY DEF IInv, UploadsCounted
  <1>6. QED
    BY <1>1, <1>2, <1>3, <1>4, <1>5, Settle

-----------------------------------------------------------------------------
(* Every action preserves the invariant *)

\* Facts that every action starts from.
LEMMA Facts ==
  ASSUME IInv
  PROVE  /\ items \in Seq(ItemRec) /\ \A k \in DOMAIN items : items[k] \in ItemRec
         /\ lookup \in [Handle -> {0} \cup DOMAIN items] /\ 0 \notin DOMAIN items
         /\ calls \in [Thread -> CallRec(DOMAIN items)] /\ ncalls \in Nat
  BY DEF IInv, TypeOK

\* _remove: the handle no longer finds the item it drops.
LEMMA Forgotten ==
  ASSUME IInv, NEW k \in DOMAIN items, NEW new, SameItems(items, new),
         \A j \in DOMAIN items : j # k => new[j] = items[j]
  PROVE  Forget(k) \in [Handle -> {0} \cup DOMAIN new] /\ Found(new, Forget(k))
  <1>1. items[k] \in ItemRec /\ items[k].id \in Handle
    BY Facts DEF ItemRec
  <1>2. DOMAIN new = DOMAIN items
    BY DEF SameItems
  <1>3. \A h \in Handle : Forget(k)[h] = IF h = items[k].id THEN 0 ELSE lookup[h]
    BY Facts, <1>1 DEF Forget
  <1>4. Forget(k) \in [Handle -> {0} \cup DOMAIN new]
    BY Facts, <1>1, <1>2 DEF Forget
  <1>5. ASSUME NEW h \in Handle, Forget(k)[h] # 0
        PROVE  new[Forget(k)[h]].id = h /\ (new[Forget(k)[h]].onHeap \/ new[Forget(k)[h]].uploading)
    <2>1. Forget(k)[h] = lookup[h] /\ h # items[k].id /\ lookup[h] \in DOMAIN items
      BY <1>3, <1>5, Facts
    <2>2. items[lookup[h]].id = h /\ (items[lookup[h]].onHeap \/ items[lookup[h]].uploading)
      BY <1>5, <2>1 DEF IInv, Found
    <2>3. lookup[h] # k
      BY <2>1, <2>2
    <2>4. QED
      BY <2>1, <2>2, <2>3
  <1>6. QED
    BY <1>4, <1>5 DEF Found

\* _cancelUpload up to where it waits.
LEMMA CancelStep ==
  ASSUME IInv, NEW t \in Thread, NEW c \in CallRec(DOMAIN items), Cancel(t, c), ncalls' \in Nat,
         calls[t].op \in {"renaming", "clash"} => c.op \in {"renaming", "clash"}
  PROVE  IInv'
  <1> DEFINE C == {g \in goros : g.item = c.victim /\ g.gen = items[c.victim].gen}
  <1>1. goros' = Marked(goros, C)
    BY DEF Cancel, Marked
  <1> HIDE DEF C
  <1>2. GorosOK(goros', items) /\ Cardinality(goros') = Cardinality(goros)
    <2>1. GorosOK(goros, items)
      BY DEF IInv
    <2>2. QED
      BY <1>1, <2>1, CancelSome
  <1>3. UNCHANGED <<items, lookup, closed, expiry, timer, runs, uploads, errors, stopped, panicked>>
    BY DEF Cancel
  <1>4. calls' \in [Thread -> CallRec(DOMAIN items)] /\ \A u \in Thread : calls'[u] = IF u = t THEN c ELSE calls[u]
    BY Facts DEF Cancel
  <1>5. goros' \subseteq [item : DOMAIN items, gen : Nat \ {0}, cancelled : BOOLEAN]
    BY <1>2 DEF GorosOK, GoroRec
  <1>6. TypeOK'
    BY <1>3, <1>4, <1>5 DEF IInv, TypeOK, NoTime
  <1>7. UploadsCounted' /\ Timed' /\ Found(items', lookup')
    BY <1>2, <1>3 DEF IInv, UploadsCounted, Timed, NoTime
  <1>8. Awake'
    BY <1>3, <1>4 DEF IInv, Awake, Heap
  <1>9. QED
    BY <1>2, <1>3, <1>6, <1>7, <1>8 DEF IInv

\* The end of Add and of Rename.
LEMMA KickStep ==
  ASSUME IInv, NEW t \in Thread, NEW its, SameItems(items, its), Found(its, lookup),
         NEW k \in DOMAIN items, Kick(t, its, k), ncalls' \in Nat
  PROVE  IInv'
  <1> DEFINE new == WithExpiry(its, k, Delay)
  <1>1. items' = new /\ ResetTimer(items') /\ calls' = [calls EXCEPT ![t] = NoCall]
        /\ UNCHANGED <<lookup, goros, closed, runs, uploads, errors, stopped, panicked>>
    BY DEF Kick, Return, WithExpiry
  <1>2. its \in Seq(ItemRec) /\ k \in DOMAIN its /\ Delay \in 0..MaxUploadDelay /\ DOMAIN its = DOMAIN items
    BY WriteBackAssumption DEF SameItems
  <1>3. items[k] \in ItemRec /\ items[k].name \in Name
    BY Facts DEF ItemRec
  <1>4. /\ SameItems(its, new) /\ new[k].onHeap = its[k].onHeap /\ new[k].uploading = its[k].uploading
        /\ \A j \in DOMAIN its : j # k => new[j] = its[j]
    BY <1>2, <1>3, Edits
  <1> HIDE DEF new
  <1>5. SameItems(items, items')
    BY <1>1, <1>4 DEF SameItems
  <1>6. \A j \in DOMAIN items : items'[j].id = its[j].id /\ items'[j].onHeap = its[j].onHeap
                              /\ items'[j].uploading = its[j].uploading
    BY <1>1, <1>2, <1>4 DEF SameItems
  <1>7. Found(items', lookup')
    BY <1>1, <1>6, Facts DEF Found
  <1>8. DOMAIN items' = DOMAIN items
    BY <1>5 DEF SameItems
  <1>9. lookup' \in [Handle -> {0} \cup DOMAIN items']
    BY <1>1, <1>8, Facts
  <1>10. calls' \in [Thread -> CallRec(DOMAIN items')]
    BY <1>1, <1>8, Facts DEF CallRec
  <1>11. QED
    BY <1>1, <1>5, <1>7, <1>9, <1>10, SettleSame

\* An item that is put back on the heap is still found.
LEMMA BackFound ==
  ASSUME IInv, NEW k \in DOMAIN items
  PROVE  SameItems(items, Back(items, k)) /\ Found(Back(items, k), lookup)
  <1>1. items[k] \in ItemRec /\ items[k].name \in Name /\ 0 \in 0..MaxUploadDelay
    BY Facts, WriteBackAssumption DEF ItemRec
  <1>2. /\ SameItems(items, Back(items, k)) /\ Back(items, k)[k].onHeap
        /\ \A j \in DOMAIN items : j # k => Back(items, k)[j] = items[j]
    BY <1>1, Facts, Edits
  <1>3. QED
    BY <1>2, Facts DEF Found, IInv, SameItems

\* Add: a new item, or one whose upload is cancelled first, ends on the heap.
LEMMA AddStep ==
  ASSUME IInv, NEW t \in Thread, NEW id \in Handle, NEW name \in Name, NEW changed \in BOOLEAN,
         Add(t, id, name, changed)
  PROVE  IInv'
  <1> DEFINE k == lookup[id]
  <1>1. ncalls' \in Nat /\ Idle(t) /\ k \in {0} \cup DOMAIN items
    BY Facts DEF Add, Call
  <1>2. CASE k = 0 /\ items' = Append(items, NewItem(id, name)) /\ lookup' = [lookup EXCEPT ![id] = Len(items) + 1]
             /\ ResetTimer(items') /\ UNCHANGED <<goros, closed, runs, uploads, calls, errors, stopped, panicked>>
    <2>1. NewItem(id, name) \in ItemRec /\ NewItem(id, name).id = id /\ NewItem(id, name).onHeap
      BY WriteBackAssumption DEF NewItem, ItemRec
    <2>2. /\ items' \in Seq(ItemRec) /\ DOMAIN items' = DOMAIN items \cup {Len(items) + 1}
          /\ Len(items) + 1 \notin DOMAIN items /\ Len(items) + 1 # 0
          /\ items'[Len(items) + 1] = NewItem(id, name)
          /\ \A j \in DOMAIN items : items'[j] = items[j]
      BY <1>2, <2>1, Facts
    <2>3. lookup' \in [Handle -> {0} \cup DOMAIN items']
      BY <1>2, <2>2, Facts
    <2>4. \A h \in Handle : lookup'[h] = IF h = id THEN Len(items) + 1 ELSE lookup[h]
      BY <1>2, Facts
    <2>5. Found(items', lookup')
      BY <2>1, <2>2, <2>4, Facts DEF Found, IInv
    <2>6. GorosOK(goros', items')
      <3>1. goros \subseteq GoroRec(items')
        BY <2>2 DEF IInv, GorosOK, GoroRec
      <3>2. \A g \in goros : g.item \in DOMAIN items
        BY DEF IInv, GorosOK, GoroRec
      <3>3. QED
        BY <1>2, <2>2, <3>1, <3>2 DEF IInv, GorosOK
    <2>7. closed' \subseteq (DOMAIN items') \X (Nat \ {0}) /\ uploads' \in Nat /\ errors' \in Nat
      BY <1>2, <2>2 DEF IInv, TypeOK
    <2>8. panicked' \in BOOLEAN
      BY <1>2 DEF IInv, TypeOK
    <2>9. UploadsCounted'
      BY <1>2 DEF IInv, UploadsCounted
    <2>10. calls' \in [Thread -> CallRec(DOMAIN items')]
      BY <1>2, <2>2, Facts, CallsGrow
    <2>11. QED
      BY <1>1, <1>2, <2>2, <2>3, <2>5, <2>6, <2>7, <2>8, <2>9, <2>10, Settle
  <1>3. CASE k # 0 /\ Cancel(t, [op |-> "add", victim |-> k, done |-> 0])
    <2> DEFINE c == [op |-> "add", victim |-> k, done |-> 0]
    <2>1. c \in CallRec(DOMAIN items)
      BY <1>1, <1>3 DEF CallRec, WaitRec
    <2> HIDE DEF c
    <2>2. Cancel(t, c) /\ calls[t].op = "none"
      BY <1>1, <1>3 DEF c, Idle
    <2>3. QED
      BY <1>1, <2>1, <2>2, CancelStep
  <1>4. CASE k # 0 /\ Kick(t, items, k)
    <2>1. k \in DOMAIN items /\ SameItems(items, items) /\ Found(items, lookup)
      BY <1>1, <1>4, Facts DEF SameItems, IInv
    <2>2. QED
      BY <1>1, <1>4, <2>1, KickStep
  <1>5. QED
    BY <1>2, <1>3, <1>4 DEF Add

\* The end of _remove, of an item that may have been put back on the heap.
LEMMA DropStep ==
  ASSUME IInv, NEW k \in DOMAIN items, NEW its, its = items \/ its = Back(items, k),
         items' = Drop(its, k), lookup' = Forget(k), ResetTimer(items'),
         UNCHANGED <<goros, closed, runs, uploads, errors, stopped, panicked>>,
         calls' \in [Thread -> CallRec(DOMAIN items)], ncalls' \in Nat
  PROVE  IInv'
  <1>1. items[k] \in ItemRec /\ items[k].name \in Name /\ 0 \in 0..MaxUploadDelay
    BY Facts, WriteBackAssumption DEF ItemRec
  <1>2. SameItems(items, its) /\ \A j \in DOMAIN items : j # k => its[j] = items[j]
    <2>1. CASE its = items
      BY <2>1, Facts DEF SameItems
    <2>2. CASE its = Back(items, k)
      BY <2>2, <1>1, Facts, Edits
    <2>3. QED
      BY <2>1, <2>2
  <1>3. its \in Seq(ItemRec) /\ k \in DOMAIN its /\ DOMAIN its = DOMAIN items
    BY <1>2 DEF SameItems
  <1>4. SameItems(its, items') /\ \A j \in DOMAIN its : j # k => items'[j] = its[j]
    BY <1>1, <1>3, Edits
  <1>5. SameItems(items, items') /\ \A j \in DOMAIN items : j # k => items'[j] = items[j]
    BY <1>2, <1>3, <1>4 DEF SameItems
  <1>6. DOMAIN items' = DOMAIN items
    BY <1>5 DEF SameItems
  <1>7. lookup' \in [Handle -> {0} \cup DOMAIN items'] /\ Found(items', lookup')
    BY <1>5, Forgotten
  <1>8. QED
    BY <1>5, <1>6, <1>7, SettleSame

\* Remove takes an item off the map at once, or waits for its upload.
LEMMA RemoveStep == ASSUME IInv, NEW t \in Thread, NEW id \in Handle, Remove(t, id) PROVE IInv'
  <1> DEFINE k == lookup[id]
  <1>1. ncalls' \in Nat /\ Idle(t) /\ k \in {0} \cup DOMAIN items
    BY Facts DEF Remove, Call
  <1>2. CASE k # 0 /\ Cancel(t, [op |-> "remove", victim |-> k, done |-> 0])
    <2> DEFINE c == [op |-> "remove", victim |-> k, done |-> 0]
    <2>1. c \in CallRec(DOMAIN items)
      BY <1>1, <1>2 DEF CallRec, WaitRec
    <2> HIDE DEF c
    <2>2. Cancel(t, c) /\ calls[t].op = "none"
      BY <1>1, <1>2 DEF c, Idle
    <2>3. QED
      BY <1>1, <2>1, <2>2, CancelStep
  <1>3. CASE /\ items' = (IF k = 0 THEN items ELSE Drop(items, k))
             /\ lookup' = (IF k = 0 THEN lookup ELSE Forget(k))
             /\ ResetTimer(items')
             /\ UNCHANGED <<goros, closed, runs, uploads, calls, errors, stopped, panicked>>
    <2>1. CASE k = 0
      <3>1. SameItems(items, items') /\ items' = items /\ lookup' = lookup
        BY <1>3, <2>1, Facts DEF SameItems
      <3>2. Found(items', lookup') /\ lookup' \in [Handle -> {0} \cup DOMAIN items']
        BY <3>1, Facts DEF IInv
      <3>3. calls' \in [Thread -> CallRec(DOMAIN items')]
        BY <1>3, <3>1, Facts
      <3>4. QED
        BY <1>1, <1>3, <3>1, <3>2, <3>3, SettleSame
    <2>2. CASE k # 0
      BY <1>1, <1>3, <2>2, Facts, DropStep
    <2>3. QED
      BY <2>1, <2>2
  <1>4. QED
    BY <1>2, <1>3 DEF Remove

\* A step that changes nothing but where the calls are.
LEMMA CallsOnly ==
  ASSUME IInv, UNCHANGED <<items, lookup, goros, closed, expiry, timer, runs, uploads, errors, stopped, panicked>>,
         calls' \in [Thread -> CallRec(DOMAIN items)], ncalls' \in Nat,
         \A t \in Thread : calls[t].op \in {"renaming", "clash"} => calls'[t].op \in {"renaming", "clash"}
  PROVE  IInv'
  <1>1. TypeOK'
    BY DEF IInv, TypeOK, NoTime
  <1>2. Awake'
    BY DEF IInv, Awake, Heap
  <1>3. UploadsCounted' /\ Timed'
    BY DEF IInv, UploadsCounted, Timed, NoTime
  <1>4. QED
    BY <1>1, <1>2, <1>3 DEF IInv

\* The record of a Rename that enters its loop.
LEMMA LoopCall ==
  ASSUME IInv, NEW t \in Thread, NEW c \in RenameRec(DOMAIN items), Loop(t, c)
  PROVE  /\ calls' \in [Thread -> CallRec(DOMAIN items)]
         /\ calls'[t].op = "renaming" /\ \A u \in Thread : u # t => calls'[u] = calls[u]
  <1> DEFINE due == {lookup[h] : h \in Handle} \ {0}
             d == [c EXCEPT !.op = "renaming", !.done = 0, !.due = due]
  <1>1. due \in SUBSET DOMAIN items
    BY Facts
  <1> HIDE DEF due
  <1>2. d \in RenameRec(DOMAIN items) /\ d.op = "renaming"
    BY <1>1 DEF RenameRec
  <1>3. calls' = [calls EXCEPT ![t] = d]
    BY DEF Loop, due
  <1> HIDE DEF d
  <1>4. QED
    BY <1>2, <1>3, Facts DEF CallRec

\* Rename starts its loop over the items with the old or the new name.
LEMMA RenameStep ==
  ASSUME IInv, NEW t \in Thread, NEW id \in Handle, NEW name \in Name, Rename(t, id, name)
  PROVE  IInv'
  <1> DEFINE k == lookup[id]
             c == [op |-> "rename", item |-> k, victim |-> k, id |-> id, name |-> name,
                   seen |-> {}, due |-> {}, done |-> 0]
  <1>1. ncalls' \in Nat /\ calls[t].op = "none" /\ k \in {0} \cup DOMAIN items
    BY Facts DEF Rename, Call, Idle
  <1>2. k # 0 => c \in RenameRec(DOMAIN items)
    BY <1>1 DEF RenameRec
  <1>3. \/ k = 0 /\ UNCHANGED <<items, lookup, goros, closed, expiry, timer, runs, uploads, calls, errors, stopped, panicked>>
        \/ k # 0 /\ Cancel(t, c)
        \/ k # 0 /\ Loop(t, c)
             /\ UNCHANGED <<items, lookup, goros, closed, expiry, timer, runs, uploads, errors, stopped, panicked>>
    BY DEF Rename
  <1> HIDE DEF c, k
  <1>4. CASE k = 0 /\ UNCHANGED <<items, lookup, goros, closed, expiry, timer, runs, uploads, calls, errors, stopped, panicked>>
    BY <1>1, <1>4, Facts, CallsOnly
  <1>5. CASE k # 0 /\ Cancel(t, c)
    <2>1. c \in CallRec(DOMAIN items)
      BY <1>2, <1>5 DEF CallRec
    <2>2. QED
      BY <1>1, <1>5, <2>1, CancelStep
  <1>6. CASE k # 0 /\ Loop(t, c)
             /\ UNCHANGED <<items, lookup, goros, closed, expiry, timer, runs, uploads, errors, stopped, panicked>>
    <2>1. /\ calls' \in [Thread -> CallRec(DOMAIN items)]
          /\ calls'[t].op = "renaming" /\ \A u \in Thread : u # t => calls'[u] = calls[u]
      BY <1>2, <1>6, LoopCall
    <2>2. QED
      BY <1>1, <1>6, <2>1, CallsOnly
  <1>7. QED
    BY <1>3, <1>4, <1>5, <1>6

\* The waiter of _cancelUpload reads which channel to wait on after the unlock.
LEMMA ReadDoneStep == ASSUME IInv, NEW t \in Thread, ReadDone(t) PROVE IInv'
  <1> DEFINE c == calls[t]
             d == [c EXCEPT !.done = items[c.victim].gen]
  <1>1. c \in CallRec(DOMAIN items) /\ c.op # "none"
    BY Facts DEF ReadDone, Idle
  <1>2. c.victim \in DOMAIN items
    BY <1>1, CallFacts
  <1>3. items[c.victim].gen \in Nat
    BY <1>2, Facts DEF ItemRec
  <1>4. d \in CallRec(DOMAIN items) /\ d.op = c.op
    <2>1. CASE c \in WaitRec(DOMAIN items)
      BY <1>3, <2>1 DEF CallRec, WaitRec
    <2>2. CASE c \in RenameRec(DOMAIN items)
      BY <1>3, <2>2 DEF CallRec, RenameRec
    <2>3. QED
      BY <1>1, <2>1, <2>2 DEF CallRec, NoCall
  <1>5. calls' = [calls EXCEPT ![t] = d]
    BY DEF ReadDone
  <1> HIDE DEF d
  <1>6. calls' \in [Thread -> CallRec(DOMAIN items)] /\ \A u \in Thread : calls'[u].op = calls[u].op
    BY <1>4, <1>5, Facts
  <1>7. QED
    BY <1>6, Facts, CallsOnly DEF ReadDone

\* Add gets the lock back after the cancelled upload and re-queues the item.
LEMMA AddResumeStep == ASSUME IInv, NEW t \in Thread, AddResume(t) PROVE IInv'
  <1> DEFINE k == calls[t].victim
  <1>1. k \in DOMAIN items
    BY Facts, CallFacts DEF AddResume, Waited
  <1>2. SameItems(items, Back(items, k)) /\ Found(Back(items, k), lookup)
    BY <1>1, BackFound
  <1>3. QED
    BY <1>1, <1>2, Facts, KickStep DEF AddResume

\* Remove gets the lock back after the cancelled upload and drops the item.
LEMMA RemoveResumeStep == ASSUME IInv, NEW t \in Thread, RemoveResume(t) PROVE IInv'
  <1> DEFINE k == calls[t].victim
  <1>1. k \in DOMAIN items
    BY Facts, CallFacts DEF RemoveResume, Waited
  <1>2. calls' \in [Thread -> CallRec(DOMAIN items)]
    BY Facts DEF RemoveResume, Return, CallRec
  <1>3. QED
    BY <1>1, <1>2, Facts, DropStep DEF RemoveResume

\* The timer is not reset here, which the rest of Rename makes up for.
LEMMA RenameResumeStep == ASSUME IInv, NEW t \in Thread, RenameResume(t) PROVE IInv'
  <1> DEFINE c == calls[t]
             k == c.victim
  <1>1. c \in RenameRec(DOMAIN items) /\ k \in DOMAIN items
    BY Facts, CallFacts DEF RenameResume, Waited
  <1>2. SameItems(items, items') /\ Found(items', lookup)
    BY <1>1, BackFound DEF RenameResume
  <1>3. /\ calls' \in [Thread -> CallRec(DOMAIN items)] /\ calls'[t].op = "renaming"
    BY <1>1, LoopCall DEF RenameResume
  <1>4. GorosOK(goros, items')
    BY <1>2, SameGoros DEF IInv
  <1>5. UNCHANGED <<lookup, goros, closed, expiry, timer, runs, uploads, ncalls, errors, stopped, panicked>>
    BY DEF RenameResume
  <1>6. items' \in Seq(ItemRec) /\ DOMAIN items' = DOMAIN items
    BY <1>2 DEF SameItems
  <1>7. TypeOK'
    BY <1>3, <1>5, <1>6 DEF IInv, TypeOK, NoTime
  <1>8. Awake'
    BY <1>3 DEF Awake
  <1>9. UploadsCounted' /\ Timed'
    BY <1>5 DEF IInv, UploadsCounted, Timed, NoTime
  <1>10. QED
    BY <1>2, <1>4, <1>5, <1>7, <1>8, <1>9 DEF IInv

\* Rename removes another item that has the new name, or waits for its upload.
LEMMA RenameClashStep == ASSUME IInv, NEW t \in Thread, RenameClash(t) PROVE IInv'
  <1> DEFINE c == calls[t]
  <1>1. c \in RenameRec(DOMAIN items) /\ c.op = "renaming" /\ ncalls' \in Nat
    BY Facts, CallFacts DEF RenameClash
  <1>2. PICK h \in Clashes(c), been \in SUBSET (Handle \ Clashes(c)) :
          \/ Cancel(t, [c EXCEPT !.op = "clash", !.victim = lookup[h], !.seen = @ \cup {h} \cup been])
          \/ /\ items' = Drop(items, lookup[h]) /\ lookup' = Forget(lookup[h]) /\ ResetTimer(items')
             /\ calls' = [calls EXCEPT ![t].seen = @ \cup {h}]
             /\ UNCHANGED <<goros, closed, runs, uploads, errors, stopped, panicked>>
    BY DEF RenameClash
  <1>3. h \in Handle /\ lookup[h] \in DOMAIN items
    BY Facts DEF Clashes
  <1> HIDE DEF c
  <1>4. CASE Cancel(t, [c EXCEPT !.op = "clash", !.victim = lookup[h], !.seen = @ \cup {h} \cup been])
    <2> DEFINE d == [c EXCEPT !.op = "clash", !.victim = lookup[h], !.seen = c.seen \cup {h} \cup been]
    <2>1. d \in RenameRec(DOMAIN items) /\ d.op = "clash"
      BY <1>1, <1>3 DEF RenameRec
    <2>2. Cancel(t, d)
      BY <1>4
    <2> HIDE DEF d
    <2>3. d \in CallRec(DOMAIN items)
      BY <2>1 DEF CallRec
    <2>4. QED
      BY <1>1, <2>1, <2>2, <2>3, CancelStep
  <1>5. CASE /\ items' = Drop(items, lookup[h]) /\ lookup' = Forget(lookup[h]) /\ ResetTimer(items')
             /\ calls' = [calls EXCEPT ![t].seen = @ \cup {h}]
             /\ UNCHANGED <<goros, closed, runs, uploads, errors, stopped, panicked>>
    <2> DEFINE d == [c EXCEPT !.seen = c.seen \cup {h}]
    <2>1. d \in RenameRec(DOMAIN items)
      BY <1>1, <1>3 DEF RenameRec
    <2>2. calls' = [calls EXCEPT ![t] = d]
      BY <1>5 DEF c
    <2> HIDE DEF d
    <2>3. calls' \in [Thread -> CallRec(DOMAIN items)]
      BY <2>1, <2>2, Facts DEF CallRec
    <2>4. QED
      BY <1>1, <1>3, <1>5, <2>3, DropStep
  <1>6. QED
    BY <1>2, <1>4, <1>5

\* Rename gets the lock back and drops the item with the clashing name.
LEMMA ClashResumeStep == ASSUME IInv, NEW t \in Thread, ClashResume(t) PROVE IInv'
  <1> DEFINE c == calls[t]
             d == [c EXCEPT !.op = "renaming", !.done = 0]
  <1>1. c \in RenameRec(DOMAIN items) /\ c.victim \in DOMAIN items
    BY Facts, CallFacts DEF ClashResume, Waited
  <1>2. d \in RenameRec(DOMAIN items)
    BY <1>1 DEF RenameRec
  <1>3. calls' = [calls EXCEPT ![t] = d]
    BY DEF ClashResume
  <1> HIDE DEF d
  <1>4. calls' \in [Thread -> CallRec(DOMAIN items)]
    BY <1>2, <1>3, Facts DEF CallRec
  <1>5. QED
    BY <1>1, <1>4, Facts, DropStep DEF ClashResume

\* Rename leaves its loop and resets the timer.
LEMMA RenameEndStep == ASSUME IInv, NEW t \in Thread, RenameEnd(t) PROVE IInv'
  <1> DEFINE c == calls[t]
             its == WithName(items, c.item, c.name)
  <1>1. c \in RenameRec(DOMAIN items)
    BY Facts, CallFacts DEF RenameEnd
  <1>2. c.item \in DOMAIN items /\ c.name \in Name /\ 0 \in 0..MaxUploadDelay
    BY <1>1, WriteBackAssumption DEF RenameRec
  <1>3. Kick(t, its, c.item) /\ ncalls' \in Nat
    BY Facts DEF RenameEnd, WithName
  <1> HIDE DEF c
  <1>4. /\ SameItems(items, its) /\ its[c.item].onHeap = items[c.item].onHeap
        /\ its[c.item].uploading = items[c.item].uploading
        /\ \A j \in DOMAIN items : j # c.item => its[j] = items[j]
    BY <1>2, Facts, Edits
  <1> HIDE DEF its
  <1>5. Found(its, lookup)
    BY <1>4, Facts DEF Found, IInv, SameItems
  <1>6. QED
    BY <1>2, <1>3, <1>4, <1>5, KickStep

\* SetExpiry moves an item on the heap and resets the timer to the new top.
LEMMA SetExpiryStep ==
  ASSUME IInv, NEW t \in Thread, NEW id \in Handle, NEW e \in 0..Delay, SetExpiry(t, id, e)
  PROVE  IInv'
  <1> DEFINE k == lookup[id]
  <1>1. k \in DOMAIN items /\ ncalls' \in Nat /\ e \in 0..MaxUploadDelay
    BY Facts, WriteBackAssumption DEF SetExpiry, Call
  <1>2. items' = WithExpiry(items, k, e) /\ ResetTimer(items')
        /\ UNCHANGED <<lookup, goros, closed, runs, uploads, calls, errors, stopped, panicked>>
    BY DEF SetExpiry, WithExpiry
  <1>3. items[k].name \in Name
    BY <1>1, Facts DEF ItemRec
  <1> HIDE DEF k
  <1>4. /\ SameItems(items, items') /\ items'[k].onHeap = items[k].onHeap
        /\ items'[k].uploading = items[k].uploading
        /\ \A j \in DOMAIN items : j # k => items'[j] = items[j]
    BY <1>1, <1>2, <1>3, Facts, Edits
  <1>5. Found(items', lookup')
    BY <1>2, <1>4, Facts DEF Found, IInv, SameItems
  <1>6. DOMAIN items' = DOMAIN items
    BY <1>4 DEF SameItems
  <1>7. lookup' \in [Handle -> {0} \cup DOMAIN items'] /\ calls' \in [Thread -> CallRec(DOMAIN items')]
    BY <1>2, <1>6, Facts
  <1>8. QED
    BY <1>1, <1>2, <1>4, <1>5, <1>7, SettleSame

\* Time passes for the items on the heap and for the timer alike.
LEMMA TickStep == ASSUME IInv, Tick PROVE IInv'
  <1> USE WriteBackAssumption DEF NoTime
  <1> DEFINE less(e) == IF e = 0 \/ e = NoTime THEN e ELSE e - 1
  <1>1. /\ items' = [k \in DOMAIN items |-> [items[k] EXCEPT !.expiry = less(items[k].expiry)]]
        /\ expiry' = less(expiry)
        /\ UNCHANGED <<lookup, goros, closed, timer, runs, uploads, calls, ncalls, errors, stopped, panicked>>
    BY DEF Tick
  <1>2. \A k \in DOMAIN items :
          /\ items'[k] \in ItemRec /\ items'[k].id = items[k].id /\ items'[k].gen = items[k].gen
          /\ items'[k].onHeap = items[k].onHeap /\ items'[k].uploading = items[k].uploading
    <2>1. ASSUME NEW k \in DOMAIN items
          PROVE  /\ items'[k] \in ItemRec /\ items'[k].id = items[k].id /\ items'[k].gen = items[k].gen
                 /\ items'[k].onHeap = items[k].onHeap /\ items'[k].uploading = items[k].uploading
      <3>1. items[k] \in ItemRec
        BY Facts
      <3>2. less(items[k].expiry) \in 0..MaxUploadDelay
        BY <3>1 DEF ItemRec
      <3>3. items'[k] = [items[k] EXCEPT !.expiry = less(items[k].expiry)]
        BY <1>1
      <3> HIDE DEF less
      <3>4. QED
        BY <3>1, <3>2, <3>3 DEF ItemRec
    <2>2. QED
      BY <2>1
  <1>3. items' \in Seq(ItemRec) /\ DOMAIN items' = DOMAIN items
    <2>1. Len(items) \in Nat /\ DOMAIN items = 1..Len(items)
      BY Facts
    <2>2. items' \in [1..Len(items) -> ItemRec]
      BY <1>1, <1>2, <2>1
    <2>3. QED
      BY <2>1, <2>2, FunSeq
  <1>4. SameItems(items, items')
    BY <1>2, <1>3 DEF SameItems
  <1>5. GorosOK(goros', items')
    BY <1>1, <1>4, SameGoros DEF IInv
  <1>6. Found(items', lookup')
    BY <1>1, <1>2, Facts DEF Found, IInv
  <1>7. /\ expiry \in 0..NoTime /\ expiry' \in 0..NoTime
        /\ (expiry' = NoTime <=> expiry = NoTime) /\ (expiry = 0 => expiry' = 0)
    BY <1>1 DEF IInv, TypeOK
  <1>8. TypeOK'
    BY <1>1, <1>3, <1>7 DEF IInv, TypeOK
  <1>9. Timed' /\ UploadsCounted'
    BY <1>1, <1>7 DEF IInv, Timed, UploadsCounted
  <1>10. Heap(items') = Heap(items)
    BY <1>2, <1>3 DEF Heap
  <1>11. Awake'
    BY <1>1, <1>10 DEF IInv, Awake
  <1>12. QED
    BY <1>5, <1>6, <1>8, <1>9, <1>11 DEF IInv

\* The timer that fires becomes a run of processItems.
LEMMA TimerFiresStep == ASSUME IInv, TimerFires PROVE IInv'
  <1> USE WriteBackAssumption DEF TimerFires, NoTime
  <1>1. TypeOK'
    BY DEF IInv, TypeOK
  <1>2. Timed' /\ UploadsCounted'
    BY DEF IInv, TypeOK, Timed, UploadsCounted
  <1>3. Awake'
    BY DEF IInv, TypeOK, Awake
  <1>4. QED
    BY <1>1, <1>2, <1>3 DEF IInv

\* processItems does nothing once the context is cancelled.
LEMMA ProcessStoppedStep == ASSUME IInv, ProcessStopped PROVE IInv'
  <1> USE WriteBackAssumption DEF ProcessStopped, NoTime
  <1>1. TypeOK'
    BY DEF IInv, TypeOK
  <1>2. Timed' /\ UploadsCounted' /\ Awake'
    BY DEF IInv, Timed, UploadsCounted, Awake
  <1>3. QED
    BY <1>1, <1>2 DEF IInv

\* The context is cancelled: the queue promises nothing afterwards.
LEMMA StopStep == ASSUME IInv, Stop PROVE IInv'
  <1>1. goros' = Marked(goros, goros)
    BY DEF Stop, Marked
  <1>2. GorosOK(goros', items) /\ Cardinality(goros') = Cardinality(goros)
    <2>1. GorosOK(goros, items)
      BY DEF IInv
    <2>2. QED
      BY <1>1, <2>1, CancelSome
  <1>3. stopped' = TRUE /\ UNCHANGED <<items, lookup, closed, expiry, timer, runs, uploads, calls, ncalls, errors, panicked>>
    BY DEF Stop
  <1>4. goros' \subseteq [item : DOMAIN items, gen : Nat \ {0}, cancelled : BOOLEAN]
    BY <1>2 DEF GorosOK, GoroRec
  <1>5. TypeOK'
    BY <1>3, <1>4 DEF IInv, TypeOK, NoTime
  <1>6. Timed' /\ UploadsCounted' /\ Awake'
    BY <1>2, <1>3 DEF IInv, Timed, UploadsCounted, Awake, NoTime
  <1>7. QED
    BY <1>2, <1>3, <1>5, <1>6 DEF IInv

Expired == {k \in Heap(items) : items[k].expiry = 0}
Started(S) == {[item |-> k, gen |-> items[k].gen + 1, cancelled |-> FALSE] : k \in S}

\* processItems starts as many uploads as it counts, each a new one.
LEMMA StartGoros ==
  ASSUME IInv, NEW S \in SUBSET DOMAIN items, IsFiniteSet(S),
         items' \in Seq(ItemRec), DOMAIN items' = DOMAIN items,
         \A k \in DOMAIN items : items'[k].gen = IF k \in S THEN items[k].gen + 1 ELSE items[k].gen
  PROVE  /\ GorosOK(goros \cup Started(S), items')
         /\ Cardinality(goros \cup Started(S)) = Cardinality(goros) + Cardinality(S)
  <1> DEFINE T == Started(S)
             f == [k \in S |-> [item |-> k, gen |-> items[k].gen + 1, cancelled |-> FALSE]]
  <1>1. \A k \in DOMAIN items : items[k].gen \in Nat
    BY Facts DEF ItemRec
  <1>2. \A k \in S : /\ f[k] \in T /\ f[k].item = k /\ f[k].gen = items[k].gen + 1
                    /\ f[k] \in GoroRec(items')
    <2>1. \A k \in S : f[k] \in T
      BY DEF Started
    <2>2. \A k \in S : f[k].item = k /\ f[k].gen = items[k].gen + 1
      OBVIOUS
    <2>3. \A k \in S : f[k] \in GoroRec(items')
      BY <1>1 DEF GoroRec
    <2>4. QED
      BY <2>1, <2>2, <2>3
  <1>3. \A g \in T : \E k \in S : g = f[k]
    BY DEF Started
  <1>4. f \in [S -> T]
    BY <1>2
  <1> HIDE DEF f, T
  <1>5. f \in Surjection(S, T)
    BY <1>3, <1>4 DEF Surjection
  <1>6. f \in Injection(S, T)
    <2>1. \A j, k \in S : f[j] = f[k] => j = k
      BY <1>2
    <2>2. QED
      BY <2>1, <1>4 DEF Injection, IsInjective
  <1>7. IsFiniteSet(T) /\ Cardinality(T) = Cardinality(S)
    BY <1>5, <1>6, FS_Surjection
  <1>8. /\ goros \subseteq GoroRec(items) /\ IsFiniteSet(goros)
        /\ \A g, h \in goros : g.item = h.item /\ g.gen = h.gen => g = h
        /\ \A g \in goros : g.item \in DOMAIN items /\ g.gen \in Nat /\ g.gen <= items[g.item].gen
    BY DEF IInv, GorosOK, GoroRec
  <1>9. \A g \in T : g.item \in S /\ g.gen = items[g.item].gen + 1
    BY <1>2, <1>3
  <1>10. \A g \in goros, h \in T : ~(g.item = h.item /\ g.gen = h.gen)
    BY <1>1, <1>8, <1>9
  <1>11. goros \cap T = {}
    BY <1>10
  <1>12. IsFiniteSet(goros \cup T) /\ Cardinality(goros \cup T) = Cardinality(goros) + Cardinality(T)
    <2>1. Cardinality(goros \cap T) = 0 /\ Cardinality(goros) \in Nat /\ Cardinality(T) \in Nat
      BY <1>7, <1>8, <1>11, FS_EmptySet, FS_CardinalityType
    <2>2. IsFiniteSet(goros \cup T)
          /\ Cardinality(goros \cup T) = Cardinality(goros) + Cardinality(T) - Cardinality(goros \cap T)
      BY <1>7, <1>8, FS_Union
    <2>3. QED
      BY <2>1, <2>2
  <1>13. goros \cup T \subseteq GoroRec(items')
    <2>1. GoroRec(items') = GoroRec(items)
      BY DEF GoroRec
    <2>2. QED
      BY <1>2, <1>3, <1>8, <2>1
  <1>14. \A g, h \in goros \cup T : g.item = h.item /\ g.gen = h.gen => g = h
    <2>1. \A g, h \in T : g.item = h.item => g = h
      BY <1>2, <1>3
    <2>2. QED
      BY <2>1, <1>8, <1>10
  <1>15. \A g \in goros \cup T : g.gen <= items'[g.item].gen
    BY <1>1, <1>8, <1>9
  <1>16. GorosOK(goros \cup T, items')
    BY <1>12, <1>13, <1>14, <1>15 DEF GorosOK
  <1>17. QED
    BY <1>7, <1>12, <1>16 DEF T

\* processItems: an item that waits on has the timer, or is at the limit.
LEMMA ProcessStep == ASSUME IInv, Process PROVE IInv'
  <1> USE WriteBackAssumption
  <1>1. /\ runs > 0 /\ ~stopped /\ runs' = runs - 1
        /\ IF Heap(items') # {} /\ uploads' >= Transfers THEN StopTimer ELSE ResetTimer(items')
        /\ UNCHANGED <<lookup, closed, calls, ncalls, errors, stopped, panicked>>
    BY DEF Process
  <1>2. PICK S \in SUBSET Expired :
          /\ Cardinality(S) = Min({Room, Cardinality(Expired)})
          /\ items' = [k \in DOMAIN items |->
                         IF k \in S THEN [items[k] EXCEPT !.onHeap = FALSE, !.uploading = TRUE, !.gen = @ + 1]
                                    ELSE items[k]]
          /\ uploads' = uploads + Cardinality(S)
          /\ goros' = goros \cup Started(S)
    BY DEF Process, Expired, Started
  <1>a. uploads' = uploads + Cardinality(S)
    BY <1>2
  <1>3. Expired \subseteq DOMAIN items /\ DOMAIN items = 1..Len(items) /\ Len(items) \in Nat
    BY Facts DEF Expired, Heap
  <1>4. IsFiniteSet(Expired) /\ Cardinality(Expired) \in Nat
    <2>1. IsFiniteSet(1..Len(items)) /\ Expired \in SUBSET (1..Len(items))
      BY <1>3, FS_Interval
    <2>2. IsFiniteSet(Expired)
      BY <2>1, FS_Subset
    <2>3. QED
      BY <2>2, FS_CardinalityType
  <1>5. IsFiniteSet(S) /\ Cardinality(S) \in Nat /\ (Cardinality(S) = Cardinality(Expired) => S = Expired)
    BY <1>4, FS_Subset, FS_CardinalityType
  <1>6. uploads \in Nat /\ uploads <= Transfers /\ Room = Transfers - uploads /\ Room \in Nat
    BY DEF IInv, TypeOK, UploadsCounted, Room
  <1>7. Cardinality(S) \in {Room, Cardinality(Expired)} /\ Cardinality(S) <= Room
    <2>1. {Room, Cardinality(Expired)} \in SUBSET Nat
      BY <1>4, <1>6
    <2>2. QED
      BY <1>2, <2>1, MinFacts
  <1>8. uploads' \in Nat /\ uploads' <= Transfers
    BY <1>a, <1>5, <1>6, <1>7
  <1>9. \A k \in DOMAIN items :
          /\ items'[k] \in ItemRec /\ items'[k].id = items[k].id
          /\ items'[k].gen = IF k \in S THEN items[k].gen + 1 ELSE items[k].gen
          /\ k \in S => items'[k].uploading /\ ~items'[k].onHeap
          /\ k \notin S => items'[k] = items[k]
    <2>1. ASSUME NEW k \in DOMAIN items, k \in S
          PROVE  /\ items'[k] \in ItemRec /\ items'[k].id = items[k].id /\ items'[k].gen = items[k].gen + 1
                 /\ items'[k].uploading /\ ~items'[k].onHeap
      <3>1. items[k] \in ItemRec
        BY Facts
      <3> DEFINE n == items[k].gen + 1
      <3>2. items'[k] = [items[k] EXCEPT !.onHeap = FALSE, !.uploading = TRUE, !.gen = n]
        BY <1>2, <2>1
      <3>3. n \in Nat
        BY <3>1 DEF ItemRec
      <3> HIDE DEF n
      <3>4. /\ items'[k] \in ItemRec /\ items'[k].id = items[k].id /\ items'[k].gen = n
            /\ items'[k].uploading /\ ~items'[k].onHeap
        BY <3>1, <3>2, <3>3 DEF ItemRec
      <3>5. QED
        BY <3>4 DEF n
    <2>2. ASSUME NEW k \in DOMAIN items, k \notin S
          PROVE  items'[k] = items[k] /\ items[k] \in ItemRec
      BY <1>2, <2>2, Facts
    <2>3. QED
      BY <2>1, <2>2
  <1>10. items' \in Seq(ItemRec) /\ DOMAIN items' = DOMAIN items
    <2>1. items' \in [1..Len(items) -> ItemRec]
      BY <1>2, <1>3, <1>9
    <2>2. QED
      BY <1>3, <2>1, FunSeq
  <1>11. GorosOK(goros', items') /\ Cardinality(goros') = Cardinality(goros) + Cardinality(S)
    BY <1>2, <1>3, <1>5, <1>9, <1>10, StartGoros
  <1>12. UploadsCounted'
    BY <1>2, <1>8, <1>11 DEF IInv, UploadsCounted
  <1>13. Found(items', lookup')
    BY <1>1, <1>9, Facts DEF Found, IInv
  <1>14. /\ expiry' \in 0..NoTime /\ timer' \in {"off", "armed"} /\ (timer' = "off" <=> expiry' = NoTime)
         /\ Heap(items') # {} => timer' = "armed" \/ uploads' >= Transfers
    <2>1. expiry \in 0..NoTime /\ timer \in {"off", "armed", "fired"} /\ Timed
      BY DEF IInv, TypeOK
    <2>2. CASE Heap(items') # {} /\ uploads' >= Transfers
      BY <1>1, <2>1, <2>2 DEF StopTimer, Timed, NoTime
    <2>3. CASE ~(Heap(items') # {} /\ uploads' >= Transfers)
      <3>1. /\ expiry' \in 0..NoTime /\ timer' \in {"off", "armed", "fired"}
            /\ timer' = "off" <=> expiry' = NoTime
            /\ timer' = "fired" => Heap(items') # {} /\ Top(items') = 0
            /\ Heap(items') # {} => timer' \in {"armed", "fired"}
        BY <1>1, <1>10, <2>1, <2>3, TimerReset
      <3>2. ASSUME timer' = "fired" PROVE FALSE
        <4>1. PICK k \in Heap(items') : items'[k].expiry = 0
          BY <1>10, <3>1, <3>2, TopFacts
        <4>2. k \in DOMAIN items /\ items'[k].onHeap
          BY <1>10, <4>1 DEF Heap
        <4>3. k \notin S /\ items'[k] = items[k]
          BY <1>9, <4>2
        <4>4. k \in Expired
          BY <4>1, <4>2, <4>3 DEF Expired, Heap
        <4>5. Cardinality(S) = Room
          BY <1>5, <1>7, <4>3, <4>4
        <4>6. uploads' >= Transfers
          BY <1>a, <1>6, <4>5
        <4>7. QED
          BY <2>3, <3>1, <3>2, <4>6
      <3>3. QED
        BY <3>1, <3>2
    <2>4. QED
      BY <2>2, <2>3
  <1>15. Timed' /\ Awake'
    BY <1>14 DEF Timed, Awake, NoTime
  <1>16. goros' \subseteq [item : DOMAIN items', gen : Nat \ {0}, cancelled : BOOLEAN]
    BY <1>11 DEF GorosOK, GoroRec
  <1>17. runs' \in Nat
    BY <1>1 DEF IInv, TypeOK
  <1>18. TypeOK'
    BY <1>1, <1>8, <1>10, <1>14, <1>16, <1>17 DEF IInv, TypeOK, NoTime
  <1>19. QED
    BY <1>11, <1>12, <1>13, <1>15, <1>18 DEF IInv

\* The delay of an item stays between --vfs-write-back and the maximum.
LEMMA NextDelayType ==
  ASSUME IInv, NEW k \in DOMAIN items, NEW err
  PROVE  NextDelay(k, err) \in Delay..MaxUploadDelay
  <1>1. items[k].delay \in Delay..MaxUploadDelay /\ items[k].delay \in Nat /\ 2 * items[k].delay \in Nat
    BY Facts, WriteBackAssumption, SMTT(30) DEF ItemRec
  <1> DEFINE S == {2 * items[k].delay, MaxUploadDelay}
  <1>2. S \in SUBSET Nat /\ S # {}
    BY <1>1, WriteBackAssumption
  <1>3. Min(S) \in S /\ Min(S) <= MaxUploadDelay
    BY <1>2, MinFacts
  <1>4. Min(S) \in Delay..MaxUploadDelay
    BY <1>1, <1>3, WriteBackAssumption
  <1>5. QED
    BY <1>4, WriteBackAssumption DEF NextDelay

\* The second half of upload(): the upload is gone and counted off, and its
\* item is forgotten or waits again.
LEMMA UploadEndsStep ==
  ASSUME IInv, NEW g \in goros, NEW err, UploadEnds(g, err), errors' \in Nat
  PROVE  IInv'
  <1> DEFINE k == g.item
             gen == items[k].gen
             C == {h \in goros \ {g} : h.item = k /\ h.gen = gen}
  <1>1. /\ uploads' = uploads - 1 /\ ResetTimer(items')
        /\ items' = (IF err = "none" THEN [items EXCEPT ![k].uploading = FALSE] ELSE Retry(k, err))
        /\ lookup' = (IF err = "none" THEN Forget(k) ELSE lookup)
        /\ closed' = closed \cup {<<k, gen>>}
        /\ UNCHANGED <<runs, calls, ncalls, stopped>>
    BY DEF UploadEnds, CloseDone
  <1>2. goros' = Marked(goros \ {g}, C)
    BY DEF UploadEnds, Marked
  <1>3. panicked' \in BOOLEAN
    BY DEF UploadEnds
  <1>4. k \in DOMAIN items /\ gen \in Nat \ {0}
    BY Facts DEF IInv, GorosOK, GoroRec, ItemRec
  <1> HIDE DEF k, gen, C
  <1>5. items[k] \in ItemRec
    BY <1>4, Facts
  <1>6. /\ SameItems(items, items') /\ \A j \in DOMAIN items : j # k => items'[j] = items[j]
        /\ err # "none" => items'[k].onHeap
    <2>1. CASE err = "none"
      <3> DEFINE r == [items[k] EXCEPT !.uploading = FALSE]
      <3>1. r \in ItemRec /\ r.id = items[k].id /\ r.gen = items[k].gen
        BY <1>5 DEF ItemRec
      <3>2. items' = [items EXCEPT ![k] = r]
        BY <1>1, <2>1
      <3> HIDE DEF r
      <3>3. QED
        BY <1>4, <2>1, <3>1, <3>2, Facts, Edit
    <2>2. CASE err # "none"
      <3> DEFINE d == NextDelay(k, err)
                 r == [items[k] EXCEPT !.uploading = FALSE, !.onHeap = TRUE, !.delay = d, !.expiry = d]
      <3>1. d \in Delay..MaxUploadDelay /\ d \in 0..MaxUploadDelay
        BY <1>4, NextDelayType, WriteBackAssumption
      <3> HIDE DEF d
      <3>2. r \in ItemRec /\ r.id = items[k].id /\ r.gen = items[k].gen /\ r.onHeap
        BY <1>5, <3>1 DEF ItemRec
      <3>3. items' = [items EXCEPT ![k] = r]
        BY <1>1, <2>2 DEF Retry, d
      <3> HIDE DEF r
      <3>4. QED
        BY <1>4, <3>2, <3>3, Facts, Edit
    <2>3. QED
      BY <2>1, <2>2
  <1>7. items' \in Seq(ItemRec) /\ DOMAIN items' = DOMAIN items
    BY <1>6 DEF SameItems
  <1>8. lookup' \in [Handle -> {0} \cup DOMAIN items'] /\ Found(items', lookup')
    <2>1. CASE err = "none"
      BY <1>1, <1>4, <1>6, <2>1, Forgotten
    <2>2. CASE err # "none"
      <3>1. Found(items', lookup)
        BY <1>6, <2>2, Facts DEF Found, IInv, SameItems
      <3>2. QED
        BY <1>1, <1>7, <2>2, <3>1, Facts
    <2>3. QED
      BY <2>1, <2>2
  <1>9. GorosOK(goros \ {g}, items) /\ Cardinality(goros \ {g}) = Cardinality(goros) - 1
    <2>1. IsFiniteSet(goros) /\ GorosOK(goros, items)
      BY DEF IInv, GorosOK
    <2>2. IsFiniteSet(goros \ {g}) /\ Cardinality(goros \ {g}) = Cardinality(goros) - 1
      BY <2>1, FS_RemoveElement
    <2>3. QED
      BY <2>1, <2>2 DEF GorosOK
  <1>10. GorosOK(goros', items) /\ Cardinality(goros') = Cardinality(goros) - 1
    BY <1>2, <1>9, CancelSome
  <1>11. GorosOK(goros', items')
    BY <1>6, <1>10, SameGoros
  <1>12. Cardinality(goros') \in Nat
    BY <1>10, FS_CardinalityType DEF GorosOK
  <1>13. UploadsCounted' /\ uploads' \in Nat
    <2>1. uploads = Cardinality(goros) /\ uploads <= Transfers /\ uploads \in Nat
      BY DEF IInv, TypeOK, UploadsCounted
    <2>2. uploads' = Cardinality(goros') /\ uploads' <= Transfers /\ uploads' \in Nat
      BY <1>1, <1>10, <1>12, <2>1, WriteBackAssumption
    <2>3. QED
      BY <2>2 DEF UploadsCounted
  <1>14. closed' \subseteq (DOMAIN items') \X (Nat \ {0})
    BY <1>1, <1>4, <1>7 DEF IInv, TypeOK
  <1>15. calls' \in [Thread -> CallRec(DOMAIN items')] /\ ncalls' \in Nat
    BY <1>1, <1>7, Facts
  <1>16. QED
    BY <1>1, <1>3, <1>7, <1>8, <1>11, <1>13, <1>14, <1>15, Settle

-----------------------------------------------------------------------------
(* The theorems *)

\* An empty queue with a timer that is off.
LEMMA InitIInv == Init => IInv
  <1> SUFFICES ASSUME Init PROVE IInv
    OBVIOUS
  <1>1. IsFiniteSet({}) /\ Cardinality({}) = 0
    BY FS_EmptySet
  <1>2. items \in Seq(ItemRec) /\ lookup \in [Handle -> {0} \cup DOMAIN items]
    BY DEF Init
  <1>3. calls \in [Thread -> CallRec(DOMAIN items)]
    BY DEF Init, CallRec
  <1>4. goros = {} /\ closed = {} /\ expiry = NoTime /\ timer = "off" /\ runs = 0 /\ uploads = 0
        /\ ncalls = 0 /\ errors = 0 /\ stopped = FALSE /\ panicked = FALSE /\ NoTime \in Nat
    BY WriteBackAssumption DEF Init, NoTime
  <1>5. TypeOK
    <2>1. goros \subseteq [item : DOMAIN items, gen : Nat \ {0}, cancelled : BOOLEAN]
          /\ closed \subseteq (DOMAIN items) \X (Nat \ {0})
      BY <1>4
    <2>2. expiry \in 0..NoTime /\ timer \in {"off", "armed", "fired"}
          /\ runs \in Nat /\ uploads \in Nat /\ ncalls \in Nat /\ errors \in Nat
      BY <1>4
    <2>3. stopped \in BOOLEAN /\ panicked \in BOOLEAN
      BY <1>4
    <2>4. QED
      BY <1>2, <1>3, <2>1, <2>2, <2>3 DEF TypeOK
  <1>6. GorosOK(goros, items)
    BY <1>1, <1>4 DEF GorosOK
  <1>7. UploadsCounted
    BY <1>1, <1>4, WriteBackAssumption DEF UploadsCounted
  <1>8. Timed
    BY <1>4 DEF Timed
  <1>9. Found(items, lookup)
    BY DEF Init, Found
  <1>10. Awake
    BY DEF Init, Awake, Heap
  <1>11. QED
    BY <1>5, <1>6, <1>7, <1>8, <1>9, <1>10 DEF IInv

\* Every step preserves the invariant.
LEMMA NextIInv == IInv /\ [Next]_vars => IInv'
  <1> SUFFICES ASSUME IInv, [Next]_vars PROVE IInv'
    OBVIOUS
  <1>1. CASE UNCHANGED vars
    BY <1>1, Facts, CallsOnly DEF vars
  <1>2. ASSUME NEW t \in Thread, Begin(t)
        PROVE  IInv'
    BY <1>2, AddStep, RemoveStep, RenameStep, SetExpiryStep DEF Begin
  <1>3. ASSUME NEW t \in Thread, Continue(t)
        PROVE  IInv'
    BY <1>3, ReadDoneStep, AddResumeStep, RemoveResumeStep, RenameResumeStep, RenameClashStep,
       ClashResumeStep, RenameEndStep DEF Continue
  <1>4. CASE Upload
    <2>1. PICK g \in goros : Succeed(g) \/ Cancelled(g) \/ Fail(g)
      BY <1>4 DEF Upload
    <2>2. errors \in Nat
      BY DEF IInv, TypeOK
    <2>3. QED
      BY <2>1, <2>2, UploadEndsStep DEF Succeed, Cancelled, Fail
  <1>5. CASE Tick \/ TimerFires \/ Process \/ ProcessStopped \/ Stop
    BY <1>5, TickStep, TimerFiresStep, ProcessStep, ProcessStoppedStep, StopStep
  <1>6. QED
    BY <1>1, <1>2, <1>3, <1>4, <1>5 DEF Next

\* The queue stays within its type: what a handle, a call, an upload or a
\* channel refers to is an item that exists, and delays stay in range.
THEOREM QueueTyped == Spec => []TypeOK
  BY InitIInv, NextIInv, PTL DEF Spec, IInv

\* wb.uploads is the number of uploads that run, and --transfers is never
\* exceeded, whatever is cancelled, restarted, renamed or fails.
THEOREM UploadsAreCounted == Spec => []UploadsCounted
  BY InitIInv, NextIInv, PTL DEF Spec, IInv

\* What a handle finds in the lookup map waits for its upload or is being
\* uploaded: no file drops out of the queue.
THEOREM NothingForgotten == Spec => []NoneForgotten
  <1>1. IInv => NoneForgotten
    BY DEF IInv, Found, NoneForgotten
  <1>2. QED
    BY <1>1, InitIInv, NextIInv, PTL DEF Spec

\* No wakeup is lost: while an item waits, the timer is armed, processItems
\* is about to run, the uploads are at the limit or a Rename will reset it.
THEOREM QueueAwake == Spec => []Awake
  BY InitIInv, NextIInv, PTL DEF Spec, IInv

-----------------------------------------------------------------------------
(***************************************************************************)
(* The cache items above the queue.  Every step of the items that touches  *)
(* the queue is a step of the queue, except the restart, so the invariant  *)
(* of the queue carries over.                                              *)
(***************************************************************************)


-----------------------------------------------------------------------------
(* The inductive invariant *)

Shut == {"queueing", "queued", "discard", "discarding"}
Removing == {"unqueue", "unqueued"}
Discarding == {"discard", "discarding"}
Places == {"idle", "wrote"} \cup Removing \cup Exclusive

StoreRec(its) ==
  [item : DOMAIN its, gen : Nat \ {0}, version : Nat, stage : {"read", "sent", "clean"}]

ItemsTyped ==
  /\ cached \in [Handle -> 0..MaxWrites] /\ remote \in [Handle -> Nat] /\ saved \in [Handle -> Nat]
  /\ dirty \in [Handle -> BOOLEAN] /\ modified \in [Handle -> BOOLEAN]
  /\ fd \in [Handle -> BOOLEAN] /\ grace \in [Handle -> BOOLEAN]
  /\ fh \in [Thread -> Handle \cup {0}] /\ at \in [Thread -> Places]
  /\ wrote \subseteq Handle /\ stores \subseteq StoreRec(items)

\* An item on the heap or in an upload is the one its handle finds, it is not
\* both, and there is one upload of it, the channel of which is open.
Live(k) ==
  /\ items[k].onHeap \/ items[k].uploading => lookup[items[k].id] = k
  /\ ~(items[k].onHeap /\ items[k].uploading)
  /\ items[k].uploading => items[k].gen > 0 /\ <<k, items[k].gen>> \notin closed

LiveOK ==
  /\ \A k \in DOMAIN items : Live(k)
  /\ \A c \in closed : c[2] <= items[c[1]].gen
  /\ \A g \in goros : items[g.item].uploading /\ g.gen = items[g.item].gen
  /\ ~panicked

\* A call that waits is a Remove by the thread that has made the first change
\* of a file or that has failed to open it, and the item it waits for is not
\* started again meanwhile.
Waits(t) ==
  LET k == calls[t].victim
  IN /\ calls[t].op = "remove" /\ at[t] \in {"unqueued", "discarding"} /\ items[k].id = fh[t]
     /\ items[k].gen > 0 /\ calls[t].done \in {0, items[k].gen}
     /\ ~items[k].uploading => <<k, items[k].gen>> \in closed
     /\ items[k].onHeap => items[k].expiry > 0
     /\ lookup[fh[t]] \in {0, k}

WaitOK == \A t \in Thread : calls[t].op # "none" => Waits(t)

\* A file that is closed for the last time is used by no other thread, and one
\* thread takes it off the queue.
ThreadsOK ==
  /\ \A t \in Thread : fh[t] = 0 => at[t] = "idle"
  /\ \A t, u \in Thread : fh[t] = fh[u] /\ fh[t] # 0 /\ at[t] \in Exclusive => t = u
  /\ \A t, u \in Thread : fh[t] = fh[u] /\ at[t] \in Removing /\ at[u] \in Removing => t = u
  /\ \A t \in Thread : at[t] \in Removing => modified[fh[t]]

OpenOK ==
  /\ \A t \in Thread : fh[t] # 0 /\ at[t] \notin Shut => fd[fh[t]]
  /\ \A h \in Handle : grace[h] => fd[h] /\ ~dirty[h] /\ \A t \in Thread : fh[t] # h

\* A modified file is not in the queue, except while it is taken off or put on.
Busy(t) == at[t] = "unqueue" \/ (at[t] = "unqueued" /\ ~Idle(t)) \/ at[t] = "queued"

OffQueue ==
  \A h \in Handle :
    modified[h] /\ (\A t \in Thread : fh[t] = h => ~Busy(t)) => lookup[h] = 0

\* The version that must not get lost: what was saved, or what was written once
\* no write is under way.
Writing(h) == \E t \in Thread : fh[t] = h /\ at[t] \in {"wrote"} \cup Removing

Due(h) == IF h \in wrote /\ ~Writing(h) THEN cached[h] ELSE saved[h]



\* An upload carries what is due, and what it carries is on the remote once it
\* has been sent.  If the file is dirty when it was marked clean, the first
\* change of the file waits for the upload.
Carries(s, h) ==
  /\ Due(h) <= s.version /\ s.version <= cached[h]
  /\ s.stage # "read" => remote[h] = s.version
  /\ s.stage = "clean" /\ dirty[h] => \E t \in Thread : fh[t] = h /\ at[t] \in Removing

StoresOK ==
  /\ \A s \in stores : \E g \in goros : g.item = s.item /\ g.gen = s.gen
  /\ \A s, r \in stores : s.item = r.item => s = r
  /\ \A s \in stores, h \in Handle : items[s.item].id = h => Carries(s, h)

\* What is due and not on the remote is dirty, and what is dirty, not open and
\* not skipped is in the queue.
Kept ==
  /\ \A h \in Handle : saved[h] <= cached[h] /\ remote[h] <= cached[h]
  /\ \A h \in Handle : remote[h] < Due(h) => dirty[h]
  /\ \A h \in Handle :
       dirty[h] /\ h \notin skipped /\ (\A t \in Thread : fh[t] = h => at[t] = "queued") => lookup[h] # 0

CInv ==
  /\ IInv /\ ItemsTyped /\ LiveOK /\ WaitOK /\ ThreadsOK /\ OpenOK
  /\ OffQueue /\ StoresOK /\ Kept

\* The metadata on disk agrees with the item unless writing it has failed.
MetaOK ==
  /\ meta \in [Handle -> {"dirty", "clean", "broken"}]
  /\ \A h \in Handle : h \notin unsaved => meta[h] = Flag(dirty[h])
  /\ IsFiniteSet({h \in Handle : meta[h] = "dirty"})

\* A file that is about to be removed from the cache is off the queue.
Gone == \A t \in Thread : at[t] = "discarding" /\ Idle(t) => lookup[fh[t]] = 0

\* It all holds until the queue's delay overtakes a thread.
OInv == overtaken \/ (CInv /\ MetaOK /\ Gone)

-----------------------------------------------------------------------------
(* Facts that follow from the invariant *)

\* An upload in item.store is of the item its file finds.
LEMMA StoreFacts ==
  ASSUME CInv, NEW s \in stores
  PROVE  /\ s.item \in DOMAIN items /\ items[s.item].uploading /\ ~items[s.item].onHeap
         /\ items[s.item].id \in Handle /\ lookup[items[s.item].id] = s.item /\ s.item # 0
         /\ s.version \in Nat /\ s.gen = items[s.item].gen /\ s \in StoreRec(items)
  <1>1. s \in StoreRec(items) /\ s.item \in DOMAIN items /\ s.version \in Nat
    BY DEF CInv, ItemsTyped, StoreRec
  <1>2. PICK g \in goros : g.item = s.item /\ g.gen = s.gen
    BY DEF CInv, StoresOK
  <1>3. items[s.item].uploading /\ s.gen = items[s.item].gen
    BY <1>2 DEF CInv, LiveOK
  <1>4. lookup[items[s.item].id] = s.item /\ ~items[s.item].onHeap
    BY <1>1, <1>3 DEF CInv, LiveOK, Live
  <1>5. IInv
    BY DEF CInv
  <1>6. items[s.item].id \in Handle /\ s.item # 0
    BY <1>1, <1>5, Facts DEF ItemRec
  <1>7. QED
    BY <1>1, <1>3, <1>4, <1>6

\* There is one at most for each file.
LEMMA OneStore ==
  ASSUME CInv, NEW s \in stores, NEW r \in stores, items[s.item].id = items[r.item].id
  PROVE  s = r
  <1>1. s.item = r.item
    BY StoreFacts
  <1>2. QED
    BY <1>1 DEF CInv, StoresOK

LEMMA CTypes ==
  ASSUME CInv
  PROVE  /\ cached \in [Handle -> Nat] /\ remote \in [Handle -> Nat] /\ saved \in [Handle -> Nat]
         /\ dirty \in [Handle -> BOOLEAN] /\ modified \in [Handle -> BOOLEAN]
         /\ fd \in [Handle -> BOOLEAN] /\ grace \in [Handle -> BOOLEAN]
         /\ fh \in [Thread -> Handle \cup {0}] /\ at \in [Thread -> Places]
         /\ wrote \subseteq Handle /\ stores \subseteq StoreRec(items) /\ 0 \notin Handle
  <1>1. 0..MaxWrites \subseteq Nat
    BY CacheAssumption
  <1>2. cached \in [Handle -> Nat]
    BY <1>1 DEF CInv, ItemsTyped
  <1>3. QED
    BY <1>2, WriteBackAssumption DEF CInv, ItemsTyped

LEMMA DueType ==
  ASSUME CInv, NEW h \in Handle
  PROVE  Due(h) \in Nat /\ saved[h] <= Due(h) /\ Due(h) <= cached[h]
  BY CTypes DEF Due, CInv, Kept

\* A step of the items that leaves the queue alone.
LEMMA QueueStill ==
  ASSUME CInv, UNCHANGED vars
  PROVE  IInv' /\ LiveOK'
  <1>1. IInv'
    BY NextIInv DEF CInv
  <1>2. UNCHANGED <<items, lookup, goros, closed, panicked>>
    BY DEF vars
  <1>3. LiveOK'
    BY <1>2 DEF CInv, LiveOK, Live
  <1>4. QED
    BY <1>1, <1>3

\* The waiting calls, too, if no thread that waits takes a step.
LEMMA WaitStill ==
  ASSUME CInv, UNCHANGED vars, \A t \in Thread : ~Idle(t) => fh'[t] = fh[t] /\ at'[t] = at[t]
  PROVE  WaitOK'
  <1>1. UNCHANGED <<items, lookup, closed, calls>>
    BY DEF vars
  <1>2. ASSUME NEW t \in Thread, calls[t].op # "none" PROVE Waits(t)'
    <2>1. fh'[t] = fh[t] /\ at'[t] = at[t] /\ Waits(t)
      BY <1>2 DEF Idle, CInv, WaitOK
    <2>2. QED
      BY <1>1, <2>1 DEF Waits
  <1>3. QED
    BY <1>1, <1>2 DEF WaitOK

\* What the uploads carry is all right as long as no more is due.
LEMMA StoresStill ==
  ASSUME CInv, UNCHANGED <<items, goros, stores, remote>>,
         \A s \in stores, h \in Handle : items[s.item].id = h =>
            /\ cached[h] <= cached'[h] /\ cached'[h] \in Nat
            /\ Due(h)' <= Due(h) /\ Due(h)' \in Nat
            /\ s.stage = "clean" /\ dirty'[h] => \E t \in Thread : fh'[t] = h /\ at'[t] \in Removing
  PROVE  StoresOK'
  <1>1. \A s \in stores : \E g \in goros' : g.item = s.item /\ g.gen = s.gen
    BY DEF CInv, StoresOK
  <1>2. \A s, r \in stores : s.item = r.item => s = r
    BY DEF CInv, StoresOK
  <1>3. ASSUME NEW s \in stores, NEW h \in Handle, items[s.item].id = h PROVE Carries(s, h)'
    <2>1. s.version \in Nat /\ Carries(s, h)
      BY <1>3, StoreFacts DEF CInv, StoresOK
    <2>2. /\ cached[h] \in Nat /\ cached[h] <= cached'[h] /\ cached'[h] \in Nat
          /\ Due(h) \in Nat /\ Due(h)' <= Due(h) /\ Due(h)' \in Nat
      BY <1>3, CTypes, DueType
    <2>3. Due(h)' <= s.version /\ s.version <= cached'[h]
      BY <2>1, <2>2 DEF Carries
    <2>4. QED
      BY <1>3, <2>1, <2>2, <2>3 DEF Carries
  <1>4. QED
    BY <1>1, <1>2, <1>3 DEF StoresOK

-----------------------------------------------------------------------------
(* Steps of the items *)

LEMMA OpenStep ==
  ASSUME CInv, NEW t \in Thread, NEW h \in Handle, Open(t, h)
  PROVE  CInv'
  <1>1. /\ UNCHANGED <<vars, cached, remote, dirty, at, stores, wrote, saved, skipped>>
        /\ at[t] = "idle" /\ fh[t] = 0 /\ fh' = [fh EXCEPT ![t] = h]
        /\ modified' = [modified EXCEPT ![h] = @ /\ (Opens(h) # {} \/ grace[h])]
        /\ fd' = [fd EXCEPT ![h] = TRUE] /\ grace' = [grace EXCEPT ![h] = FALSE]
        /\ \A u \in Thread : fh[u] = h => at[u] \notin Exclusive
    BY DEF Open, Locked, Exclusive
  <1>2. UNCHANGED <<items, lookup, goros, closed, calls>>
    BY <1>1 DEF vars
  <1>3. \A u \in Thread : fh'[u] = IF u = t THEN h ELSE fh[u]
    BY <1>1, CTypes
  <1>4. IInv' /\ LiveOK'
    BY <1>1, QueueStill
  <1>5. calls[t].op = "none"
    BY <1>1 DEF CInv, WaitOK, Waits
  <1>6. WaitOK'
    BY <1>1, <1>3, <1>5, WaitStill DEF Idle
  <1>7. ItemsTyped'
    <2>1. modified' \in [Handle -> BOOLEAN]
      BY <1>1, CTypes
    <2>2. fd' \in [Handle -> BOOLEAN] /\ grace' \in [Handle -> BOOLEAN]
      BY <1>1, CTypes
    <2>3. fh' \in [Thread -> Handle \cup {0}]
      BY <1>1, CTypes
    <2>4. StoreRec(items') = StoreRec(items)
      BY <1>1, <1>2
    <2>5. QED
      BY <1>1, <1>2, <2>1, <2>2, <2>3, <2>4 DEF CInv, ItemsTyped
  <1>8. \A x \in Handle : modified'[x] => modified[x]
    BY <1>1, CTypes
  <1>9. \A u \in Thread : at[u] \in Removing => modified'[fh[u]] = modified[fh[u]]
    <2>1. SUFFICES ASSUME NEW u \in Thread, at[u] \in Removing
                   PROVE  modified'[fh[u]] = modified[fh[u]]
      OBVIOUS
    <2>2. fh[u] = h => u \in Opens(h)
      BY <2>1 DEF Opens, Removing, Exclusive
    <2>3. fh[u] \in Handle
      BY <2>1, CTypes DEF CInv, ThreadsOK, Removing
    <2>4. QED
      BY <1>1, <2>2, <2>3, CTypes
  <1>10. ThreadsOK'
    BY <1>1, <1>3, <1>9 DEF CInv, ThreadsOK, Exclusive, Removing
  <1>11. OpenOK'
    BY <1>1, <1>3, CTypes DEF CInv, OpenOK
  <1>12. OffQueue'
    BY <1>1, <1>2, <1>3, <1>8 DEF CInv, OffQueue, Busy, Idle
  <1>13. \A x \in Handle : Due(x)' = Due(x)
    BY <1>1, <1>3, CTypes DEF Due, Writing, Removing
  <1>14. StoresOK'
    <2>1. \A x \in Handle : cached[x] <= cached'[x] /\ cached'[x] \in Nat
      BY <1>1, CTypes
    <2>2. \A s \in stores, x \in Handle : items[s.item].id = x /\ s.stage = "clean" /\ dirty'[x]
             => \E u \in Thread : fh'[u] = x /\ at'[u] \in Removing
      BY <1>1, <1>3 DEF CInv, StoresOK, Carries, Removing
    <2>3. QED
      BY <1>1, <1>2, <1>13, <2>1, <2>2, DueType, StoresStill
  <1>15. Kept'
    <2>1. \A x \in Handle : dirty[x] /\ x \notin skipped /\ (\A u \in Thread : fh'[u] = x => at[u] = "queued") => lookup[x] # 0
      BY <1>1, <1>3, CTypes DEF CInv, Kept
    <2>2. QED
      BY <1>1, <1>2, <1>13, <2>1 DEF CInv, Kept
  <1>16. QED
    BY <1>4, <1>6, <1>7, <1>10, <1>11, <1>12, <1>14, <1>15 DEF CInv

\* An Open that fails: the thread goes on to remove the file.
LEMMA OpenFailsStep ==
  ASSUME CInv, NEW t \in Thread, NEW h \in Handle, OpenFails(t, h)
  PROVE  CInv'
  <1>1. /\ UNCHANGED <<vars, cached, remote, dirty, fd, grace, stores, wrote, saved, skipped>>
        /\ at[t] = "idle" /\ fh[t] = 0 /\ fh' = [fh EXCEPT ![t] = h] /\ at' = [at EXCEPT ![t] = "discard"]
        /\ modified' = [modified EXCEPT ![h] = @ /\ fd[h]]
        /\ ~Locked(h) /\ Opens(h) = {} /\ ~grace[h]
    BY DEF OpenFails, Go
  <1>2. UNCHANGED <<items, lookup, goros, closed, calls>>
    BY <1>1 DEF vars
  <1>3. \A u \in Thread : /\ fh'[u] = IF u = t THEN h ELSE fh[u]
                          /\ at'[u] = IF u = t THEN "discard" ELSE at[u]
    BY <1>1, CTypes
  <1>4. \A u \in Thread : fh[u] # h
    BY <1>1 DEF Locked, Opens
  <1>5. IInv' /\ LiveOK'
    BY <1>1, QueueStill
  <1>6. calls[t].op = "none"
    BY <1>1 DEF CInv, WaitOK, Waits
  <1>7. WaitOK'
    BY <1>1, <1>3, <1>6, WaitStill DEF Idle
  <1>8. /\ modified' \in [Handle -> BOOLEAN] /\ \A x \in Handle : modified'[x] => modified[x]
        /\ \A x \in Handle : x # h => modified'[x] = modified[x]
    BY <1>1, CTypes
  <1>9. ItemsTyped'
    <2>1. fh' \in [Thread -> Handle \cup {0}]
      BY <1>1, CTypes
    <2>2. at' \in [Thread -> Places]
      BY <1>1, CTypes DEF Places, Exclusive
    <2>3. StoreRec(items') = StoreRec(items)
      BY <1>2
    <2>4. QED
      BY <1>1, <1>2, <1>8, <2>1, <2>2, <2>3 DEF CInv, ItemsTyped
  <1>10. ThreadsOK'
    <2>1. \A u, v \in Thread : fh'[u] = fh'[v] /\ fh'[u] # 0 /\ at'[u] \in Exclusive => u = v
      BY <1>3, <1>4 DEF CInv, ThreadsOK
    <2>2. \A u \in Thread : at'[u] \in Removing => u # t /\ at[u] \in Removing /\ fh'[u] = fh[u]
      BY <1>3 DEF Removing
    <2>3. \A u \in Thread : at[u] \in Removing => fh[u] \in Handle /\ fh[u] # h
      BY <1>4, CTypes DEF CInv, ThreadsOK, Removing
    <2>4. \A u \in Thread : fh'[u] = 0 => at'[u] = "idle"
      BY <1>3, CTypes DEF CInv, ThreadsOK
    <2>5. \A u \in Thread : at'[u] \in Removing => modified'[fh'[u]]
      BY <1>8, <2>2, <2>3 DEF CInv, ThreadsOK
    <2>6. \A u, v \in Thread : fh'[u] = fh'[v] /\ at'[u] \in Removing /\ at'[v] \in Removing => u = v
      BY <2>2 DEF CInv, ThreadsOK
    <2>7. QED
      BY <2>1, <2>4, <2>5, <2>6 DEF ThreadsOK
  <1>11. OpenOK'
    BY <1>1, <1>3 DEF CInv, OpenOK, Shut
  <1>12. OffQueue'
    <2>1. \A u \in Thread : u # t => (Busy(u)' <=> Busy(u))
      BY <1>2, <1>3 DEF Busy, Idle
    <2>2. ASSUME NEW x \in Handle, modified'[x], \A u \in Thread : fh'[u] = x => ~Busy(u)'
          PROVE  lookup[x] = 0
      <3>1. modified[x] /\ x # 0
        BY <1>8, <2>2, CTypes
      <3>2. \A u \in Thread : fh[u] = x => ~Busy(u)
        BY <1>1, <1>3, <2>1, <2>2, <3>1
      <3>3. QED
        BY <3>1, <3>2 DEF CInv, OffQueue
    <2>3. QED
      BY <1>2, <2>2 DEF OffQueue
  <1>13. \A x \in Handle : Due(x)' = Due(x)
    <2>1. \A x \in Handle : Writing(x)' <=> Writing(x)
      BY <1>1, <1>3, CTypes DEF Writing, Removing
    <2>2. QED
      BY <1>1, <2>1 DEF Due
  <1>14. StoresOK'
    <2>1. \A x \in Handle : cached[x] <= cached'[x] /\ cached'[x] \in Nat
      BY <1>1, CTypes
    <2>2. \A s \in stores, x \in Handle : items[s.item].id = x /\ s.stage = "clean" /\ dirty'[x]
             => \E u \in Thread : fh'[u] = x /\ at'[u] \in Removing
      BY <1>1, <1>3 DEF CInv, StoresOK, Carries, Removing
    <2>3. QED
      BY <1>1, <1>2, <1>13, <2>1, <2>2, DueType, StoresStill
  <1>15. Kept'
    <2>1. \A x \in Handle : dirty[x] /\ x \notin skipped /\ (\A u \in Thread : fh'[u] = x => at'[u] = "queued") => lookup[x] # 0
      BY <1>1, <1>3, <1>4, CTypes DEF CInv, Kept
    <2>2. QED
      BY <1>1, <1>2, <1>13, <2>1 DEF CInv, Kept
  <1>16. QED
    BY <1>5, <1>7, <1>9, <1>10, <1>11, <1>12, <1>14, <1>15 DEF CInv

LEMMA WriteAtStep ==
  ASSUME CInv, NEW t \in Thread, WriteAt(t)
  PROVE  CInv'
  <1> DEFINE h == fh[t]
  <1>1. /\ UNCHANGED <<vars, remote, dirty, modified, fd, grace, fh, stores, saved, skipped>>
        /\ at[t] = "idle" /\ h # 0 /\ cached[h] < MaxWrites
        /\ cached' = [cached EXCEPT ![h] = @ + 1] /\ wrote' = wrote \cup {h}
        /\ at' = [at EXCEPT ![t] = "wrote"]
    BY DEF WriteAt, Go
  <1>2. UNCHANGED <<items, lookup, goros, closed, calls>>
    BY <1>1 DEF vars
  <1>3. h \in Handle
    BY <1>1, CTypes
  <1>4. \A u \in Thread : at'[u] = IF u = t THEN "wrote" ELSE at[u]
    BY <1>1, CTypes
  <1>5. \A x \in Handle : cached'[x] = IF x = h THEN cached[x] + 1 ELSE cached[x]
    BY <1>1, CTypes
  <1> HIDE DEF h
  <1>6. IInv' /\ LiveOK'
    BY <1>1, QueueStill
  <1>7. calls[t].op = "none"
    BY <1>1 DEF CInv, WaitOK, Waits
  <1>8. WaitOK'
    BY <1>1, <1>4, <1>7, WaitStill DEF Idle
  <1>9. ItemsTyped'
    <2>1. cached' \in [Handle -> 0..MaxWrites]
      BY <1>1, <1>3, CacheAssumption DEF CInv, ItemsTyped
    <2>2. at' \in [Thread -> Places]
      BY <1>1, CTypes DEF Places
    <2>3. StoreRec(items') = StoreRec(items)
      BY <1>1, <1>2
    <2>4. wrote' \subseteq Handle
      BY <1>1, <1>3, CTypes
    <2>5. QED
      BY <1>1, <1>2, <2>1, <2>2, <2>3, <2>4 DEF CInv, ItemsTyped
  <1>10. ThreadsOK'
    BY <1>1, <1>4 DEF CInv, ThreadsOK, Exclusive, Removing, h
  <1>11. OpenOK'
    BY <1>1, <1>4, CTypes DEF CInv, OpenOK, Shut
  <1>12. OffQueue'
    BY <1>1, <1>2, <1>4 DEF CInv, OffQueue, Busy, Idle
  <1>13. \A x \in Handle : Due(x)' <= Due(x) /\ Due(x)' \in Nat
    <2>1. ASSUME NEW x \in Handle, x = h PROVE Due(x)' = saved[x]
      BY <1>1, <1>4, <2>1 DEF Due, Writing, h
    <2>2. ASSUME NEW x \in Handle, x # h PROVE Due(x)' = Due(x)
      BY <1>1, <1>4, <1>5, <2>2 DEF Due, Writing, h
    <2>4. ASSUME NEW x \in Handle PROVE Due(x)' <= Due(x) /\ Due(x)' \in Nat
      <3>1. CASE x = h
        BY <2>1, <3>1, DueType, CTypes
      <3>2. CASE x # h
        BY <2>2, <3>2, DueType
      <3>3. QED
        BY <3>1, <3>2
    <2>5. QED
      BY <2>4
  <1>14. StoresOK'
    <2>1. \A x \in Handle : cached[x] <= cached'[x] /\ cached'[x] \in Nat
      BY <1>5, CTypes
    <2>2. \A s \in stores, x \in Handle : items[s.item].id = x /\ s.stage = "clean" /\ dirty'[x]
             => \E u \in Thread : fh'[u] = x /\ at'[u] \in Removing
      BY <1>1, <1>4 DEF CInv, StoresOK, Carries, Removing
    <2>3. QED
      BY <1>1, <1>2, <1>13, <2>1, <2>2, StoresStill
  <1>15. Kept'
    <2>1. \A x \in Handle : saved'[x] <= cached'[x] /\ remote'[x] <= cached'[x]
      BY <1>1, <1>5, CTypes DEF CInv, Kept
    <2>2. ASSUME NEW x \in Handle, remote[x] < Due(x)' PROVE dirty[x]
      <3>1. remote[x] < Due(x)
        BY <1>13, <2>2, DueType, CTypes
      <3>2. QED
        BY <3>1 DEF CInv, Kept
    <2>3. \A x \in Handle : dirty[x] /\ x \notin skipped /\ (\A u \in Thread : fh[u] = x => at'[u] = "queued") => lookup[x] # 0
      BY <1>1, <1>4 DEF CInv, Kept
    <2>4. QED
      BY <1>1, <1>2, <2>1, <2>2, <2>3 DEF Kept
  <1>16. QED
    BY <1>6, <1>8, <1>9, <1>10, <1>11, <1>12, <1>14, <1>15 DEF CInv

LEMMA DirtyFirstStep ==
  ASSUME CInv, NEW t \in Thread, DirtyFirst(t)
  PROVE  CInv'
  <1> DEFINE h == fh[t]
  <1>1. /\ UNCHANGED <<vars, cached, remote, dirty, fd, grace, fh, stores, wrote, saved, skipped>>
        /\ at[t] = "wrote" /\ ~modified[h]
        /\ modified' = [modified EXCEPT ![h] = TRUE]
        /\ at' = [at EXCEPT ![t] = "unqueue"]
    BY DEF DirtyFirst, Go
  <1>2. UNCHANGED <<items, lookup, goros, closed, calls>>
    BY <1>1 DEF vars
  <1>3. h \in Handle
    BY <1>1, CTypes DEF CInv, ThreadsOK
  <1>4. \A u \in Thread : at'[u] = IF u = t THEN "unqueue" ELSE at[u]
    BY <1>1, CTypes
  <1>5. \A x \in Handle : modified'[x] <=> (x = h \/ modified[x])
    BY <1>1, CTypes
  <1> HIDE DEF h
  <1>6. IInv' /\ LiveOK'
    BY <1>1, QueueStill
  <1>7. calls[t].op = "none"
    BY <1>1 DEF CInv, WaitOK, Waits
  <1>8. WaitOK'
    BY <1>1, <1>4, <1>7, WaitStill DEF Idle
  <1>9. ItemsTyped'
    <2>1. modified' \in [Handle -> BOOLEAN]
      BY <1>1, CTypes
    <2>2. at' \in [Thread -> Places]
      BY <1>1, CTypes DEF Places, Removing
    <2>3. StoreRec(items') = StoreRec(items)
      BY <1>1, <1>2
    <2>4. QED
      BY <1>1, <1>2, <2>1, <2>2, <2>3 DEF CInv, ItemsTyped
  <1>10. ThreadsOK'
    <2>1. \A u \in Thread : fh[u] = h => at[u] \notin Removing
      BY <1>1 DEF CInv, ThreadsOK, h
    <2>2. \A u \in Thread : at[u] \in Removing => fh[u] \in Handle
      BY CTypes DEF CInv, ThreadsOK, Removing
    <2>3. \A u, v \in Thread : fh[u] = fh[v] /\ at'[u] \in Removing /\ at'[v] \in Removing => u = v
      BY <1>4, <2>1 DEF CInv, ThreadsOK, h
    <2>4. \A u \in Thread : at'[u] \in Removing => modified'[fh[u]]
      BY <1>3, <1>4, <1>5, <2>2 DEF CInv, ThreadsOK, h
    <2>5. /\ \A u \in Thread : fh[u] = 0 => at'[u] = "idle"
          /\ \A u, v \in Thread : fh[u] = fh[v] /\ fh[u] # 0 /\ at'[u] \in Exclusive => u = v
      BY <1>1, <1>4 DEF CInv, ThreadsOK, Exclusive
    <2>6. QED
      BY <1>1, <2>3, <2>4, <2>5 DEF ThreadsOK
  <1>11. OpenOK'
    BY <1>1, <1>4, CTypes DEF CInv, OpenOK, Shut
  <1>12. OffQueue'
    <2>1. ASSUME NEW x \in Handle, modified'[x], \A u \in Thread : fh[u] = x => ~Busy(u)'
          PROVE  lookup[x] = 0
      <3>1. x # h
        BY <1>4, <2>1 DEF Busy, h
      <3>2. \A u \in Thread : fh[u] = x => ~Busy(u)
        BY <1>2, <1>4, <2>1, <3>1 DEF Busy, h, Idle
      <3>3. QED
        BY <1>5, <2>1, <3>1, <3>2 DEF CInv, OffQueue
    <2>2. QED
      BY <1>1, <1>2, <2>1 DEF OffQueue
  <1>13. \A x \in Handle : Due(x)' = Due(x)
    BY <1>1, <1>4 DEF Due, Writing, Removing
  <1>14. StoresOK'
    <2>1. \A x \in Handle : cached[x] <= cached'[x] /\ cached'[x] \in Nat
      BY <1>1, CTypes
    <2>2. \A s \in stores, x \in Handle : items[s.item].id = x /\ s.stage = "clean" /\ dirty'[x]
             => \E u \in Thread : fh'[u] = x /\ at'[u] \in Removing
      BY <1>1, <1>4 DEF CInv, StoresOK, Carries, Removing
    <2>3. QED
      BY <1>1, <1>2, <1>13, <2>1, <2>2, DueType, StoresStill
  <1>15. Kept'
    <2>1. \A x \in Handle : dirty[x] /\ x \notin skipped /\ (\A u \in Thread : fh[u] = x => at'[u] = "queued") => lookup[x] # 0
      BY <1>1, <1>4 DEF CInv, Kept
    <2>2. QED
      BY <1>1, <1>2, <1>13, <2>1 DEF CInv, Kept
  <1>16. QED
    BY <1>6, <1>8, <1>9, <1>10, <1>11, <1>12, <1>14, <1>15 DEF CInv

LEMMA MarkDirtyStep ==
  ASSUME CInv, NEW t \in Thread, MarkDirty(t)
  PROVE  CInv'
  <1> DEFINE h == fh[t]
             others == \E u \in Thread : fh[u] = h /\ at[u] \in Removing /\ u # t
  <1>1. /\ UNCHANGED <<vars, cached, remote, modified, fd, grace, fh, stores, wrote, saved, skipped>>
        /\ (at[t] = "unqueued" /\ Idle(t)) \/ (at[t] = "wrote" /\ modified[h])
        /\ dirty' = [dirty EXCEPT ![h] = TRUE]
        /\ at' = [at EXCEPT ![t] = "idle"]
    BY DEF MarkDirty, MayMark, Go
  <1>2. UNCHANGED <<items, lookup, goros, closed, calls>>
    BY <1>1 DEF vars
  <1>3. h \in Handle /\ modified[h]
    BY <1>1, CTypes DEF CInv, ThreadsOK, Removing
  <1>4. \A u \in Thread : at'[u] = IF u = t THEN "idle" ELSE at[u]
    BY <1>1, CTypes
  <1>5. \A x \in Handle : dirty'[x] <=> (x = h \/ dirty[x])
    BY <1>1, CTypes
  <1>6. others \/ lookup[h] = 0
    <2>1. SUFFICES ASSUME ~others PROVE lookup[h] = 0
      OBVIOUS
    <2>2. ASSUME NEW u \in Thread, fh[u] = h PROVE ~Busy(u)
      <3>1. at[u] # "queued"
        BY <1>1, <1>3, <2>2, CTypes DEF CInv, ThreadsOK, Exclusive
      <3>2. u # t => at[u] \notin Removing
        BY <2>1, <2>2
      <3>3. QED
        BY <1>1, <3>1, <3>2 DEF Busy, Removing
    <2>3. QED
      BY <1>3, <2>2 DEF CInv, OffQueue
  <1>7. others \/ \A s \in stores : items[s.item].id # h
    BY <1>6, StoreFacts
  <1> HIDE DEF h, others
  <1>8. IInv' /\ LiveOK'
    BY <1>1, QueueStill
  <1>9. calls[t].op = "none"
    BY <1>1 DEF CInv, WaitOK, Waits, Idle
  <1>10. WaitOK'
    BY <1>1, <1>4, <1>9, WaitStill DEF Idle
  <1>11. ItemsTyped'
    <2>1. dirty' \in [Handle -> BOOLEAN]
      BY <1>1, CTypes
    <2>2. at' \in [Thread -> Places]
      BY <1>1, CTypes DEF Places
    <2>3. StoreRec(items') = StoreRec(items)
      BY <1>2
    <2>4. QED
      BY <1>1, <1>2, <2>1, <2>2, <2>3 DEF CInv, ItemsTyped
  <1>12. ThreadsOK'
    BY <1>1, <1>4 DEF CInv, ThreadsOK, Exclusive, Removing, h
  <1>13. OpenOK'
    <2>1. ~grace[h] /\ fd[h]
      BY <1>1, <1>3, CTypes DEF CInv, OpenOK, Shut, h
    <2>2. \A u \in Thread : fh[u] # 0 /\ at'[u] \notin Shut => fd[fh[u]]
      BY <1>4, <2>1 DEF CInv, OpenOK, h
    <2>3. \A x \in Handle : grace[x] => fd[x] /\ ~dirty'[x] /\ \A u \in Thread : fh[u] # x
      BY <1>5, <2>1 DEF CInv, OpenOK
    <2>4. QED
      BY <1>1, <2>2, <2>3 DEF OpenOK
  <1>14. OffQueue'
    <2>1. \A u \in Thread : Busy(u)' <=> Busy(u)
      BY <1>1, <1>2, <1>4, <1>9 DEF Busy, Idle
    <2>2. QED
      BY <1>1, <1>2, <2>1 DEF CInv, OffQueue
  <1>15. \A x \in Handle : x # h \/ others => Due(x)' = Due(x)
    BY <1>1, <1>4 DEF Due, Writing, Removing, others, h
  <1>16. StoresOK'
    <2>1. \A x \in Handle : cached[x] <= cached'[x] /\ cached'[x] \in Nat
      BY <1>1, CTypes
    <2>2. ASSUME NEW s \in stores, NEW x \in Handle, items[s.item].id = x
          PROVE  /\ Due(x)' = Due(x)
                 /\ s.stage = "clean" /\ dirty'[x] => \E u \in Thread : fh'[u] = x /\ at'[u] \in Removing
      <3>1. CASE x = h
        BY <1>1, <1>4, <1>7, <1>15, <2>2, <3>1 DEF others
      <3>2. CASE x # h
        <4>1. s.stage = "clean" /\ dirty[x] => \E u \in Thread : fh[u] = x /\ at[u] \in Removing
          BY <2>2 DEF CInv, StoresOK, Carries
        <4>2. QED
          BY <1>1, <1>4, <1>5, <1>15, <3>2, <4>1 DEF h
      <3>3. QED
        BY <3>1, <3>2
    <2>3. QED
      BY <1>1, <1>2, <2>1, <2>2, DueType, StoresStill
  <1>17. Kept'
    <2>1. \A x \in Handle : dirty'[x] /\ x \notin skipped /\ (\A u \in Thread : fh[u] = x => at'[u] = "queued") => lookup[x] # 0
      BY <1>4, <1>5 DEF CInv, Kept, h
    <2>2. \A x \in Handle : remote[x] < Due(x)' => dirty'[x]
      BY <1>5, <1>15 DEF CInv, Kept
    <2>3. QED
      BY <1>1, <1>2, <2>1, <2>2 DEF CInv, Kept
  <1>18. QED
    BY <1>8, <1>10, <1>11, <1>12, <1>13, <1>14, <1>16, <1>17 DEF CInv

LEMMA CloseSharedStep ==
  ASSUME CInv, NEW t \in Thread, CloseShared(t)
  PROVE  CInv'
  <1> DEFINE h == fh[t]
  <1>1. /\ UNCHANGED <<vars, cached, remote, dirty, modified, fd, grace, stores, wrote, saved, skipped>>
        /\ at[t] = "idle" /\ h # 0 /\ Opens(h) # {t}
        /\ fh' = [fh EXCEPT ![t] = 0] /\ at' = [at EXCEPT ![t] = "idle"]
    BY DEF CloseShared, Leave, Go
  <1>2. UNCHANGED <<items, lookup, goros, closed, calls>>
    BY <1>1 DEF vars
  <1>3. h \in Handle
    BY <1>1, CTypes
  <1>4. at' = at /\ \A u \in Thread : fh'[u] = IF u = t THEN 0 ELSE fh[u]
    BY <1>1, CTypes
  <1>5. PICK v \in Thread : v # t /\ fh[v] = h /\ at[v] \notin Exclusive
    <2>1. t \in Opens(h)
      BY <1>1 DEF Opens, Exclusive
    <2>2. QED
      BY <1>1, <2>1 DEF Opens, Exclusive
  <1> HIDE DEF h
  <1>6. IInv' /\ LiveOK'
    BY <1>1, QueueStill
  <1>7. calls[t].op = "none"
    BY <1>1 DEF CInv, WaitOK, Waits
  <1>8. WaitOK'
    BY <1>1, <1>4, <1>7, WaitStill DEF Idle
  <1>9. ItemsTyped'
    <2>1. fh' \in [Thread -> Handle \cup {0}]
      BY <1>1, CTypes
    <2>2. StoreRec(items') = StoreRec(items)
      BY <1>1, <1>2
    <2>3. QED
      BY <1>1, <1>2, <1>4, <2>1, <2>2 DEF CInv, ItemsTyped
  <1>10. ThreadsOK'
    BY <1>1, <1>4 DEF CInv, ThreadsOK, Exclusive, Removing
  <1>11. OpenOK'
    BY <1>1, <1>4, WriteBackAssumption DEF CInv, OpenOK
  <1>12. OffQueue'
    <2>1. \A u \in Thread : Busy(u)' <=> Busy(u)
      BY <1>2, <1>4 DEF Busy, Idle
    <2>2. ~Busy(t)
      BY <1>1 DEF Busy
    <2>3. QED
      BY <1>1, <1>2, <1>4, <2>1, <2>2 DEF CInv, OffQueue
  <1>13. \A x \in Handle : Due(x)' = Due(x)
    BY <1>1, <1>4, CTypes DEF Due, Writing, Removing
  <1>14. StoresOK'
    <2>1. \A x \in Handle : cached[x] <= cached'[x] /\ cached'[x] \in Nat
      BY <1>1, CTypes
    <2>2. \A s \in stores, x \in Handle : items[s.item].id = x /\ s.stage = "clean" /\ dirty'[x]
             => \E u \in Thread : fh'[u] = x /\ at'[u] \in Removing
      BY <1>1, <1>4 DEF CInv, StoresOK, Carries, Removing
    <2>3. QED
      BY <1>1, <1>2, <1>13, <2>1, <2>2, DueType, StoresStill
  <1>15. Kept'
    <2>1. \A x \in Handle : dirty[x] /\ x \notin skipped /\ (\A u \in Thread : fh'[u] = x => at[u] = "queued") => lookup[x] # 0
      <3>1. SUFFICES ASSUME NEW x \in Handle, dirty[x], x \notin skipped, \A u \in Thread : fh'[u] = x => at[u] = "queued"
                     PROVE  lookup[x] # 0
        OBVIOUS
      <3>2. x # h
        BY <1>4, <1>5, <3>1 DEF Exclusive
      <3>3. \A u \in Thread : fh[u] = x => at[u] = "queued"
        BY <1>4, <3>1, <3>2 DEF h
      <3>4. QED
        BY <3>1, <3>3 DEF CInv, Kept
    <2>2. QED
      BY <1>1, <1>2, <1>4, <1>13, <2>1 DEF CInv, Kept
  <1>16. QED
    BY <1>6, <1>8, <1>9, <1>10, <1>11, <1>12, <1>14, <1>15 DEF CInv

\* The last handle of a file is closed: what was due is saved now.
LEMMA DueSaved ==
  ASSUME CInv, NEW t \in Thread, fh[t] # 0, at[t] \in {"idle"} \cup Exclusive, Save(fh[t]),
         \A u \in Thread : fh[u] = fh[t] => u = t
  PROVE  /\ fh[t] \in Handle /\ wrote' = wrote \ {fh[t]} /\ saved' \in [Handle -> Nat]
         /\ saved'[fh[t]] = Due(fh[t]) /\ \A x \in Handle : x # fh[t] => saved'[x] = saved[x]
         /\ saved'[fh[t]] <= cached[fh[t]] /\ remote[fh[t]] <= cached[fh[t]]
         /\ remote[fh[t]] < saved'[fh[t]] => dirty[fh[t]]
  <1> DEFINE h == fh[t]
  <1>1. h \in Handle
    BY CTypes
  <1>2. ~Writing(h)
    BY DEF Writing, Exclusive, Removing
  <1>3. wrote' = wrote \ {h} /\ saved' \in [Handle -> Nat]
        /\ saved'[h] = (IF h \in wrote THEN cached[h] ELSE saved[h])
        /\ \A x \in Handle : x # h => saved'[x] = saved[x]
    BY <1>1, CTypes DEF Save
  <1>4. saved'[h] = Due(h)
    BY <1>2, <1>3 DEF Due
  <1>5. Due(h) <= cached[h] /\ remote[h] <= cached[h] /\ (remote[h] < Due(h) => dirty[h])
    BY <1>1, DueType DEF CInv, Kept
  <1>6. QED
    BY <1>1, <1>3, <1>4, <1>5

\* The last thread that has a file open leaves it.
LEMMA LastLeaves ==
  ASSUME CInv, NEW t \in Thread, fh[t] # 0, calls[t].op = "none", at[t] \in {"idle"} \cup Exclusive,
         \A u \in Thread : fh[u] = fh[t] => u = t,
         UNCHANGED <<vars, remote, stores>>, Leave(t), wrote' = wrote \ {fh[t]},
         cached' \in [Handle -> 0..MaxWrites], saved' \in [Handle -> Nat], dirty' \in [Handle -> BOOLEAN],
         modified' \in [Handle -> BOOLEAN], fd' \in [Handle -> BOOLEAN], grace' \in [Handle -> BOOLEAN],
         \A x \in Handle : x # fh[t] =>
            /\ cached'[x] = cached[x] /\ saved'[x] = saved[x] /\ dirty'[x] = dirty[x]
            /\ fd'[x] = fd[x] /\ modified'[x] = modified[x] /\ grace'[x] = grace[x]
            /\ x \in skipped => x \in skipped',
         grace'[fh[t]] => fd'[fh[t]] /\ ~dirty'[fh[t]],
         modified'[fh[t]] => modified[fh[t]] /\ at[t] # "queued",
         dirty'[fh[t]] => dirty[fh[t]],
         dirty'[fh[t]] /\ fh[t] \notin skipped' => at[t] = "queued" /\ fh[t] \notin skipped,
         saved'[fh[t]] <= cached'[fh[t]], remote[fh[t]] <= cached'[fh[t]],
         remote[fh[t]] < saved'[fh[t]] => dirty'[fh[t]],
         \A s \in stores : items[s.item].id = fh[t] =>
            cached'[fh[t]] = cached[fh[t]] /\ saved'[fh[t]] <= Due(fh[t])
  PROVE  CInv'
  <1> DEFINE h == fh[t]
  <1>1. h \in Handle /\ fh' = [fh EXCEPT ![t] = 0] /\ at' = [at EXCEPT ![t] = "idle"]
    BY CTypes DEF Leave, Go
  <1>2. UNCHANGED <<items, lookup, goros, closed, calls>>
    BY DEF vars
  <1>3. \A u \in Thread : /\ fh'[u] = IF u = t THEN 0 ELSE fh[u]
                          /\ at'[u] = IF u = t THEN "idle" ELSE at[u]
    BY <1>1, CTypes
  <1>4. \A u \in Thread : fh'[u] # h /\ (fh[u] # h <=> u # t)
    BY <1>1, <1>3, CTypes
  <1>5. wrote' = wrote \ {h}
    OBVIOUS
  <1> HIDE DEF h
  <1>6. IInv' /\ LiveOK'
    BY QueueStill
  <1>7. WaitOK'
    BY <1>3, WaitStill DEF Idle
  <1>8. ItemsTyped'
    <2>1. fh' \in [Thread -> Handle \cup {0}]
      BY <1>1, CTypes
    <2>2. at' \in [Thread -> Places]
      BY <1>1, CTypes DEF Places
    <2>3. StoreRec(items') = StoreRec(items)
      BY <1>2
    <2>4. wrote' \subseteq Handle
      BY <1>5, CTypes
    <2>5. QED
      BY <1>2, <2>1, <2>2, <2>3, <2>4 DEF CInv, ItemsTyped
  <1>9. ThreadsOK'
    <2>1. /\ \A u \in Thread : fh'[u] = 0 => at'[u] = "idle"
          /\ \A u, v \in Thread : fh'[u] = fh'[v] /\ fh'[u] # 0 /\ at'[u] \in Exclusive => u = v
          /\ \A u, v \in Thread : fh'[u] = fh'[v] /\ at'[u] \in Removing /\ at'[v] \in Removing => u = v
      BY <1>3 DEF CInv, ThreadsOK, Exclusive, Removing
    <2>2. ASSUME NEW u \in Thread, at'[u] \in Removing PROVE modified'[fh'[u]]
      <3>1. u # t /\ at[u] \in Removing /\ fh'[u] = fh[u]
        BY <1>3, <2>2 DEF Removing
      <3>2. fh[u] # h /\ modified[fh[u]] /\ fh[u] \in Handle
        BY <1>4, <3>1, CTypes DEF CInv, ThreadsOK, Removing
      <3>3. QED
        BY <3>1, <3>2 DEF h
    <2>3. QED
      BY <2>1, <2>2 DEF ThreadsOK
  <1>10. OpenOK'
    <2>1. ASSUME NEW u \in Thread, fh'[u] # 0, at'[u] \notin Shut
          PROVE  fd'[fh'[u]]
      <3>1. u # t /\ fh'[u] = fh[u] /\ at'[u] = at[u] /\ fh[u] # h /\ fh[u] \in Handle
        BY <1>3, <1>4, <2>1, CTypes
      <3>2. fd[fh[u]]
        BY <2>1, <3>1 DEF CInv, OpenOK
      <3>3. QED
        BY <3>1, <3>2 DEF h
    <2>2. ASSUME NEW x \in Handle, grace'[x]
          PROVE  fd'[x] /\ ~dirty'[x] /\ \A u \in Thread : fh'[u] # x
      <3>1. CASE x = h
        BY <1>4, <2>2, <3>1 DEF h
      <3>2. CASE x # h
        <4>1. grace[x] /\ fd'[x] = fd[x] /\ dirty'[x] = dirty[x]
          BY <2>2, <3>2 DEF h
        <4>2. QED
          BY <1>3, <4>1, CTypes DEF CInv, OpenOK
      <3>3. QED
        BY <3>1, <3>2
    <2>3. QED
      BY <2>1, <2>2 DEF OpenOK
  <1>11. OffQueue'
    <2>1. ASSUME NEW x \in Handle, modified'[x], \A u \in Thread : fh'[u] = x => ~Busy(u)'
          PROVE  lookup[x] = 0
      <3>1. ASSUME NEW u \in Thread, fh[u] = x PROVE ~Busy(u)
        <4>1. CASE u = t
          BY <2>1, <3>1, <4>1 DEF Busy, Exclusive
        <4>2. CASE u # t
          BY <1>2, <1>3, <2>1, <3>1, <4>2 DEF Busy, Idle
        <4>3. QED
          BY <4>1, <4>2
      <3>2. modified[x]
        BY <2>1 DEF h
      <3>3. QED
        BY <2>1, <3>1, <3>2 DEF CInv, OffQueue
    <2>2. QED
      BY <1>2, <2>1 DEF OffQueue
  <1>12. \A x \in Handle : x = h => Due(x)' = saved'[x]
    BY <1>5 DEF Due
  <1>13. ASSUME NEW x \in Handle, x # h PROVE Due(x)' = Due(x)
    <2>1. Writing(x)' <=> Writing(x)
      BY <1>3, <1>4, <1>13, CTypes DEF Writing, h
    <2>2. QED
      BY <1>5, <1>13, <2>1 DEF Due, h
  <1>14. StoresOK'
    <2>1. ASSUME NEW s \in stores, NEW x \in Handle, items[s.item].id = x
          PROVE  cached[x] <= cached'[x] /\ cached'[x] \in Nat /\ Due(x)' <= Due(x) /\ Due(x)' \in Nat
      <3>1. CASE x = h
        <4>1. cached'[x] = cached[x] /\ saved'[x] <= Due(x) /\ saved'[x] \in Nat /\ cached[x] \in Nat
          BY <2>1, <3>1, CTypes DEF h
        <4>2. QED
          BY <1>12, <3>1, <4>1
      <3>2. CASE x # h
        BY <1>13, <3>2, CTypes, DueType DEF h
      <3>3. QED
        BY <3>1, <3>2
    <2>2. ASSUME NEW s \in stores, NEW x \in Handle, items[s.item].id = x, s.stage = "clean", dirty'[x]
          PROVE  \E u \in Thread : fh'[u] = x /\ at'[u] \in Removing
      <3>1. dirty[x]
        BY <2>2 DEF h
      <3>2. PICK u \in Thread : fh[u] = x /\ at[u] \in Removing
        BY <2>2, <3>1 DEF CInv, StoresOK, Carries
      <3>3. u # t
        BY <3>2 DEF Removing, Exclusive
      <3>4. QED
        BY <1>3, <3>2, <3>3
    <2>3. QED
      BY <1>2, <2>1, <2>2, StoresStill
  <1>15. Kept'
    <2>1. \A x \in Handle : saved'[x] <= cached'[x] /\ remote[x] <= cached'[x]
      BY DEF CInv, Kept, h
    <2>2. ASSUME NEW x \in Handle, remote[x] < Due(x)' PROVE dirty'[x]
      <3>1. CASE x = h
        <4>1. remote[x] < saved'[x]
          BY <1>12, <2>2, <3>1
        <4>2. QED
          BY <3>1, <4>1 DEF h
      <3>2. CASE x # h
        BY <1>13, <2>2, <3>2 DEF CInv, Kept, h
      <3>3. QED
        BY <3>1, <3>2
    <2>3. ASSUME NEW x \in Handle, dirty'[x], x \notin skipped', \A u \in Thread : fh'[u] = x => at'[u] = "queued"
          PROVE  lookup[x] # 0
      <3>1. dirty[x] /\ x \notin skipped
        BY <2>3 DEF h
      <3>2. \A u \in Thread : fh[u] = x => at[u] = "queued"
        BY <1>3, <1>4, <2>3 DEF h
      <3>3. QED
        BY <3>1, <3>2 DEF CInv, Kept
    <2>4. QED
      BY <1>2, <2>1, <2>2, <2>3 DEF Kept
  <1>16. QED
    BY <1>6, <1>7, <1>8, <1>9, <1>10, <1>11, <1>14, <1>15 DEF CInv

\* A thread that closes a file has no call into the queue under way.
LEMMA ClosingIdle ==
  ASSUME CInv, NEW t \in Thread, at[t] \notin {"unqueued", "discarding"}
  PROVE  calls[t].op = "none"
  BY DEF CInv, WaitOK, Waits

\* The only thread that has the file open.
LEMMA Alone ==
  ASSUME CInv, NEW t \in Thread, ~Locked(fh[t]), Opens(fh[t]) = {t}
  PROVE  \A u \in Thread : fh[u] = fh[t] => u = t
  BY DEF Locked, Opens

LEMMA CloseCleanStep ==
  ASSUME CInv, NEW t \in Thread, CloseClean(t)
  PROVE  CInv'
  <1> DEFINE h == fh[t]
  <1>1. /\ UNCHANGED <<vars, cached, remote, dirty, modified, fd, stores, skipped>>
        /\ at[t] = "idle" /\ h # 0 /\ ~Locked(h) /\ Opens(h) = {t} /\ ~dirty[h]
        /\ grace' = [grace EXCEPT ![h] = TRUE] /\ Save(h) /\ Leave(t)
    BY DEF CloseClean, GraceApplies
  <1>2. h \in Handle /\ fd[h]
    BY <1>1, CTypes DEF CInv, OpenOK, Shut
  <1>3. \A u \in Thread : fh[u] = h => u = t
    BY <1>1, Alone
  <1>4. calls[t].op = "none"
    BY <1>1, ClosingIdle
  <1>5. /\ modified' \in [Handle -> BOOLEAN] /\ fd' \in [Handle -> BOOLEAN] /\ grace' \in [Handle -> BOOLEAN]
        /\ \A x \in Handle : x # h => fd'[x] = fd[x] /\ modified'[x] = modified[x] /\ grace'[x] = grace[x]
        /\ dirty' \in [Handle -> BOOLEAN]
    BY <1>1, CTypes
  <1>6. cached' \in [Handle -> 0..MaxWrites]
    BY <1>1 DEF CInv, ItemsTyped
  <1>7. /\ wrote' = wrote \ {h} /\ saved' \in [Handle -> Nat] /\ Due(h) \in Nat
        /\ saved'[h] = Due(h) /\ \A x \in Handle : x # h => saved'[x] = saved[x]
        /\ saved'[h] <= cached[h] /\ remote[h] <= cached[h]
        /\ remote[h] < saved'[h] => dirty[h]
    BY <1>1, <1>2, <1>3, DueSaved, DueType
  <1>8. /\ UNCHANGED <<vars, remote, stores>> /\ Leave(t) /\ at[t] \in {"idle"} \cup Exclusive /\ at[t] # "queued"
        /\ UNCHANGED <<cached, dirty, modified, fd, skipped>> /\ ~dirty[h] /\ h # 0
    BY <1>1
  <1>9. QED
    BY <1>2, <1>3, <1>4, <1>5, <1>6, <1>7, <1>8, LastLeaves

\* The end of a Close that has closed the file.
LEMMA ClosedStep ==
  ASSUME CInv, NEW t \in Thread, at[t] \in Exclusive, calls[t].op = "none", Closed(t),
         UNCHANGED <<vars, cached, remote, dirty, grace, stores, skipped>>,
         fd' = fd \/ fd' = [fd EXCEPT ![fh[t]] = FALSE],
         dirty[fh[t]] => at[t] = "queued"
  PROVE  CInv'
  <1> DEFINE h == fh[t]
  <1>1. modified' = [modified EXCEPT ![h] = FALSE] /\ Save(h) /\ Leave(t)
    BY DEF Closed
  <1>2. h \in Handle /\ h # 0
    BY CTypes DEF CInv, ThreadsOK, Exclusive
  <1>3. \A u \in Thread : fh[u] = h => u = t
    BY <1>2 DEF CInv, ThreadsOK
  <1>4. ~grace[h]
    BY <1>2 DEF CInv, OpenOK
  <1>5. /\ modified' \in [Handle -> BOOLEAN] /\ fd' \in [Handle -> BOOLEAN] /\ grace' \in [Handle -> BOOLEAN]
        /\ dirty' \in [Handle -> BOOLEAN] /\ ~modified'[h]
        /\ \A x \in Handle : x # h => fd'[x] = fd[x] /\ modified'[x] = modified[x] /\ grace'[x] = grace[x]
    BY <1>1, <1>2, CTypes
  <1>6. cached' \in [Handle -> 0..MaxWrites]
    BY DEF CInv, ItemsTyped
  <1>7. /\ wrote' = wrote \ {h} /\ saved' \in [Handle -> Nat] /\ Due(h) \in Nat
        /\ saved'[h] = Due(h) /\ \A x \in Handle : x # h => saved'[x] = saved[x]
        /\ saved'[h] <= cached[h] /\ remote[h] <= cached[h]
        /\ remote[h] < saved'[h] => dirty[h]
    BY <1>1, <1>2, <1>3, DueSaved, DueType
  <1>8. Leave(t) /\ ~grace'[h]
    BY <1>1, <1>4
  <1>9. QED
    BY <1>2, <1>3, <1>5, <1>6, <1>7, <1>8, LastLeaves

\* A Close that cannot bring in missing parts leaves the file dirty and open.
LEMMA CloseFailsStep ==
  ASSUME CInv, NEW t \in Thread, CloseFails(t)
  PROVE  CInv'
  <1> DEFINE h == fh[t]
  <1>1. /\ UNCHANGED <<vars, cached, remote, dirty, modified, fd, grace, stores, saved>>
        /\ at[t] = "closing" /\ Partial(h) /\ Leave(t)
        /\ wrote' = wrote \ {h} /\ skipped' = skipped \cup {h}
    BY DEF CloseFails
  <1>2. at[t] \in Exclusive /\ h \in Handle /\ h # 0
    BY <1>1, CTypes DEF CInv, ThreadsOK, Exclusive
  <1>3. \A u \in Thread : fh[u] = h => u = t
    BY <1>2 DEF CInv, ThreadsOK
  <1>4. calls[t].op = "none" /\ ~grace[h]
    BY <1>1, <1>2, ClosingIdle DEF CInv, OpenOK
  <1>5. /\ cached' \in [Handle -> 0..MaxWrites] /\ saved' \in [Handle -> Nat]
        /\ dirty' \in [Handle -> BOOLEAN] /\ modified' \in [Handle -> BOOLEAN]
        /\ fd' \in [Handle -> BOOLEAN] /\ grace' \in [Handle -> BOOLEAN]
    BY <1>1 DEF CInv, ItemsTyped
  <1>6. saved[h] <= cached[h] /\ remote[h] <= cached[h] /\ ~(remote[h] < saved[h]) /\ saved[h] <= Due(h)
    BY <1>1, <1>2, CTypes, DueType DEF CInv, Kept, Partial
  <1>7. QED
    BY <1>1, <1>2, <1>3, <1>4, <1>5, <1>6, LastLeaves

\* An Open that failed has removed the cached file.
LEMMA DiscardedStep ==
  ASSUME CInv, Gone, NEW t \in Thread, Discarded(t)
  PROVE  CInv'
  <1> DEFINE h == fh[t]
  <1>1. /\ UNCHANGED <<vars, remote, modified, grace, stores>>
        /\ at[t] = "discarding" /\ calls[t].op = "none" /\ Leave(t) /\ wrote' = wrote \ {h}
        /\ cached' = [cached EXCEPT ![h] = remote[h]] /\ saved' = [saved EXCEPT ![h] = remote[h]]
        /\ dirty' = [dirty EXCEPT ![h] = FALSE] /\ fd' = [fd EXCEPT ![h] = FALSE]
        /\ skipped' = skipped \ {h}
    BY DEF Discarded, Idle
  <1>2. at[t] \in Exclusive /\ h \in Handle /\ h # 0
    BY <1>1, CTypes DEF CInv, ThreadsOK, Exclusive
  <1>3. \A u \in Thread : fh[u] = h => u = t
    BY <1>2 DEF CInv, ThreadsOK
  <1>4. ~grace[h]
    BY <1>2 DEF CInv, OpenOK
  <1>5. lookup[h] = 0
    BY <1>1 DEF Gone, Idle
  <1>6. \A s \in stores : items[s.item].id # h
    BY <1>5, StoreFacts
  <1>7. remote[h] \in 0..MaxWrites /\ remote[h] \in Nat
    BY <1>2, CacheAssumption DEF CInv, ItemsTyped, Kept
  <1>8. /\ cached' \in [Handle -> 0..MaxWrites] /\ cached'[h] = remote[h]
        /\ \A x \in Handle : x # h => cached'[x] = cached[x]
    BY <1>1, <1>2, <1>7 DEF CInv, ItemsTyped
  <1>9. /\ saved' \in [Handle -> Nat] /\ saved'[h] = remote[h]
        /\ \A x \in Handle : x # h => saved'[x] = saved[x]
    BY <1>1, <1>2, <1>7, CTypes
  <1>10. /\ dirty' \in [Handle -> BOOLEAN] /\ fd' \in [Handle -> BOOLEAN] /\ ~dirty'[h]
         /\ modified' \in [Handle -> BOOLEAN] /\ grace' \in [Handle -> BOOLEAN]
         /\ \A x \in Handle : x # h => dirty'[x] = dirty[x] /\ fd'[x] = fd[x]
    BY <1>1, <1>2, CTypes
  <1>11. /\ UNCHANGED <<vars, remote, modified, grace, stores>> /\ calls[t].op = "none" /\ Leave(t)
         /\ wrote' = wrote \ {h} /\ at[t] # "queued" /\ \A x \in Handle : x # h /\ x \in skipped => x \in skipped'
    BY <1>1
  <1>12. QED
    BY <1>2, <1>3, <1>4, <1>6, <1>7, <1>8, <1>9, <1>10, <1>11, LastLeaves

\* A thread that is the only one to have a file open goes on to close it.
LEMMA ClosingStep ==
  ASSUME CInv, NEW t \in Thread, fh[t] # 0, at[t] \in {"idle", "closing"},
         NEW place \in {"closing", "queueing"}, Go(t, place),
         \A u \in Thread : fh[u] = fh[t] => u = t,
         UNCHANGED <<vars, cached, remote, dirty, modified, grace, fh, stores, wrote, saved, skipped>>,
         \/ fd' = fd
         \/ place = "queueing" /\ fd' = [fd EXCEPT ![fh[t]] = FALSE]
  PROVE  CInv'
  <1> DEFINE h == fh[t]
  <1>1. h \in Handle /\ calls[t].op = "none"
    BY CTypes, ClosingIdle
  <1>2. UNCHANGED <<items, lookup, goros, closed, calls>>
    BY DEF vars
  <1>3. \A u \in Thread : at'[u] = IF u = t THEN place ELSE at[u]
    BY CTypes DEF Go
  <1>4. \A x \in Handle : x # h => fd'[x] = fd[x]
    BY CTypes
  <1> HIDE DEF h
  <1>5. IInv' /\ LiveOK'
    BY QueueStill
  <1>6. WaitOK'
    BY <1>1, <1>3, WaitStill DEF Idle
  <1>7. ItemsTyped'
    <2>1. at' \in [Thread -> Places] /\ fd' \in [Handle -> BOOLEAN]
      BY CTypes DEF Go, Places, Exclusive
    <2>2. StoreRec(items') = StoreRec(items)
      BY <1>2
    <2>3. QED
      BY <1>2, <2>1, <2>2 DEF CInv, ItemsTyped
  <1>8. ThreadsOK'
    <2>1. \A u \in Thread : at'[u] \in Removing => u # t /\ at[u] \in Removing
      BY <1>3 DEF Removing
    <2>2. \A u, v \in Thread : fh[u] = fh[v] /\ fh[u] # 0 /\ at'[u] \in Exclusive => u = v
      BY <1>3 DEF CInv, ThreadsOK
    <2>3. \A u \in Thread : fh[u] = 0 => at'[u] = "idle"
      BY <1>3 DEF CInv, ThreadsOK
    <2>4. QED
      BY <2>1, <2>2, <2>3 DEF CInv, ThreadsOK
  <1>9. OpenOK'
    <2>1. ~grace[h]
      BY <1>1 DEF CInv, OpenOK, h
    <2>2. ASSUME NEW u \in Thread, fh[u] # 0, at'[u] \notin Shut
          PROVE  fd'[fh[u]]
      <3>1. CASE u = t
        <4>1. fd' = fd
          BY <1>3, <2>2, <3>1 DEF Shut
        <4>2. QED
          BY <3>1, <4>1 DEF CInv, OpenOK, Shut
      <3>2. CASE u # t
        <4>1. fh[u] # h /\ fh[u] \in Handle /\ at'[u] = at[u]
          BY <1>3, <2>2, <3>2, CTypes DEF h
        <4>2. QED
          BY <1>4, <2>2, <4>1 DEF CInv, OpenOK
      <3>3. QED
        BY <3>1, <3>2
    <2>3. ASSUME NEW x \in Handle, grace[x] PROVE fd'[x] /\ ~dirty[x] /\ \A u \in Thread : fh[u] # x
      BY <1>4, <2>1, <2>3 DEF CInv, OpenOK
    <2>4. QED
      BY <2>2, <2>3 DEF OpenOK
  <1>10. OffQueue'
    <2>1. \A u \in Thread : Busy(u)' <=> Busy(u)
      BY <1>2, <1>3 DEF Busy, Idle
    <2>2. QED
      BY <1>2, <2>1 DEF CInv, OffQueue
  <1>11. \A x \in Handle : Due(x)' = Due(x)
    BY <1>3 DEF Due, Writing, Removing
  <1>12. StoresOK'
    <2>1. \A x \in Handle : cached[x] <= cached'[x] /\ cached'[x] \in Nat
      BY CTypes
    <2>2. \A s \in stores, x \in Handle : items[s.item].id = x /\ s.stage = "clean" /\ dirty'[x]
             => \E u \in Thread : fh'[u] = x /\ at'[u] \in Removing
      BY <1>3 DEF CInv, StoresOK, Carries, Removing
    <2>3. QED
      BY <1>2, <1>11, <2>1, <2>2, DueType, StoresStill
  <1>13. Kept'
    <2>1. \A x \in Handle : dirty[x] /\ x \notin skipped /\ (\A u \in Thread : fh[u] = x => at'[u] = "queued") => lookup[x] # 0
      BY <1>3 DEF CInv, Kept
    <2>2. QED
      BY <1>2, <1>11, <2>1 DEF CInv, Kept
  <1>14. QED
    BY <1>5, <1>6, <1>7, <1>8, <1>9, <1>10, <1>12, <1>13 DEF CInv

LEMMA CloseDirtyStep ==
  ASSUME CInv, NEW t \in Thread, CloseDirty(t)
  PROVE  CInv'
  <1>1. \A u \in Thread : fh[u] = fh[t] => u = t
    BY Alone DEF CloseDirty
  <1>2. QED
    BY <1>1, ClosingStep DEF CloseDirty

LEMMA CloseFdStep ==
  ASSUME CInv, NEW t \in Thread, CloseFd(t)
  PROVE  CInv'
  <1>1. /\ UNCHANGED <<vars, cached, remote, dirty, grace, stores, skipped>>
        /\ at[t] = "closing" /\ fd' = [fd EXCEPT ![fh[t]] = FALSE]
        /\ IF dirty[fh[t]] THEN Go(t, "queueing") /\ UNCHANGED <<modified, wrote, saved, fh>> ELSE Closed(t)
    BY DEF CloseFd
  <1>2. fh[t] # 0 /\ \A u \in Thread : fh[u] = fh[t] => u = t
    BY <1>1 DEF CInv, ThreadsOK, Exclusive
  <1>3. CASE dirty[fh[t]]
    BY <1>1, <1>2, <1>3, ClosingStep
  <1>4. CASE ~dirty[fh[t]]
    <2>1. at[t] \in Exclusive /\ calls[t].op = "none"
      BY <1>1, ClosingIdle DEF Exclusive
    <2>2. QED
      BY <1>1, <1>4, <2>1, ClosedStep
  <1>5. QED
    BY <1>3, <1>4

LEMMA CloseEndStep ==
  ASSUME CInv, NEW t \in Thread, CloseEnd(t)
  PROVE  CInv'
  BY ClosedStep DEF CloseEnd, Idle, Exclusive

LEMMA GraceEndsStep ==
  ASSUME CInv, NEW h \in Handle, GraceEnds(h)
  PROVE  CInv'
  <1>1. /\ UNCHANGED <<vars, cached, remote, dirty, fh, at, stores, wrote, saved, skipped>>
        /\ grace[h] /\ grace' = [grace EXCEPT ![h] = FALSE]
        /\ fd' = [fd EXCEPT ![h] = FALSE] /\ modified' = [modified EXCEPT ![h] = FALSE]
    BY DEF GraceEnds
  <1>2. UNCHANGED <<items, lookup, goros, closed, calls>>
    BY <1>1 DEF vars
  <1>3. \A u \in Thread : fh[u] # h
    BY <1>1 DEF CInv, OpenOK
  <1>4. IInv' /\ LiveOK'
    BY <1>1, QueueStill
  <1>5. WaitOK'
    BY <1>1, WaitStill
  <1>6. ItemsTyped'
    <2>1. modified' \in [Handle -> BOOLEAN] /\ fd' \in [Handle -> BOOLEAN] /\ grace' \in [Handle -> BOOLEAN]
      BY <1>1, CTypes
    <2>2. StoreRec(items') = StoreRec(items)
      BY <1>1, <1>2
    <2>3. QED
      BY <1>1, <1>2, <2>1, <2>2 DEF CInv, ItemsTyped
  <1>7. ThreadsOK'
    <2>1. \A u \in Thread : fh[u] \in Handle => modified'[fh[u]] = modified[fh[u]]
      BY <1>1, <1>3, CTypes
    <2>2. \A u \in Thread : at[u] \in Removing => fh[u] \in Handle
      BY CTypes DEF CInv, ThreadsOK, Removing
    <2>3. QED
      BY <1>1, <2>1, <2>2 DEF CInv, ThreadsOK
  <1>8. OpenOK'
    <2>1. \A u \in Thread : fh[u] # 0 => fd'[fh[u]] = fd[fh[u]]
      BY <1>1, <1>3, CTypes
    <2>2. \A x \in Handle : grace'[x] => grace[x] /\ fd'[x] = fd[x]
      BY <1>1, CTypes
    <2>3. QED
      BY <1>1, <2>1, <2>2 DEF CInv, OpenOK
  <1>9. OffQueue'
    <2>1. \A x \in Handle : modified'[x] => modified[x]
      BY <1>1, CTypes
    <2>2. QED
      BY <1>1, <1>2, <2>1 DEF CInv, OffQueue, Busy, Idle
  <1>10. \A x \in Handle : Due(x)' = Due(x)
    BY <1>1 DEF Due, Writing
  <1>11. StoresOK'
    <2>1. \A x \in Handle : cached[x] <= cached'[x] /\ cached'[x] \in Nat
      BY <1>1, CTypes
    <2>2. \A s \in stores, x \in Handle : items[s.item].id = x /\ s.stage = "clean" /\ dirty'[x]
             => \E u \in Thread : fh'[u] = x /\ at'[u] \in Removing
      BY <1>1 DEF CInv, StoresOK, Carries
    <2>3. QED
      BY <1>1, <1>2, <1>10, <2>1, <2>2, DueType, StoresStill
  <1>12. Kept'
    BY <1>1, <1>2, <1>10 DEF CInv, Kept
  <1>13. QED
    BY <1>4, <1>5, <1>6, <1>7, <1>8, <1>9, <1>11, <1>12 DEF CInv

-----------------------------------------------------------------------------
(* Steps of item.store *)

\* The item of an upload and its file.
LEMMA GoroFacts ==
  ASSUME CInv, NEW g \in goros
  PROVE  /\ g.item \in DOMAIN items /\ items[g.item] \in ItemRec /\ items[g.item].id \in Handle
         /\ items[g.item].uploading /\ ~items[g.item].onHeap /\ g.gen = items[g.item].gen
         /\ lookup[items[g.item].id] = g.item /\ <<g.item, g.gen>> \notin closed /\ g.gen \in Nat \ {0}
  <1>1. IInv
    BY DEF CInv
  <1>2. g.item \in DOMAIN items /\ g.gen \in Nat \ {0}
    BY <1>1 DEF IInv, GorosOK, GoroRec
  <1>3. items[g.item] \in ItemRec
    BY <1>1, <1>2, Facts
  <1>4. items[g.item].id \in Handle
    BY <1>3 DEF ItemRec
  <1>5. QED
    BY <1>2, <1>3, <1>4 DEF CInv, LiveOK, Live

\* A step of item.store that changes what it carries, the remote and the mark.
LEMMA StoreStep ==
  ASSUME CInv, NEW g \in goros, NEW h \in Handle, h = items[g.item].id,
         UNCHANGED <<vars, cached, modified, fd, grace, fh, at, wrote, saved, skipped>>,
         NEW s \in StoreRec(items), s.item = g.item, s.gen = g.gen,
         stores' \subseteq stores \cup {s},
         \A r \in stores' : r.item = g.item => r = s,
         Due(h) <= s.version, s.version <= cached[h],
         remote' = remote \/ remote' = [remote EXCEPT ![h] = s.version],
         dirty' = dirty \/ (dirty' = [dirty EXCEPT ![h] = FALSE] /\ s.stage = "clean"),
         s.stage # "read" => remote'[h] = s.version,
         s.stage = "clean" => ~dirty'[h]
  PROVE  CInv'
  <1>1. UNCHANGED <<items, lookup, goros, closed, calls>>
    BY DEF vars
  <1>2. s.version \in Nat
    BY DEF StoreRec
  <1>3. IInv' /\ LiveOK' /\ WaitOK'
    BY QueueStill, WaitStill
  <1>4. /\ remote' \in [Handle -> Nat] /\ \A x \in Handle : x # h => remote'[x] = remote[x]
        /\ remote'[h] \in {remote[h], s.version}
    BY <1>2, CTypes
  <1>5. /\ dirty' \in [Handle -> BOOLEAN] /\ \A x \in Handle : dirty'[x] => dirty[x]
        /\ \A x \in Handle : x # h => dirty'[x] = dirty[x]
    BY CTypes
  <1>6. ItemsTyped'
    <2>1. StoreRec(items') = StoreRec(items) /\ stores' \subseteq StoreRec(items)
      BY <1>1, CTypes
    <2>2. QED
      BY <1>1, <1>4, <1>5, <2>1 DEF CInv, ItemsTyped
  <1>7. ThreadsOK'
    BY DEF CInv, ThreadsOK
  <1>8. OpenOK'
    BY <1>5 DEF CInv, OpenOK
  <1>9. OffQueue'
    BY <1>1 DEF CInv, OffQueue, Busy, Idle
  <1>10. \A x \in Handle : Due(x)' = Due(x)
    BY DEF Due, Writing
  <1>11. StoresOK'
    <2>1. ASSUME NEW r \in stores' PROVE r = s \/ (r \in stores /\ r.item # g.item)
      BY <2>1
    <2>2. \A r \in stores' : \E f \in goros : f.item = r.item /\ f.gen = r.gen
      BY <2>1 DEF CInv, StoresOK
    <2>3. \A r, q \in stores' : r.item = q.item => r = q
      BY <2>1 DEF CInv, StoresOK
    <2>4. ASSUME NEW r \in stores', NEW x \in Handle, items[r.item].id = x
          PROVE  Carries(r, x)'
      <3>1. CASE r = s
        <4>1. x = h
          BY <2>4, <3>1
        <4>2. Due(x)' <= s.version /\ s.version <= cached'[x]
          BY <1>10, <4>1
        <4>3. QED
          BY <3>1, <4>1, <4>2 DEF Carries
      <3>2. CASE r # s
        <4>1. r \in stores /\ r.item # g.item
          BY <2>1, <3>2
        <4>2. lookup[x] = r.item /\ lookup[h] = g.item
          BY <2>4, <4>1, StoreFacts, GoroFacts
        <4>3. x # h /\ Carries(r, x)
          BY <2>4, <4>1, <4>2 DEF CInv, StoresOK
        <4>4. remote'[x] = remote[x] /\ dirty'[x] = dirty[x] /\ Due(x)' = Due(x)
          BY <1>4, <1>5, <1>10, <4>3
        <4>5. QED
          BY <4>3, <4>4 DEF Carries
      <3>3. QED
        BY <3>1, <3>2
    <2>5. QED
      BY <1>1, <2>2, <2>3, <2>4 DEF StoresOK
  <1>12. Kept'
    <2>1. \A x \in Handle : saved'[x] <= cached'[x] /\ remote'[x] <= cached'[x]
      BY <1>4 DEF CInv, Kept
    <2>2. ASSUME NEW x \in Handle, remote'[x] < Due(x) PROVE dirty'[x]
      <3>1. CASE x # h
        BY <1>4, <1>5, <2>2, <3>1 DEF CInv, Kept
      <3>2. CASE x = h
        <4>1. remote'[h] # s.version
          BY <1>2, <2>2, <3>2, DueType
        <4>2. remote' = remote /\ dirty' = dirty
          BY <4>1, CTypes
        <4>3. QED
          BY <2>2, <4>2 DEF CInv, Kept
      <3>3. QED
        BY <3>1, <3>2
    <2>3. \A x \in Handle : dirty'[x] /\ x \notin skipped /\ (\A u \in Thread : fh[u] = x => at[u] = "queued") => lookup[x] # 0
      BY <1>5 DEF CInv, Kept
    <2>4. QED
      BY <1>1, <1>10, <2>1, <2>2, <2>3 DEF Kept
  <1>13. QED
    BY <1>3, <1>6, <1>7, <1>8, <1>9, <1>11, <1>12 DEF CInv

\* What is known of an upload in item.store.
LEMMA StoreOfFacts ==
  ASSUME CInv, NEW g \in goros, NEW s \in StoreOf(g)
  PROVE  /\ s \in stores /\ s \in StoreRec(items) /\ s.item = g.item /\ s.gen = g.gen
         /\ Carries(s, items[g.item].id)
         /\ \A r \in stores : r.item = g.item => r = s
  <1>1. s \in stores /\ s.item = g.item /\ s.gen = g.gen
    BY DEF StoreOf
  <1>2. s \in StoreRec(items) /\ items[g.item].id \in Handle
    BY <1>1, StoreFacts, GoroFacts
  <1>3. QED
    BY <1>1, <1>2 DEF CInv, StoresOK

LEMMA CopyReadStep ==
  ASSUME CInv, NEW g \in goros, CopyRead(g)
  PROVE  CInv'
  <1> DEFINE h == items[g.item].id
             s == [item |-> g.item, gen |-> g.gen, version |-> cached[h], stage |-> "read"]
  <1>1. /\ UNCHANGED <<vars, cached, remote, dirty, modified, fd, grace, fh, at, wrote, saved, skipped>>
        /\ StoreOf(g) = {} /\ stores' = stores \cup {s}
    BY DEF CopyRead
  <1>2. h \in Handle /\ g.item \in DOMAIN items /\ g.gen \in Nat \ {0} /\ cached[h] \in Nat
    BY GoroFacts, CTypes
  <1>3. s \in StoreRec(items) /\ s.item = g.item /\ s.gen = g.gen /\ s.version = cached[h] /\ s.stage = "read"
    BY <1>2 DEF StoreRec
  <1> HIDE DEF s
  <1>4. ASSUME NEW r \in stores, r.item = g.item PROVE FALSE
    <2>a. r.gen = items[r.item].gen /\ g.gen = items[g.item].gen
      BY <1>4, StoreFacts, GoroFacts
    <2>1. r.gen = g.gen
      BY <1>4, <2>a
    <2>2. QED
      BY <1>1, <1>4, <2>1 DEF StoreOf
  <1>5. Due(h) <= s.version /\ s.version <= cached[h]
    BY <1>2, <1>3, DueType
  <1> HIDE DEF h
  <1>6. QED
    BY <1>1, <1>2, <1>3, <1>4, <1>5, StoreStep DEF h

LEMMA CopyDoneStep ==
  ASSUME CInv, NEW g \in goros, CopyDone(g)
  PROVE  CInv'
  <1> DEFINE h == items[g.item].id
  <1>1. PICK r \in StoreOf(g) :
        /\ UNCHANGED <<vars, cached, dirty, modified, fd, grace, fh, at, wrote, saved, skipped>>
        /\ r.stage = "read" /\ remote' = [remote EXCEPT ![h] = r.version]
        /\ stores' = (stores \ {r}) \cup {[r EXCEPT !.stage = "sent"]}
    BY DEF CopyDone
  <1> DEFINE s == [r EXCEPT !.stage = "sent"]
  <1>2. h \in Handle
    BY GoroFacts
  <1>3. /\ r \in StoreRec(items) /\ r.item = g.item /\ r.gen = g.gen /\ Carries(r, h)
        /\ \A q \in stores : q.item = g.item => q = r
    BY StoreOfFacts
  <1>4. s \in StoreRec(items) /\ s.item = g.item /\ s.gen = g.gen /\ s.version = r.version /\ s.stage = "sent"
    BY <1>3 DEF StoreRec
  <1>5. stores' = (stores \ {r}) \cup {s}
    BY <1>1
  <1> HIDE DEF s
  <1>6. Due(h) <= s.version /\ s.version <= cached[h] /\ remote'[h] = s.version
    BY <1>1, <1>2, <1>3, <1>4, CTypes DEF Carries
  <1> HIDE DEF h
  <1>7. QED
    BY <1>1, <1>2, <1>3, <1>4, <1>5, <1>6, StoreStep DEF h

LEMMA StoreCleanStep ==
  ASSUME CInv, NEW g \in goros, StoreClean(g)
  PROVE  CInv'
  <1> DEFINE h == items[g.item].id
  <1>1. PICK r \in StoreOf(g) :
        /\ UNCHANGED <<vars, cached, remote, modified, fd, grace, fh, at, wrote, saved, skipped>>
        /\ r.stage = "sent" /\ dirty' = [dirty EXCEPT ![h] = FALSE]
        /\ stores' = (stores \ {r}) \cup {[r EXCEPT !.stage = "clean"]}
    BY DEF StoreClean
  <1> DEFINE s == [r EXCEPT !.stage = "clean"]
  <1>2. h \in Handle
    BY GoroFacts
  <1>3. /\ r \in StoreRec(items) /\ r.item = g.item /\ r.gen = g.gen /\ Carries(r, h)
        /\ \A q \in stores : q.item = g.item => q = r
    BY StoreOfFacts
  <1>4. s \in StoreRec(items) /\ s.item = g.item /\ s.gen = g.gen /\ s.version = r.version /\ s.stage = "clean"
    BY <1>3 DEF StoreRec
  <1>5. stores' = (stores \ {r}) \cup {s}
    BY <1>1
  <1> HIDE DEF s
  <1>6. Due(h) <= s.version /\ s.version <= cached[h] /\ remote'[h] = s.version /\ ~dirty'[h]
    BY <1>1, <1>2, <1>3, <1>4, CTypes DEF Carries
  <1> HIDE DEF h
  <1>7. QED
    BY <1>1, <1>2, <1>3, <1>4, <1>5, <1>6, StoreStep, ZenonT(30) DEF h

-----------------------------------------------------------------------------
(* Steps of the queue *)

\* What is left to show of a step of the queue.
LEMMA QueueStep ==
  ASSUME CInv, IInv', LiveOK', WaitOK', OffQueue',
         UNCHANGED <<cached, remote, dirty, modified, fd, grace, fh, wrote, saved>>,
         at' \in [Thread -> Places],
         \A u \in Thread : \/ at'[u] = at[u]
                           \/ at[u] = "unqueue" /\ at'[u] = "unqueued"
                           \/ at[u] = "discard" /\ at'[u] = "discarding"
                           \/ at[u] = "queueing" /\ at'[u] = "queued",
         stores' \subseteq stores, DOMAIN items \subseteq DOMAIN items',
         \A s \in stores' : /\ items'[s.item].id = items[s.item].id
                            /\ \E g \in goros' : g.item = s.item /\ g.gen = s.gen,
         \A h \in Handle : dirty[h] /\ h \notin skipped' /\ (\A t \in Thread : fh[t] = h => at'[t] = "queued") => lookup'[h] # 0
  PROVE  CInv'
  <1>1. ItemsTyped'
    <2>1. StoreRec(items) \subseteq StoreRec(items')
      BY DEF StoreRec
    <2>2. stores' \subseteq StoreRec(items')
      BY <2>1, CTypes
    <2>3. QED
      BY <2>1, <2>2 DEF CInv, ItemsTyped
  <1>2. ThreadsOK'
    <2>1. \A u \in Thread : (at'[u] \in Removing => at[u] \in Removing) /\ (at'[u] \in Exclusive => at[u] \in Exclusive)
      BY DEF Removing, Exclusive
    <2>2. \A u \in Thread : at[u] = "idle" => at'[u] = "idle"
      OBVIOUS
    <2>3. QED
      BY <2>1, <2>2 DEF CInv, ThreadsOK
  <1>3. OpenOK'
    <2>1. \A u \in Thread : at'[u] \notin Shut => at[u] \notin Shut
      BY DEF Shut
    <2>2. QED
      BY <2>1 DEF CInv, OpenOK
  <1>4. \A x \in Handle : Due(x)' = Due(x)
    <2>1. \A u \in Thread : at'[u] \in {"wrote"} \cup Removing <=> at[u] \in {"wrote"} \cup Removing
      BY DEF Removing
    <2>2. \A x \in Handle : Writing(x)' <=> Writing(x)
      BY <2>1 DEF Writing
    <2>3. QED
      BY <2>2 DEF Due
  <1>5. StoresOK'
    <2>1. \A s, r \in stores' : s.item = r.item => s = r
      BY DEF CInv, StoresOK
    <2>2. ASSUME NEW s \in stores', NEW x \in Handle, items'[s.item].id = x
          PROVE  Carries(s, x)'
      <3>1. Carries(s, x)
        BY <2>2 DEF CInv, StoresOK
      <3>2. \A u \in Thread : at[u] \in Removing => at'[u] \in Removing
        BY DEF Removing
      <3>3. QED
        BY <1>4, <3>1, <3>2 DEF Carries
    <2>3. QED
      BY <2>1, <2>2 DEF StoresOK
  <1>6. Kept'
    BY <1>4 DEF CInv, Kept
  <1>7. QED
    BY <1>1, <1>2, <1>3, <1>5, <1>6 DEF CInv

\* The same where no thread of the items takes a step.
LEMMA QueueAlone ==
  ASSUME CInv, IInv', LiveOK', WaitOK',
         UNCHANGED <<cached, remote, dirty, modified, fd, grace, fh, at, wrote, saved>>, skipped \subseteq skipped',
         stores' \subseteq stores, DOMAIN items \subseteq DOMAIN items',
         \A s \in stores' : /\ items'[s.item].id = items[s.item].id
                            /\ \E g \in goros' : g.item = s.item /\ g.gen = s.gen,
         \A h \in Handle : \/ lookup'[h] = lookup[h]
                           \/ /\ lookup'[h] = 0
                              /\ dirty[h] /\ h \notin skipped' => \E t \in Thread : fh[t] = h /\ at[t] # "queued",
         \A t \in Thread : calls[t].op # "none" /\ calls'[t].op = "none" => lookup'[fh[t]] = 0
  PROVE  CInv'
  <1>1. OffQueue'
    <2>1. ASSUME NEW h \in Handle, modified[h], \A t \in Thread : fh[t] = h => ~Busy(t)'
          PROVE  lookup'[h] = 0
      <3>1. CASE \A t \in Thread : fh[t] = h => ~Busy(t)
        BY <2>1, <3>1 DEF CInv, OffQueue
      <3>2. CASE \E t \in Thread : fh[t] = h /\ Busy(t)
        <4>1. PICK t \in Thread : fh[t] = h /\ Busy(t)
          BY <3>2
        <4>2. calls[t].op # "none" /\ calls'[t].op = "none"
          BY <2>1, <4>1 DEF Busy, Idle
        <4>3. QED
          BY <4>1, <4>2
      <3>3. QED
        BY <3>1, <3>2
    <2>2. QED
      BY <2>1 DEF OffQueue
  <1>2. at' \in [Thread -> Places]
    BY CTypes
  <1>3. ASSUME NEW h \in Handle, dirty[h], h \notin skipped', \A t \in Thread : fh[t] = h => at[t] = "queued"
        PROVE  lookup'[h] # 0
    <2>1. lookup[h] # 0
      BY <1>3 DEF CInv, Kept
    <2>2. QED
      BY <1>3, <2>1
  <1>4. QED
    BY <1>1, <1>2, <1>3, QueueStep

\* Facts about the queue every step starts from.
LEMMA QueueFacts ==
  ASSUME CInv
  PROVE  /\ IInv /\ items \in Seq(ItemRec) /\ \A k \in DOMAIN items : items[k] \in ItemRec /\ items[k].id \in Handle
         /\ \A k \in DOMAIN items : items[k].gen \in Nat /\ items[k].expiry \in Nat
         /\ lookup \in [Handle -> {0} \cup DOMAIN items] /\ 0 \notin DOMAIN items
         /\ \A h \in Handle : lookup[h] # 0 => lookup[h] \in DOMAIN items /\ items[lookup[h]].id = h
         /\ calls \in [Thread -> CallRec(DOMAIN items)]
         /\ closed \subseteq (DOMAIN items) \X (Nat \ {0})
         /\ \A t \in Thread : calls[t].op # "none" => calls[t] \in WaitRec(DOMAIN items) /\ calls[t].victim \in DOMAIN items
         /\ \A g \in goros : g \in GoroRec(items)
  <1>1. IInv
    BY DEF CInv
  <1>2. /\ items \in Seq(ItemRec) /\ \A k \in DOMAIN items : items[k] \in ItemRec
        /\ lookup \in [Handle -> {0} \cup DOMAIN items] /\ 0 \notin DOMAIN items
        /\ calls \in [Thread -> CallRec(DOMAIN items)]
    BY <1>1, Facts
  <1>3. \A k \in DOMAIN items : items[k].id \in Handle /\ items[k].gen \in Nat /\ items[k].expiry \in Nat
    BY <1>2 DEF ItemRec
  <1>4. \A h \in Handle : lookup[h] # 0 => lookup[h] \in DOMAIN items /\ items[lookup[h]].id = h
    BY <1>1, <1>2 DEF IInv, Found
  <1>5. closed \subseteq (DOMAIN items) \X (Nat \ {0}) /\ \A g \in goros : g \in GoroRec(items)
    BY <1>1 DEF IInv, TypeOK, GorosOK
  <1>6. ASSUME NEW t \in Thread, calls[t].op # "none"
        PROVE  calls[t] \in WaitRec(DOMAIN items) /\ calls[t].victim \in DOMAIN items
    <2>1. calls[t].op = "remove"
      BY <1>6 DEF CInv, WaitOK, Waits
    <2>2. calls[t] \in CallRec(DOMAIN items)
      BY <1>2
    <2>3. QED
      BY <2>1, <2>2, CallFacts
  <1>7. QED
    BY <1>1, <1>2, <1>3, <1>4, <1>5, <1>6

\* An item is changed where it is in the queue.
LEMMA EditOne ==
  ASSUME CInv, NEW k \in DOMAIN items, NEW r \in ItemRec, r.id = items[k].id, r.gen = items[k].gen,
         items' = [items EXCEPT ![k] = r]
  PROVE  /\ DOMAIN items' = DOMAIN items /\ items'[k] = r
         /\ \A j \in DOMAIN items : j # k => items'[j] = items[j]
         /\ \A j \in DOMAIN items : items'[j].id = items[j].id /\ items'[j].gen = items[j].gen
  <1>1. items \in Seq(ItemRec)
    BY QueueFacts
  <1>2. SameItems(items, items') /\ items'[k] = r /\ \A j \in DOMAIN items : j # k => items'[j] = items[j]
    BY <1>1, Edit
  <1>3. QED
    BY <1>2 DEF SameItems

\* Nobody else waits to take the same file off the queue.
LEMMA OneRemover ==
  ASSUME CInv, NEW t \in Thread, at[t] \in Removing \cup Discarding, NEW u \in Thread, u # t, calls[u].op # "none"
  PROVE  /\ fh[u] # fh[t] /\ fh[u] \in Handle /\ calls[u].victim \in DOMAIN items
         /\ items[calls[u].victim].id = fh[u] /\ items[calls[u].victim].id # fh[t]
  <1>1. Waits(u)
    BY DEF CInv, WaitOK
  <1>2. at[u] \in Removing \cup Discarding /\ items[calls[u].victim].id = fh[u]
    BY <1>1 DEF Waits, Removing, Discarding
  <1>3. fh[u] \in Handle /\ fh[u] # 0
    BY <1>2, CTypes DEF CInv, ThreadsOK, Removing, Discarding
  <1>4. fh[u] # fh[t]
    <2>1. CASE at[t] \in Removing /\ at[u] \in Removing
      BY <2>1 DEF CInv, ThreadsOK
    <2>2. CASE at[t] \in Discarding \/ at[u] \in Discarding
      <3>1. at[t] \in Exclusive \/ at[u] \in Exclusive
        BY <2>2 DEF Discarding, Exclusive
      <3>2. QED
        BY <1>3, <3>1 DEF CInv, ThreadsOK
    <2>3. QED
      BY <1>2, <2>1, <2>2
  <1>5. QED
    BY <1>2, <1>3, <1>4, QueueFacts

\* The item of a file is dropped from the queue, and nothing uploads it.
LEMMA Dropped ==
  ASSUME CInv, NEW k \in DOMAIN items, ~items[k].uploading,
         lookup[items[k].id] \in {0, k},
         DOMAIN items' = DOMAIN items, items'[k].id = items[k].id, items'[k].gen = items[k].gen,
         ~items'[k].uploading, ~items'[k].onHeap,
         \A j \in DOMAIN items : j # k => items'[j] = items[j],
         lookup' = Forget(k), UNCHANGED <<goros, closed, panicked>>
  PROVE  LiveOK'
  <1>1. \A h \in Handle : lookup'[h] = IF h = items[k].id THEN 0 ELSE lookup[h]
    BY QueueFacts DEF Forget
  <1>2. ASSUME NEW j \in DOMAIN items PROVE Live(j)'
    <2>1. CASE j = k
      BY <2>1 DEF Live
    <2>2. CASE j # k
      <3>1. items'[j] = items[j] /\ Live(j)
        BY <2>2 DEF CInv, LiveOK
      <3>2. items[j].onHeap \/ items[j].uploading => lookup'[items[j].id] = j
        BY <1>1, <2>2, <3>1, QueueFacts DEF Live
      <3>3. QED
        BY <3>1, <3>2 DEF Live
    <2>3. QED
      BY <2>1, <2>2
  <1>3. \A c \in closed : c[2] <= items'[c[1]].gen
    <2>1. \A c \in closed : c[1] \in DOMAIN items /\ c[2] <= items[c[1]].gen
      BY QueueFacts DEF CInv, LiveOK
    <2>2. \A j \in DOMAIN items : items'[j].gen = items[j].gen
      OBVIOUS
    <2>3. QED
      BY <2>1, <2>2
  <1>4. ASSUME NEW g \in goros PROVE items'[g.item].uploading /\ g.gen = items'[g.item].gen
    <2>1. g.item # k /\ g.item \in DOMAIN items
      BY GoroFacts
    <2>2. QED
      BY <2>1, GoroFacts
  <1>5. QED
    BY <1>2, <1>3, <1>4 DEF CInv, LiveOK

\* What a waiting call of another file relies on is left alone.
LEMMA WaitsOn ==
  ASSUME CInv, NEW u \in Thread, calls[u].op # "none", calls'[u] = calls[u],
         fh'[u] = fh[u], at'[u] = at[u], items'[calls[u].victim] = items[calls[u].victim],
         lookup'[fh[u]] \in {0, lookup[fh[u]]}, closed \subseteq closed'
  PROVE  Waits(u)'
  <1>1. Waits(u)
    BY DEF CInv, WaitOK
  <1>2. QED
    BY <1>1 DEF Waits

\* A thread goes from the one place to the other when it calls Remove.
Takes(t, place) ==
  \/ at[t] = "unqueue" /\ place = "unqueued"
  \/ at[t] = "discard" /\ place = "discarding"

LEMMA RemoveNow ==
  ASSUME CInv, NEW t \in Thread, NEW place, Takes(t, place), IInv', Go(t, place),
         ~(lookup[fh[t]] # 0 /\ items[lookup[fh[t]]].uploading),
         items' = (IF lookup[fh[t]] = 0 THEN items ELSE Drop(items, lookup[fh[t]])),
         lookup' = (IF lookup[fh[t]] = 0 THEN lookup ELSE Forget(lookup[fh[t]])),
         UNCHANGED <<goros, closed, calls, panicked>>,
         UNCHANGED <<cached, remote, dirty, modified, fd, grace, fh, stores, wrote, saved, skipped>>
  PROVE  CInv'
  <1> DEFINE h == fh[t]
             k == lookup[h]
  <1>1. h \in Handle /\ calls[t].op = "none"
    BY CTypes, ClosingIdle DEF CInv, ThreadsOK, Takes
  <1>2. \A u \in Thread : at'[u] = IF u = t THEN place ELSE at[u]
    BY CTypes DEF Go
  <1>3. at' \in [Thread -> Places]
    BY CTypes DEF Go, Places, Removing, Takes, Exclusive
  <1>4. /\ DOMAIN items' = DOMAIN items /\ LiveOK'
        /\ \A j \in DOMAIN items : items'[j].id = items[j].id /\ (items[j].id # h => items'[j] = items[j])
        /\ \A x \in Handle : lookup'[x] = IF x = h THEN 0 ELSE lookup[x]
    <2>1. CASE k = 0
      BY <2>1, QueueFacts DEF CInv, LiveOK, Live
    <2>2. CASE k # 0
      <3>1. k \in DOMAIN items /\ items[k] \in ItemRec /\ items[k].id = h /\ ~items[k].uploading
        BY <1>1, <2>2, QueueFacts
      <3> DEFINE r == [items[k] EXCEPT !.onHeap = FALSE]
      <3>2. r \in ItemRec /\ r.id = items[k].id /\ r.gen = items[k].gen /\ ~r.onHeap /\ ~r.uploading
        BY <3>1 DEF ItemRec
      <3>3. items' = [items EXCEPT ![k] = r] /\ lookup' = Forget(k)
        BY <2>2 DEF Drop
      <3> HIDE DEF r
      <3>4. /\ DOMAIN items' = DOMAIN items /\ items'[k] = r
            /\ \A j \in DOMAIN items : j # k => items'[j] = items[j]
            /\ \A j \in DOMAIN items : items'[j].id = items[j].id /\ items'[j].gen = items[j].gen
        BY <3>1, <3>2, <3>3, EditOne
      <3>5. \A x \in Handle : lookup'[x] = IF x = h THEN 0 ELSE lookup[x]
        BY <3>1, <3>3, QueueFacts DEF Forget
      <3>6. LiveOK'
        <4>1. ~items'[k].uploading /\ ~items'[k].onHeap /\ lookup[items[k].id] \in {0, k}
          BY <3>1, <3>2, <3>4
        <4> HIDE DEF k
        <4>2. QED
          BY <3>1, <3>3, <3>4, <4>1, Dropped
      <3>7. QED
        BY <3>1, <3>4, <3>5, <3>6
    <2>3. QED
      BY <2>1, <2>2
  <1> HIDE DEF h, k
  <1>5. WaitOK'
    <2>1. ASSUME NEW u \in Thread, calls[u].op # "none" PROVE Waits(u)'
      <3>1. u # t
        BY <1>1, <2>1
      <3>2. /\ fh[u] # h /\ fh[u] \in Handle /\ calls[u].victim \in DOMAIN items
            /\ items[calls[u].victim].id # h
        BY <2>1, <3>1, OneRemover DEF Removing, Discarding, Takes, h
      <3>3. QED
        BY <1>2, <1>4, <2>1, <3>1, <3>2, WaitsOn
    <2>2. QED
      BY <2>1 DEF WaitOK
  <1>6. OffQueue'
    <2>1. ASSUME NEW x \in Handle, modified[x], \A u \in Thread : fh[u] = x => ~Busy(u)'
          PROVE  lookup'[x] = 0
      <3>1. CASE x = h
        BY <1>4, <3>1
      <3>2. CASE x # h
        <4>1. \A u \in Thread : fh[u] = x => ~Busy(u)
          BY <1>2, <2>1, <3>2 DEF Busy, Idle, h
        <4>2. QED
          BY <1>4, <2>1, <3>2, <4>1 DEF CInv, OffQueue
      <3>3. QED
        BY <3>1, <3>2
    <2>2. QED
      BY <2>1 DEF OffQueue
  <1>7. ASSUME NEW x \in Handle, dirty[x], x \notin skipped, \A u \in Thread : fh[u] = x => at'[u] = "queued"
        PROVE  lookup'[x] # 0
    <2>1. x # h
      BY <1>2, <1>7 DEF h, Takes
    <2>2. \A u \in Thread : fh[u] = x => at[u] = "queued"
      BY <1>2, <1>7, <2>1 DEF h
    <2>3. QED
      BY <1>4, <1>7, <2>1, <2>2 DEF CInv, Kept
  <1>8. \A s \in stores' : /\ items'[s.item].id = items[s.item].id
                           /\ \E g \in goros' : g.item = s.item /\ g.gen = s.gen
    BY <1>4, StoreFacts DEF CInv, StoresOK
  <1>9. QED
    BY <1>2, <1>3, <1>4, <1>5, <1>6, <1>7, <1>8, QueueStep DEF Takes

\* Remove finds the file in an upload, which it cancels.
LEMMA RemoveWaits ==
  ASSUME CInv, NEW t \in Thread, NEW place, Takes(t, place), IInv', Go(t, place),
         place = "unqueued" \/ ~modified[fh[t]],
         lookup[fh[t]] # 0, items[lookup[fh[t]]].uploading,
         Cancel(t, [op |-> "remove", victim |-> lookup[fh[t]], done |-> 0]),
         UNCHANGED <<cached, remote, dirty, modified, fd, grace, fh, stores, wrote, saved, skipped>>
  PROVE  CInv'
  <1> DEFINE h == fh[t]
             k == lookup[h]
             c == [op |-> "remove", victim |-> k, done |-> 0]
  <1>1. h \in Handle /\ k \in DOMAIN items /\ items[k].id = h /\ items[k].gen \in Nat
    BY CTypes, QueueFacts DEF CInv, ThreadsOK, Takes
  <1>2. \A u \in Thread : at'[u] = IF u = t THEN place ELSE at[u]
    BY CTypes DEF Go
  <1>3. at' \in [Thread -> Places]
    BY CTypes DEF Go, Places, Removing, Takes, Exclusive
  <1>4. UNCHANGED <<items, lookup, closed, panicked>> /\ \A u \in Thread : calls'[u] = IF u = t THEN c ELSE calls[u]
    BY QueueFacts DEF Cancel
  <1>5. c.op = "remove" /\ c.victim = k /\ c.done = 0
    OBVIOUS
  <1>6. /\ \A g \in goros' : \E f \in goros : f.item = g.item /\ f.gen = g.gen
        /\ \A f \in goros : \E g \in goros' : f.item = g.item /\ f.gen = g.gen
    <2>1. \A f \in goros : f \in [item : DOMAIN items, gen : Nat \ {0}, cancelled : BOOLEAN]
      BY QueueFacts DEF GoroRec
    <2> DEFINE m(f) == IF f.item = c.victim /\ f.gen = items[c.victim].gen THEN [f EXCEPT !.cancelled = TRUE] ELSE f
    <2>2. \A f \in goros : m(f).item = f.item /\ m(f).gen = f.gen
      BY <2>1
    <2>3. goros' = {m(f) : f \in goros}
      BY DEF Cancel
    <2> HIDE DEF m
    <2>4. QED
      BY <2>2, <2>3
  <1>7. items[k].uploading /\ ~items[k].onHeap /\ items[k].gen > 0
    BY <1>1 DEF CInv, LiveOK, Live
  <1>8. lookup[h] = k
    OBVIOUS
  <1> HIDE DEF h, k, c
  <1>9. LiveOK'
    <2>1. \A j \in DOMAIN items : Live(j)'
      BY <1>4 DEF CInv, LiveOK, Live
    <2>2. \A g \in goros' : items[g.item].uploading /\ g.gen = items[g.item].gen
      BY <1>6 DEF CInv, LiveOK
    <2>3. QED
      BY <1>4, <2>1, <2>2 DEF CInv, LiveOK
  <1>10. WaitOK'
    <2>1. Waits(t)'
      BY <1>1, <1>2, <1>4, <1>5, <1>7, <1>8 DEF Waits, h, Takes
    <2>2. ASSUME NEW u \in Thread, u # t, calls[u].op # "none" PROVE Waits(u)'
      BY <1>2, <1>4, <2>2, WaitsOn
    <2>3. QED
      BY <1>4, <2>1, <2>2 DEF WaitOK
  <1>11. OffQueue'
    <2>1. ASSUME NEW x \in Handle, modified[x], \A u \in Thread : fh[u] = x => ~Busy(u)'
          PROVE  lookup[x] = 0
      <3>1. place = "unqueued" => Busy(t)'
        BY <1>2, <1>4, <1>5 DEF Busy, Idle
      <3>2. x # h
        BY <2>1, <3>1 DEF h
      <3>3. \A u \in Thread : fh[u] = x => ~Busy(u)
        BY <1>2, <1>4, <2>1, <3>2 DEF Busy, Idle, h
      <3>4. QED
        BY <2>1, <3>3 DEF CInv, OffQueue
    <2>2. QED
      BY <1>4, <2>1 DEF OffQueue
  <1>12. ASSUME NEW x \in Handle, dirty[x], x \notin skipped, \A u \in Thread : fh[u] = x => at'[u] = "queued"
         PROVE  lookup'[x] # 0
    <2>1. \A u \in Thread : fh[u] = x => at[u] = "queued"
      BY <1>2, <1>12 DEF Takes
    <2>2. QED
      BY <1>4, <1>12, <2>1 DEF CInv, Kept
  <1>13. \A s \in stores' : /\ items'[s.item].id = items[s.item].id
                            /\ \E g \in goros' : g.item = s.item /\ g.gen = s.gen
    BY <1>4, <1>6 DEF CInv, StoresOK
  <1>14. QED
    BY <1>2, <1>3, <1>4, <1>9, <1>10, <1>11, <1>12, <1>13, QueueStep DEF Takes

\* Both callers of Remove: the first change of a file, and an Open that failed.
LEMMA TakenOff ==
  ASSUME CInv, NEW t \in Thread, NEW place, Takes(t, place), Remove(t, fh[t]), Go(t, place),
         place = "unqueued" \/ (modified[fh[t]] => lookup[fh[t]] = 0),
         UNCHANGED <<cached, remote, dirty, modified, fd, grace, fh, stores, wrote, saved, skipped>>
  PROVE  CInv'
  <1>1. fh[t] \in Handle /\ IInv
    BY CTypes, QueueFacts DEF CInv, ThreadsOK, Takes
  <1>2. IInv'
    BY <1>1, RemoveStep
  <1>3. CASE /\ lookup[fh[t]] # 0 /\ items[lookup[fh[t]]].uploading
             /\ Cancel(t, [op |-> "remove", victim |-> lookup[fh[t]], done |-> 0])
    BY <1>2, <1>3, RemoveWaits
  <1>4. CASE /\ ~(lookup[fh[t]] # 0 /\ items[lookup[fh[t]]].uploading)
             /\ items' = (IF lookup[fh[t]] = 0 THEN items ELSE Drop(items, lookup[fh[t]]))
             /\ lookup' = (IF lookup[fh[t]] = 0 THEN lookup ELSE Forget(lookup[fh[t]]))
             /\ UNCHANGED <<goros, closed, calls, panicked>>
    BY <1>2, <1>4, RemoveNow
  <1>5. QED
    BY <1>3, <1>4 DEF Remove

LEMMA UnqueueStep ==
  ASSUME CInv, NEW t \in Thread, Unqueue(t)
  PROVE  CInv'
  BY TakenOff DEF Unqueue, Takes

LEMMA DiscardStep ==
  ASSUME CInv, NEW t \in Thread, Discard(t)
  PROVE  CInv'
  <1>1. at[t] = "discard" /\ fh[t] \in Handle /\ fh[t] # 0
    BY CTypes DEF Discard, CInv, ThreadsOK
  <1>2. \A u \in Thread : fh[u] = fh[t] => ~Busy(u)
    BY <1>1 DEF CInv, ThreadsOK, Exclusive, Busy
  <1>3. modified[fh[t]] => lookup[fh[t]] = 0
    BY <1>1, <1>2 DEF CInv, OffQueue
  <1>4. QED
    BY <1>1, <1>3, TakenOff DEF Discard, Takes

\* A call of Add that puts the file into the queue, or finds it there.
LEMMA AddQueues ==
  ASSUME CInv, NEW t \in Thread, at[t] = "queueing", IInv', Go(t, "queued"),
         UNCHANGED <<cached, remote, dirty, modified, fd, grace, fh, stores, wrote, saved>>,
         UNCHANGED <<goros, closed, panicked>>, calls' = calls, LiveOK', skipped' = skipped \ {fh[t]},
         DOMAIN items \subseteq DOMAIN items', lookup'[fh[t]] # 0,
         \A x \in Handle : x # fh[t] => lookup'[x] = lookup[x],
         \A j \in DOMAIN items : items'[j].id = items[j].id /\ (items[j].id # fh[t] => items'[j] = items[j])
  PROVE  CInv'
  <1> DEFINE h == fh[t]
  <1>1. h \in Handle /\ calls[t].op = "none"
    BY CTypes, ClosingIdle DEF CInv, ThreadsOK
  <1>2. \A u \in Thread : at'[u] = IF u = t THEN "queued" ELSE at[u]
    BY CTypes DEF Go
  <1>3. at' \in [Thread -> Places]
    BY CTypes DEF Go, Places, Exclusive
  <1>4. \A u \in Thread : fh[u] = h => u = t
    BY <1>1, CTypes DEF CInv, ThreadsOK, Exclusive
  <1> HIDE DEF h
  <1>5. WaitOK'
    <2>1. ASSUME NEW u \in Thread, calls[u].op # "none" PROVE Waits(u)'
      <3>1. u # t /\ Waits(u)
        BY <1>1, <2>1 DEF CInv, WaitOK
      <3>2. at[u] # "idle" /\ items[calls[u].victim].id = fh[u] /\ fh[u] # h
        BY <1>4, <3>1 DEF Waits
      <3>3. fh[u] \in Handle /\ calls[u].victim \in DOMAIN items
        BY <2>1, <3>2, CTypes, QueueFacts DEF CInv, ThreadsOK
      <3>4. items'[calls[u].victim] = items[calls[u].victim] /\ lookup'[fh[u]] = lookup[fh[u]]
        BY <3>2, <3>3 DEF h
      <3>5. QED
        BY <1>2, <2>1, <3>1, <3>4, WaitsOn
    <2>2. QED
      BY <2>1 DEF WaitOK
  <1>6. OffQueue'
    <2>1. ASSUME NEW x \in Handle, modified[x], \A u \in Thread : fh[u] = x => ~Busy(u)'
          PROVE  lookup'[x] = 0
      <3>1. x # h
        BY <1>2, <2>1 DEF h, Busy
      <3>2. \A u \in Thread : fh[u] = x => ~Busy(u)
        BY <1>2, <2>1, <3>1 DEF Busy, Idle, h
      <3>3. QED
        BY <2>1, <3>1, <3>2 DEF CInv, OffQueue, h
    <2>2. QED
      BY <2>1 DEF OffQueue
  <1>7. ASSUME NEW x \in Handle, dirty[x], x \notin skipped', \A u \in Thread : fh[u] = x => at'[u] = "queued"
        PROVE  lookup'[x] # 0
    <2>1. CASE x = h
      BY <2>1 DEF h
    <2>2. CASE x # h
      <3>1. \A u \in Thread : fh[u] = x => at[u] = "queued"
        BY <1>2, <1>7, <2>2 DEF h
      <3>2. QED
        BY <1>7, <2>2, <3>1 DEF CInv, Kept, h
    <2>3. QED
      BY <2>1, <2>2
  <1>8. \A s \in stores' : /\ items'[s.item].id = items[s.item].id
                           /\ \E g \in goros' : g.item = s.item /\ g.gen = s.gen
    BY StoreFacts DEF CInv, StoresOK
  <1>9. QED
    BY <1>2, <1>3, <1>5, <1>6, <1>7, <1>8, QueueStep

LEMMA CloseAddStep ==
  ASSUME CInv, NEW t \in Thread, NEW name \in Name, CloseAdd(t, name)
  PROVE  CInv'
  <1> DEFINE h == fh[t]
             k == lookup[h]
  <1>1. /\ at[t] = "queueing" /\ Add(t, h, name, modified[h]) /\ Go(t, "queued")
        /\ UNCHANGED <<cached, remote, dirty, modified, fd, grace, fh, stores, wrote, saved>>
        /\ skipped' = skipped \ {h}
    BY DEF CloseAdd
  <1>2. h \in Handle /\ modified[h] \in BOOLEAN /\ IInv /\ calls[t].op = "none"
    BY <1>1, CTypes, QueueFacts, ClosingIdle DEF CInv, ThreadsOK
  <1>3. IInv'
    BY <1>1, <1>2, AddStep
  <1>4. modified[h] => k = 0
    <2>1. \A u \in Thread : fh[u] = h => u = t
      BY <1>1, <1>2, CTypes DEF CInv, ThreadsOK, Exclusive
    <2>2. ~Busy(t)
      BY <1>1 DEF Busy
    <2>3. QED
      BY <1>2, <2>1, <2>2 DEF CInv, OffQueue
  <1>5. CASE k = 0
    <2>1. /\ items' = Append(items, NewItem(h, name)) /\ lookup' = [lookup EXCEPT ![h] = Len(items) + 1]
          /\ UNCHANGED <<goros, closed, calls, panicked>>
      BY <1>1, <1>5 DEF Add
    <2> DEFINE n == Len(items) + 1
    <2>2. items \in Seq(ItemRec) /\ n \in Nat /\ n # 0 /\ n \notin DOMAIN items
      BY QueueFacts
    <2>3. DOMAIN items' = DOMAIN items \cup {n} /\ items'[n] = NewItem(h, name)
          /\ \A j \in DOMAIN items : items'[j] = items[j]
      BY <2>1, <2>2
    <2>4. \A x \in Handle : lookup'[x] = IF x = h THEN n ELSE lookup[x]
      BY <1>2, <2>1, QueueFacts
    <2>5. items'[n].id = h /\ items'[n].onHeap /\ ~items'[n].uploading
      BY <2>3 DEF NewItem
    <2> HIDE DEF n
    <2>6. LiveOK'
      <3>1. ASSUME NEW j, j = n PROVE Live(j)'
        BY <1>2, <2>4, <2>5, <3>1 DEF Live
      <3>2. ASSUME NEW j \in DOMAIN items PROVE Live(j)'
        <4>1. Live(j) /\ items'[j] = items[j] /\ items[j].id \in Handle /\ j # 0
          BY <2>3, QueueFacts DEF CInv, LiveOK
        <4>2. items[j].onHeap \/ items[j].uploading => lookup'[items[j].id] = j
          BY <1>5, <2>4, <4>1 DEF Live
        <4>3. QED
          BY <2>1, <4>1, <4>2 DEF Live
      <3>3. \A c \in closed : c[1] \in DOMAIN items
        BY QueueFacts
      <3>4. \A g \in goros : g.item \in DOMAIN items
        BY GoroFacts
      <3>5. \A c \in closed : c[2] <= items'[c[1]].gen
        BY <2>3, <3>3 DEF CInv, LiveOK
      <3>6. \A g \in goros : items'[g.item].uploading /\ g.gen = items'[g.item].gen
        BY <2>3, <3>4 DEF CInv, LiveOK
      <3>7. \A j \in DOMAIN items' : Live(j)'
        BY <2>3, <3>1, <3>2
      <3>8. QED
        BY <2>1, <3>5, <3>6, <3>7 DEF CInv, LiveOK
    <2>7. lookup'[h] # 0
      BY <1>2, <2>2, <2>4
    <2>8. QED
      BY <1>1, <1>3, <2>1, <2>3, <2>4, <2>6, <2>7, AddQueues
  <1>6. CASE k # 0
    <2>1. Kick(t, items, k)
      BY <1>1, <1>4, <1>6 DEF Add
    <2>2. k \in DOMAIN items /\ items[k] \in ItemRec /\ items[k].id = h
      BY <1>2, <1>6, QueueFacts
    <2> DEFINE r == [items[k] EXCEPT !.expiry = Delay]
    <2>3. /\ items' = [items EXCEPT ![k] = r] /\ calls' = [calls EXCEPT ![t] = NoCall]
          /\ UNCHANGED <<lookup, goros, closed, panicked>>
      BY <2>1 DEF Kick, Return
    <2>4. calls' = calls
      <3>1. calls[t] \in CallRec(DOMAIN items) /\ calls \in [Thread -> CallRec(DOMAIN items)]
        BY QueueFacts
      <3>2. calls[t] = NoCall
        BY <1>2, <3>1, CallFacts
      <3>3. QED
        BY <2>3, <3>1, <3>2
    <2>5. /\ r \in ItemRec /\ r.id = items[k].id /\ r.gen = items[k].gen
          /\ r.onHeap = items[k].onHeap /\ r.uploading = items[k].uploading
      BY <2>2, WriteBackAssumption DEF ItemRec
    <2> HIDE DEF r
    <2>6. /\ DOMAIN items' = DOMAIN items /\ items'[k] = r
          /\ \A j \in DOMAIN items : j # k => items'[j] = items[j]
          /\ \A j \in DOMAIN items : items'[j].id = items[j].id /\ items'[j].gen = items[j].gen
      BY <2>2, <2>3, <2>5, EditOne
    <2>7. \A j \in DOMAIN items : items'[j].onHeap = items[j].onHeap /\ items'[j].uploading = items[j].uploading
      BY <2>5, <2>6
    <2>8. LiveOK'
      <3>1. \A j \in DOMAIN items : Live(j)'
        BY <2>3, <2>6, <2>7 DEF CInv, LiveOK, Live
      <3>2. \A c \in closed : c[2] <= items'[c[1]].gen
        BY <2>6, QueueFacts DEF CInv, LiveOK
      <3>3. \A g \in goros : items'[g.item].uploading /\ g.gen = items'[g.item].gen
        BY <2>6, <2>7, GoroFacts
      <3>4. QED
        BY <2>3, <2>6, <3>1, <3>2, <3>3 DEF CInv, LiveOK
    <2>9. QED
      BY <1>1, <1>3, <1>6, <2>2, <2>3, <2>4, <2>6, <2>8, AddQueues
  <1>7. QED
    BY <1>5, <1>6

\* A waiting thread reads the channel it waits for.
LEMMA ReadDoneKeeps ==
  ASSUME CInv, NEW t \in Thread, ReadDone(t), UNCHANGED itemVars
  PROVE  CInv'
  <1>1. UNCHANGED <<cached, remote, dirty, modified, fd, grace, fh, at, stores, wrote, saved, skipped>>
    BY DEF itemVars
  <1>2. /\ calls[t].op # "none" /\ calls' = [calls EXCEPT ![t].done = items[calls[t].victim].gen]
        /\ UNCHANGED <<items, lookup, goros, closed, panicked>>
    BY DEF ReadDone, Idle
  <1>3. IInv'
    BY QueueFacts, ReadDoneStep
  <1>4. calls[t] \in WaitRec(DOMAIN items) /\ calls \in [Thread -> CallRec(DOMAIN items)]
    BY <1>2, QueueFacts
  <1>5. /\ calls'[t].op = calls[t].op /\ calls'[t].victim = calls[t].victim
        /\ calls'[t].done = items[calls[t].victim].gen
        /\ \A u \in Thread : u # t => calls'[u] = calls[u]
    BY <1>2, <1>4 DEF WaitRec
  <1>6. LiveOK'
    BY <1>2 DEF CInv, LiveOK, Live
  <1>7. WaitOK'
    <2>1. Waits(t)
      BY <1>2 DEF CInv, WaitOK
    <2>2. Waits(t)'
      BY <1>1, <1>2, <1>5, <2>1 DEF Waits
    <2>3. ASSUME NEW u \in Thread, u # t, calls[u].op # "none" PROVE Waits(u)'
      BY <1>1, <1>2, <1>5, <2>3, WaitsOn
    <2>4. QED
      BY <1>5, <2>2, <2>3 DEF WaitOK
  <1>8. \A s \in stores' : /\ items'[s.item].id = items[s.item].id
                           /\ \E g \in goros' : g.item = s.item /\ g.gen = s.gen
    BY <1>1, <1>2 DEF CInv, StoresOK
  <1>9. \A u \in Thread : calls[u].op # "none" => calls'[u].op # "none"
    BY <1>2, <1>5
  <1>10. QED
    BY <1>1, <1>2, <1>3, <1>6, <1>7, <1>8, <1>9, QueueAlone

\* No call of Add ever waits: a file that is modified is not in an upload when
\* it is closed.
LEMMA AddNeverWaits == ASSUME CInv, NEW t \in Thread PROVE ~AddResume(t)
  BY DEF AddResume, Waited, CInv, WaitOK, Waits

\* The upload is over and the file is taken off the queue.
LEMMA RemoveResumeKeeps ==
  ASSUME CInv, NEW t \in Thread, RemoveResume(t), UNCHANGED itemVars
  PROVE  CInv'
  <1> DEFINE k == calls[t].victim
             h == fh[t]
  <1>1. UNCHANGED <<cached, remote, dirty, modified, fd, grace, fh, at, stores, wrote, saved, skipped>>
    BY DEF itemVars
  <1>2. /\ calls[t].op # "none" /\ calls[t].done # 0 /\ <<k, calls[t].done>> \in closed
        /\ items' = Drop(Back(items, k), k) /\ lookup' = Forget(k)
        /\ calls' = [calls EXCEPT ![t] = NoCall] /\ UNCHANGED <<goros, closed, panicked>>
    BY DEF RemoveResume, Waited, Return
  <1>3. IInv'
    BY QueueFacts, RemoveResumeStep
  <1>4. Waits(t) /\ k \in DOMAIN items /\ items[k] \in ItemRec /\ items \in Seq(ItemRec)
    BY <1>2, QueueFacts DEF CInv, WaitOK
  <1>5. at[t] \in Removing \cup Discarding /\ items[k].id = h /\ calls[t].done = items[k].gen /\ lookup[h] \in {0, k}
    BY <1>2, <1>4 DEF Waits, Removing, Discarding
  <1>6. ~items[k].uploading /\ h \in Handle
    BY <1>2, <1>4, <1>5, QueueFacts DEF CInv, LiveOK, Live
  <1> DEFINE r == [items[k] EXCEPT !.onHeap = FALSE]
  <1>7. r \in ItemRec /\ r.id = items[k].id /\ r.gen = items[k].gen /\ ~r.onHeap /\ ~r.uploading
    BY <1>4, <1>6 DEF ItemRec
  <1>8. items' = [items EXCEPT ![k] = r]
    <2>1. Back(items, k) = [items EXCEPT ![k] = [items[k] EXCEPT !.onHeap = TRUE]]
      BY <1>4 DEF Back
    <2>2. Back(items, k)[k] = [items[k] EXCEPT !.onHeap = TRUE]
      BY <1>4, <2>1
    <2>3. items' = [Back(items, k) EXCEPT ![k] = [Back(items, k)[k] EXCEPT !.onHeap = FALSE]]
      BY <1>2 DEF Drop
    <2>4. [Back(items, k)[k] EXCEPT !.onHeap = FALSE] = r
      BY <1>4, <2>2 DEF ItemRec
    <2>5. QED
      BY <1>4, <2>1, <2>3, <2>4
  <1> HIDE DEF r
  <1>9. /\ DOMAIN items' = DOMAIN items /\ items'[k] = r
        /\ \A j \in DOMAIN items : j # k => items'[j] = items[j]
        /\ \A j \in DOMAIN items : items'[j].id = items[j].id /\ items'[j].gen = items[j].gen
    BY <1>4, <1>7, <1>8, EditOne
  <1>10. \A x \in Handle : lookup'[x] = IF x = h THEN 0 ELSE lookup[x]
    BY <1>2, <1>5, QueueFacts DEF Forget
  <1>11. calls'[t].op = "none" /\ \A u \in Thread : u # t => calls'[u] = calls[u]
    BY <1>2, QueueFacts DEF NoCall
  <1>12. LiveOK'
    <2>1. ~items'[k].uploading /\ ~items'[k].onHeap /\ lookup[items[k].id] \in {0, k}
      BY <1>5, <1>7, <1>9
    <2> HIDE DEF k
    <2>2. QED
      BY <1>2, <1>4, <1>6, <1>9, <2>1, Dropped
  <1> HIDE DEF h, k
  <1>13. WaitOK'
    <2>1. ASSUME NEW u \in Thread, u # t, calls[u].op # "none" PROVE Waits(u)'
      <3>1. /\ fh[u] # h /\ fh[u] \in Handle /\ calls[u].victim \in DOMAIN items
            /\ items[calls[u].victim].id # h
        BY <1>5, <2>1, OneRemover DEF h
      <3>2. items'[calls[u].victim] = items[calls[u].victim] /\ lookup'[fh[u]] = lookup[fh[u]]
        BY <1>5, <1>9, <1>10, <3>1
      <3>3. QED
        BY <1>1, <1>2, <1>11, <2>1, <3>2, WaitsOn
    <2>2. QED
      BY <1>11, <2>1 DEF WaitOK
  <1>14. \A s \in stores' : /\ items'[s.item].id = items[s.item].id
                            /\ \E g \in goros' : g.item = s.item /\ g.gen = s.gen
    BY <1>1, <1>2, <1>9, StoreFacts DEF CInv, StoresOK
  <1>15. \A x \in Handle : lookup'[x] = lookup[x]
            \/ (lookup'[x] = 0 /\ \E u \in Thread : fh[u] = x /\ at[u] # "queued")
    BY <1>5, <1>10 DEF h, Removing, Discarding
  <1>16. \A u \in Thread : calls[u].op # "none" /\ calls'[u].op = "none" => lookup'[fh[u]] = 0
    BY <1>6, <1>10, <1>11 DEF h
  <1>17. QED
    BY <1>1, <1>3, <1>9, <1>12, <1>13, <1>14, <1>15, <1>16, QueueAlone

\* Time passes only while every upload that is waited for is running, so that
\* the item of none of them comes due.
LEMMA TickKeeps ==
  ASSUME CInv, Tick, Prompt, UNCHANGED itemVars
  PROVE  CInv'
  <1>1. UNCHANGED <<cached, remote, dirty, modified, fd, grace, fh, at, stores, wrote, saved, skipped>>
    BY DEF itemVars
  <1>2. UNCHANGED <<lookup, goros, closed, calls, panicked>>
    BY DEF Tick
  <1>3. IInv'
    BY QueueFacts, TickStep
  <1>4. /\ DOMAIN items' = DOMAIN items
        /\ \A k \in DOMAIN items : /\ items'[k].id = items[k].id /\ items'[k].gen = items[k].gen
                                   /\ items'[k].onHeap = items[k].onHeap /\ items'[k].uploading = items[k].uploading
    BY QueueFacts DEF Tick, ItemRec
  <1>5. LiveOK'
    <2>1. \A k \in DOMAIN items : Live(k)'
      BY <1>2, <1>4 DEF CInv, LiveOK, Live
    <2>2. \A c \in closed : c[2] <= items'[c[1]].gen
      BY <1>4, QueueFacts DEF CInv, LiveOK
    <2>3. \A g \in goros : items'[g.item].uploading /\ g.gen = items'[g.item].gen
      BY <1>4, GoroFacts
    <2>4. QED
      BY <1>2, <1>4, <2>1, <2>2, <2>3 DEF CInv, LiveOK
  <1>6. ASSUME NEW u \in Thread, calls[u].op # "none" PROVE Waits(u)'
    <2>1. Waits(u) /\ calls[u].victim \in DOMAIN items
      BY <1>6, QueueFacts DEF CInv, WaitOK
    <2>2. calls[u].done # 0 /\ <<calls[u].victim, calls[u].done>> \notin closed
      BY <1>6 DEF Prompt, Idle
    <2>3. items[calls[u].victim].uploading
      BY <2>1, <2>2 DEF Waits
    <2>4. ~items[calls[u].victim].onHeap
      BY <2>1, <2>3 DEF CInv, LiveOK, Live
    <2>5. QED
      BY <1>1, <1>2, <1>4, <2>1, <2>3, <2>4 DEF Waits
  <1>7. WaitOK'
    BY <1>2, <1>6 DEF WaitOK
  <1>8. \A s \in stores' : /\ items'[s.item].id = items[s.item].id
                           /\ \E g \in goros' : g.item = s.item /\ g.gen = s.gen
    BY <1>1, <1>2, <1>4, StoreFacts DEF CInv, StoresOK
  <1>9. QED
    BY <1>1, <1>2, <1>3, <1>4, <1>5, <1>7, <1>8, QueueAlone

LEMMA TimerFiresKeeps ==
  ASSUME CInv, TimerFires, UNCHANGED itemVars
  PROVE  CInv'
  <1>1. UNCHANGED <<cached, remote, dirty, modified, fd, grace, fh, at, stores, wrote, saved, skipped>>
    BY DEF itemVars
  <1>2. UNCHANGED <<items, lookup, goros, closed, calls, panicked>>
    BY DEF TimerFires
  <1>3. IInv'
    BY QueueFacts, TimerFiresStep
  <1>4. LiveOK' /\ WaitOK'
    BY <1>1, <1>2 DEF CInv, LiveOK, Live, WaitOK, Waits
  <1>5. \A s \in stores' : /\ items'[s.item].id = items[s.item].id
                           /\ \E g \in goros' : g.item = s.item /\ g.gen = s.gen
    BY <1>1, <1>2 DEF CInv, StoresOK
  <1>6. QED
    BY <1>1, <1>2, <1>3, <1>4, <1>5, QueueAlone

\* processItems starts uploads of items that wait, and of none that a call waits for.
LEMMA ProcessKeeps ==
  ASSUME CInv, Process, UNCHANGED itemVars
  PROVE  CInv'
  <1>1. UNCHANGED <<cached, remote, dirty, modified, fd, grace, fh, at, stores, wrote, saved, skipped>>
    BY DEF itemVars
  <1>2. UNCHANGED <<lookup, closed, calls, panicked>>
    BY DEF Process
  <1>3. IInv'
    BY QueueFacts, ProcessStep
  <1>4. PICK S \in SUBSET {k \in Heap(items) : items[k].expiry = 0} :
          /\ items' = [k \in DOMAIN items |->
                         IF k \in S THEN [items[k] EXCEPT !.onHeap = FALSE, !.uploading = TRUE, !.gen = @ + 1]
                                    ELSE items[k]]
          /\ goros' = goros \cup {[item |-> k, gen |-> items[k].gen + 1, cancelled |-> FALSE] : k \in S}
    BY DEF Process
  <1>5. \A k \in S : k \in DOMAIN items /\ items[k].onHeap /\ items[k].expiry = 0 /\ items[k] \in ItemRec
    BY <1>4, QueueFacts DEF Heap
  <1>6. /\ DOMAIN items' = DOMAIN items /\ \A k \in DOMAIN items \ S : items'[k] = items[k]
        /\ \A k \in S : /\ items'[k].id = items[k].id /\ items'[k].gen = items[k].gen + 1
                        /\ ~items'[k].onHeap /\ items'[k].uploading
    BY <1>4, <1>5 DEF ItemRec
  <1>7. \A k \in S : ~items[k].uploading /\ lookup[items[k].id] = k
    BY <1>5 DEF CInv, LiveOK, Live
  <1>8. LiveOK'
    <2>1. ASSUME NEW k \in S PROVE Live(k)'
      <3>1. <<k, items[k].gen + 1>> \notin closed /\ items[k].gen \in Nat
        <4>1. items[k].gen \in Nat
          BY <1>5, QueueFacts
        <4>2. ASSUME <<k, items[k].gen + 1>> \in closed PROVE FALSE
          <5>1. items[k].gen + 1 <= items[k].gen
            BY <4>2 DEF CInv, LiveOK
          <5>2. QED
            BY <4>1, <5>1
        <4>3. QED
          BY <4>1, <4>2
      <3>2. QED
        BY <1>2, <1>6, <1>7, <3>1 DEF Live
    <2>2. ASSUME NEW k \in DOMAIN items \ S PROVE Live(k)'
      BY <1>2, <1>6 DEF CInv, LiveOK, Live
    <2>3. ASSUME NEW c \in closed PROVE c[2] <= items'[c[1]].gen
      <3>1. c[1] \in DOMAIN items /\ c[2] \in Nat /\ c[2] <= items[c[1]].gen /\ items[c[1]].gen \in Nat
        BY QueueFacts DEF CInv, LiveOK
      <3>2. items'[c[1]].gen \in {items[c[1]].gen, items[c[1]].gen + 1}
        BY <1>6, <3>1
      <3>3. QED
        BY <3>1, <3>2
    <2>4. ASSUME NEW g \in goros PROVE items'[g.item].uploading /\ g.gen = items'[g.item].gen
      <3>1. g.item \in DOMAIN items \ S
        BY <1>7, GoroFacts
      <3>2. QED
        BY <1>6, <3>1, GoroFacts
    <2>5. ASSUME NEW g \in goros' \ goros PROVE items'[g.item].uploading /\ g.gen = items'[g.item].gen
      <3>1. PICK k \in S : g = [item |-> k, gen |-> items[k].gen + 1, cancelled |-> FALSE]
        BY <1>4, <2>5
      <3>2. g.item = k /\ g.gen = items[k].gen + 1
        BY <3>1
      <3>3. QED
        BY <1>6, <3>2
    <2>6. QED
      BY <1>2, <1>6, <2>1, <2>2, <2>3, <2>4, <2>5 DEF CInv, LiveOK
  <1>9. WaitOK'
    <2>1. ASSUME NEW u \in Thread, calls[u].op # "none" PROVE Waits(u)'
      <3>1. Waits(u) /\ calls[u].victim \in DOMAIN items
        BY <2>1, QueueFacts DEF CInv, WaitOK
      <3>2. calls[u].victim \notin S
        BY <1>5, <3>1 DEF Waits
      <3>3. QED
        BY <1>1, <1>2, <1>6, <2>1, <3>1, <3>2, WaitsOn
    <2>2. QED
      BY <1>2, <2>1 DEF WaitOK
  <1>10. ASSUME NEW s \in stores'
         PROVE  /\ items'[s.item].id = items[s.item].id
                /\ \E g \in goros' : g.item = s.item /\ g.gen = s.gen
    <2>1. s \in stores /\ s.item \in DOMAIN items
      BY <1>1, StoreFacts
    <2>2. \E g \in goros : g.item = s.item /\ g.gen = s.gen
      BY <2>1 DEF CInv, StoresOK
    <2>3. QED
      BY <1>4, <1>6, <2>1, <2>2
  <1>11. QED
    BY <1>1, <1>2, <1>3, <1>6, <1>8, <1>9, <1>10, QueueAlone

\* An upload ends and leaves item.store.
LEMMA UploadEndsKeeps ==
  ASSUME CInv, NEW g \in goros, NEW err, UploadEnds(g, err), errors' \in Nat,
         stores' = stores \ StoreOf(g),
         UNCHANGED <<cached, remote, dirty, modified, fd, grace, fh, at, wrote, saved>>, skipped \subseteq skipped',
         err = "none" /\ dirty[items[g.item].id] /\ items[g.item].id \notin skipped'
            => \E t \in Thread : fh[t] = items[g.item].id /\ at[t] \in Removing
  PROVE  CInv'
  <1> DEFINE k == g.item
             h == items[k].id
             m(f) == IF f.item = k /\ f.gen = items[k].gen THEN [f EXCEPT !.cancelled = TRUE] ELSE f
  <1>1. /\ k \in DOMAIN items /\ items[k] \in ItemRec /\ h \in Handle /\ items[k].uploading /\ ~items[k].onHeap
        /\ g.gen = items[k].gen /\ lookup[h] = k /\ <<k, g.gen>> \notin closed /\ g.gen \in Nat \ {0}
    BY GoroFacts
  <1>2. /\ goros' = {m(f) : f \in goros \ {g}}
        /\ items' = (IF err = "none" THEN [items EXCEPT ![k].uploading = FALSE] ELSE Retry(k, err))
        /\ lookup' = (IF err = "none" THEN Forget(k) ELSE lookup)
        /\ closed' = closed \cup {<<k, items[k].gen>>} /\ panicked' = (<<k, items[k].gen>> \in closed)
        /\ UNCHANGED calls
    BY DEF UploadEnds, CloseDone
  <1>3. IInv'
    BY QueueFacts, UploadEndsStep
  <1> DEFINE r == IF err = "none" THEN [items[k] EXCEPT !.uploading = FALSE]
                  ELSE [items[k] EXCEPT !.uploading = FALSE, !.onHeap = TRUE,
                                        !.delay = NextDelay(k, err), !.expiry = NextDelay(k, err)]
  <1>4. items' = [items EXCEPT ![k] = r]
    BY <1>2 DEF Retry
  <1>5. /\ r \in ItemRec /\ r.id = items[k].id /\ r.gen = items[k].gen /\ ~r.uploading
        /\ r.onHeap => r.expiry > 0 /\ err # "none"
    <2>1. IInv
      BY DEF CInv
    <2>2. NextDelay(k, err) \in Delay..MaxUploadDelay
      BY <1>1, <2>1, NextDelayType
    <2>3. /\ NextDelay(k, err) \in Delay..MaxUploadDelay /\ NextDelay(k, err) \in 0..MaxUploadDelay
          /\ NextDelay(k, err) > 0
      BY <2>2, WriteBackAssumption
    <2>4. QED
      BY <1>1, <2>3 DEF ItemRec
  <1> HIDE DEF r
  <1>6. /\ DOMAIN items' = DOMAIN items /\ items'[k] = r
        /\ \A j \in DOMAIN items : j # k => items'[j] = items[j]
        /\ \A j \in DOMAIN items : items'[j].id = items[j].id /\ items'[j].gen = items[j].gen
    BY <1>1, <1>4, <1>5, EditOne
  <1>7. \A x \in Handle : lookup'[x] = IF x = h /\ err = "none" THEN 0 ELSE lookup[x]
    BY <1>1, <1>2, QueueFacts DEF Forget
  <1>8. \A f \in goros \ {g} : f.item # k /\ f.item \in DOMAIN items /\ m(f) = f
    <2>1. SUFFICES ASSUME NEW f \in goros, f # g PROVE f.item # k /\ f.item \in DOMAIN items
      OBVIOUS
    <2>2. f.item \in DOMAIN items /\ f.gen = items[f.item].gen
      BY <2>1, GoroFacts
    <2>3. f.item = k => f.gen = g.gen
      BY <1>1, <2>2
    <2>4. GorosOK(goros, items)
      BY DEF CInv, IInv
    <2>5. QED
      BY <2>1, <2>2, <2>3, <2>4 DEF GorosOK
  <1>9. goros' = goros \ {g}
    BY <1>2, <1>8
  <1> HIDE DEF h, k, m
  <1>10. LiveOK'
    <2>1. ASSUME NEW j \in DOMAIN items, j = k PROVE Live(j)'
      BY <1>1, <1>5, <1>6, <1>7, <2>1 DEF Live, h
    <2>2. ASSUME NEW j \in DOMAIN items, j # k PROVE Live(j)'
      <3>1. items'[j] = items[j] /\ Live(j) /\ items[j].id \in Handle
        BY <1>6, <2>2, QueueFacts DEF CInv, LiveOK
      <3>2. items[j].onHeap \/ items[j].uploading => lookup'[items[j].id] = j
        BY <1>1, <1>7, <2>2, <3>1 DEF Live
      <3>3. <<j, items[j].gen>> \in closed' => <<j, items[j].gen>> \in closed
        BY <1>2, <2>2
      <3>4. QED
        BY <3>1, <3>2, <3>3 DEF Live
    <2>3. ASSUME NEW c \in closed' PROVE c[2] <= items'[c[1]].gen
      <3>1. CASE c \in closed
        BY <1>6, <3>1, QueueFacts DEF CInv, LiveOK
      <3>2. CASE c = <<k, items[k].gen>>
        BY <1>1, <1>6, <3>2
      <3>3. QED
        BY <1>2, <3>1, <3>2
    <2>4. ASSUME NEW f \in goros' PROVE items'[f.item].uploading /\ f.gen = items'[f.item].gen
      BY <1>6, <1>8, <1>9, GoroFacts
    <2>5. ~panicked'
      BY <1>1, <1>2
    <2>6. QED
      BY <1>6, <2>1, <2>2, <2>3, <2>4, <2>5 DEF LiveOK
  <1>11. WaitOK'
    <2>1. ASSUME NEW u \in Thread, calls[u].op # "none" PROVE Waits(u)'
      <3>1. Waits(u) /\ calls[u].victim \in DOMAIN items
        BY <2>1, QueueFacts DEF CInv, WaitOK
      <3>2. at[u] # "idle" /\ fh[u] = items[calls[u].victim].id
        BY <3>1 DEF Waits
      <3>3. fh[u] \in Handle /\ lookup'[fh[u]] \in {0, lookup[fh[u]]}
        BY <1>7, <3>1, <3>2, QueueFacts
      <3>4. CASE calls[u].victim # k
        BY <1>2, <1>6, <2>1, <3>1, <3>3, <3>4, WaitsOn
      <3>5. CASE calls[u].victim = k
        <4>1. <<k, items[k].gen>> \in closed'
          BY <1>2
        <4>2. items'[k].id = items[k].id /\ items'[k].gen = items[k].gen
          BY <1>1, <1>6
        <4>3. items'[k].onHeap => items'[k].expiry > 0
          BY <1>5, <1>6
        <4>4. lookup'[fh[u]] \in {0, k}
          BY <3>1, <3>3, <3>5 DEF Waits
        <4>5. calls'[u] = calls[u]
          BY <1>2
        <4>6. QED
          BY <3>1, <3>5, <4>1, <4>2, <4>3, <4>4, <4>5 DEF Waits
      <3>6. QED
        BY <3>4, <3>5
    <2>2. QED
      BY <1>2, <2>1 DEF WaitOK
  <1>12. ASSUME NEW s \in stores'
         PROVE  /\ items'[s.item].id = items[s.item].id
                /\ \E f \in goros' : f.item = s.item /\ f.gen = s.gen
    <2>1. s \in stores /\ s \notin StoreOf(g) /\ s.item \in DOMAIN items
      BY <1>12, StoreFacts
    <2>2. PICK f \in goros : f.item = s.item /\ f.gen = s.gen
      BY <2>1 DEF CInv, StoresOK
    <2>3. f # g
      BY <2>1, <2>2 DEF StoreOf
    <2>4. QED
      BY <1>6, <1>9, <2>1, <2>2, <2>3
  <1>13. \A x \in Handle : lookup'[x] = lookup[x]
            \/ (lookup'[x] = 0 /\ (dirty[x] /\ x \notin skipped' => \E t \in Thread : fh[t] = x /\ at[t] # "queued"))
    BY <1>7 DEF h, k, Removing
  <1>14. QED
    BY <1>2, <1>3, <1>6, <1>10, <1>11, <1>12, <1>13, QueueAlone

LEMMA StoreReturnsStep ==
  ASSUME CInv, NEW g \in goros, StoreReturns(g)
  PROVE  CInv'
  <1>1. /\ UploadEnds(g, "none") /\ errors' = errors /\ stores' = stores \ StoreOf(g)
        /\ UNCHANGED <<cached, remote, dirty, modified, fd, grace, fh, at, wrote, saved, skipped>>
    BY DEF StoreReturns, Succeed
  <1>2. PICK s \in StoreOf(g) : s.stage = "clean"
    BY DEF StoreReturns
  <1>3. dirty[items[g.item].id] => \E t \in Thread : fh[t] = items[g.item].id /\ at[t] \in Removing
    BY <1>2, StoreOfFacts DEF Carries
  <1>4. errors' \in Nat
    BY <1>1 DEF CInv, IInv, TypeOK
  <1>5. QED
    BY <1>1, <1>3, <1>4, UploadEndsKeeps

LEMMA StoreEmptyStep ==
  ASSUME CInv, NEW g \in goros, StoreEmpty(g)
  PROVE  CInv'
  <1>1. /\ UploadEnds(g, "none") /\ errors' = errors /\ stores' = stores \ StoreOf(g)
        /\ UNCHANGED <<cached, remote, dirty, modified, fd, grace, fh, at, wrote, saved>>
        /\ skipped' = skipped \cup {items[g.item].id}
    BY DEF StoreEmpty, Succeed
  <1>2. errors' \in Nat
    BY <1>1 DEF CInv, IInv, TypeOK
  <1>3. QED
    BY <1>1, <1>2, UploadEndsKeeps

LEMMA StoreFailsStep ==
  ASSUME CInv, NEW g \in goros, StoreFails(g)
  PROVE  CInv'
  <1>1. errors \in Nat
    BY DEF CInv, IInv, TypeOK
  <1>2. PICK err \in {"cancelled", "failed"} : UploadEnds(g, err) /\ errors' \in Nat
    BY <1>1 DEF StoreFails, Cancelled, Fail
  <1>3. /\ stores' = stores \ StoreOf(g)
        /\ UNCHANGED <<cached, remote, dirty, modified, fd, grace, fh, at, wrote, saved, skipped>>
    BY DEF StoreFails
  <1>4. err # "none"
    BY <1>2
  <1>5. QED
    BY <1>2, <1>3, <1>4, UploadEndsKeeps

-----------------------------------------------------------------------------
(* The restart *)

\* The files to reload in some order, each once.
LEMMA ReloadOrder ==
  ASSUME NEW S, IsFiniteSet(S), NEW todo, todo = SeqExt!SetToSeq(S)
  PROVE  /\ todo \in [1..Cardinality(S) -> S] /\ Cardinality(S) \in Nat
         /\ \A h \in S : \E k \in 1..Cardinality(S) : todo[k] = h
         /\ \A j, k \in 1..Cardinality(S) : todo[j] = todo[k] => j = k
  <1> DEFINE n == Cardinality(S)
  <1>1. n \in Nat /\ ExistsBijection(1..n, S)
    BY FS_CardinalityType
  <1>2. PICK f \in [1..n -> S] : SeqExt!IsInjective(f)
    BY <1>1 DEF ExistsBijection, Bijection, Injection, IsInjective, SeqExt!IsInjective
  <1>3. todo = CHOOSE x \in [1..n -> S] : SeqExt!IsInjective(x)
    BY DEF SeqExt!SetToSeq, SeqExt!Cardinality, Cardinality
  <1>4. todo \in [1..n -> S] /\ SeqExt!IsInjective(todo)
    BY <1>2, <1>3
  <1>5. \A j, k \in 1..n : todo[j] = todo[k] => j = k
    BY <1>4 DEF SeqExt!IsInjective
  <1>6. todo \in Injection(1..n, S)
    BY <1>4, <1>5 DEF Injection, IsInjective
  <1>7. Cardinality(1..n) = n
    BY <1>1, FS_Interval
  <1>8. todo \in Surjection(1..n, S)
    BY <1>6, <1>7, FS_Injection
  <1>9. QED
    BY <1>1, <1>4, <1>5, <1>8 DEF Surjection

LEMMA CrashStep ==
  ASSUME CInv, MetaOK, Crash
  PROVE  CInv'
  <1>0. PICK torn \in SUBSET Handle, stuck \in SUBSET Handle : Restart(torn, stuck)
    BY DEF Crash
  <1> DEFINE Again == Reloaded(torn) \ stuck
             todo == SeqExt!SetToSeq(Again)
             n == Cardinality(Again)
  <1>1. IsFiniteSet(Again) /\ Again \subseteq Handle
    <2>1. Again \in SUBSET {h \in Handle : meta[h] = "dirty"}
      BY DEF Reloaded
    <2>2. IsFiniteSet({h \in Handle : meta[h] = "dirty"})
      BY DEF MetaOK
    <2>3. QED
      BY <2>1, <2>2, FS_Subset
  <1>2. /\ todo \in [1..n -> Again] /\ n \in Nat
        /\ \A h \in Again : \E k \in 1..n : todo[k] = h
        /\ \A j, k \in 1..n : todo[j] = todo[k] => j = k
    BY <1>1, ReloadOrder
  <1>3. PICK name \in Name : items' = [k \in DOMAIN todo |-> NewItem(todo[k], name)]
    BY <1>0 DEF Restart
  <1>4. /\ lookup' = [h \in Handle |-> IF h \in Again THEN CHOOSE k \in DOMAIN todo : todo[k] = h ELSE 0]
        /\ goros' = {} /\ closed' = {} /\ runs' = 0 /\ uploads' = 0 /\ stopped' = FALSE
        /\ calls' = [t \in Thread |-> NoCall]
        /\ expiry' = (IF todo = <<>> THEN NoTime ELSE Delay)
        /\ timer' = (IF todo = <<>> THEN "off" ELSE "armed")
        /\ modified' = [h \in Handle |-> FALSE]
        /\ fd' = [h \in Handle |-> h \in stuck] /\ grace' = [h \in Handle |-> FALSE]
        /\ fh' = [t \in Thread |-> 0] /\ at' = [t \in Thread |-> "idle"]
        /\ stores' = {} /\ wrote' = {} /\ skipped' = stuck
        /\ cached' = [h \in Handle |-> IF h \in Unreadable(torn) THEN remote[h] ELSE cached[h]]
        /\ saved' = [h \in Handle |-> IF h \in torn \cup unsaved THEN remote[h] ELSE saved[h]]
        /\ dirty' = [h \in Handle |-> meta[h] = "dirty" /\ h \notin torn]
        /\ UNCHANGED <<ncalls, errors, panicked, remote>>
    BY <1>0 DEF Restart
  <1>5. todo = <<>> => n = 0
    BY <1>2
  <1> HIDE DEF todo, n, Again
  <1>6. DOMAIN items' = 1..n /\ \A k \in 1..n : items'[k] = NewItem(todo[k], name) /\ todo[k] \in Handle
    BY <1>1, <1>2, <1>3
  <1>7. /\ \A k \in 1..n : items'[k] \in ItemRec
        /\ \A k \in 1..n : items'[k].id = todo[k] /\ items'[k].onHeap /\ ~items'[k].uploading
    <2>1. ASSUME NEW k \in 1..n PROVE items'[k] \in ItemRec /\ items'[k].id = todo[k] /\ items'[k].onHeap /\ ~items'[k].uploading
      <3>1. /\ Delay \in 0..MaxUploadDelay /\ Delay \in Delay..MaxUploadDelay /\ 0 \in Nat
        BY WriteBackAssumption
      <3>2. items'[k] = [id |-> todo[k], name |-> name, expiry |-> Delay, delay |-> Delay,
                         uploading |-> FALSE, onHeap |-> TRUE, gen |-> 0] /\ todo[k] \in Handle
        BY <1>6 DEF NewItem
      <3>3. QED
        BY <3>1, <3>2 DEF ItemRec
    <2>2. QED
      BY <2>1
  <1>8. items' \in Seq(ItemRec)
    <2>1. items' \in [1..n -> ItemRec]
      BY <1>2, <1>3, <1>6, <1>7
    <2>2. QED
      BY <1>2, <2>1, FunSeq
  <1>9. \A h \in Again : lookup'[h] \in 1..n /\ todo[lookup'[h]] = h
    BY <1>1, <1>2, <1>4
  <1>10. \A h \in Handle \ Again : lookup'[h] = 0
    BY <1>4
  <1>11. \A k \in 1..n : lookup'[todo[k]] = k
    BY <1>2, <1>9
  <1>12. IInv'
    <2>1. lookup' \in [Handle -> {0} \cup DOMAIN items']
      BY <1>4, <1>6, <1>9, <1>10
    <2>2. calls' \in [Thread -> CallRec(DOMAIN items')]
      BY <1>4 DEF CallRec
    <2>3. expiry' \in 0..NoTime /\ timer' \in {"off", "armed", "fired"}
      BY <1>4, WriteBackAssumption DEF NoTime
    <2>4. ncalls' \in Nat /\ errors' \in Nat /\ panicked' \in BOOLEAN
      BY <1>4 DEF CInv, IInv, TypeOK
    <2>5. TypeOK'
      BY <1>4, <1>8, <2>1, <2>2, <2>3, <2>4 DEF TypeOK
    <2>6. IsFiniteSet({}) /\ Cardinality({}) = 0
      BY FS_EmptySet
    <2>7. GorosOK(goros', items')
      BY <1>4, <2>6 DEF GorosOK
    <2>8. Found(items', lookup')
      <3>1. ASSUME NEW h \in Handle, lookup'[h] # 0
            PROVE  items'[lookup'[h]].id = h /\ items'[lookup'[h]].onHeap
        BY <1>7, <1>9, <1>10, <3>1
      <3>2. QED
        BY <3>1 DEF Found
    <2>9. UploadsCounted'
      BY <1>4, <2>6, WriteBackAssumption DEF UploadsCounted
    <2>10. Timed'
      BY <1>4, WriteBackAssumption DEF Timed, NoTime
    <2>11. Awake'
      <3>1. CASE todo = <<>>
        <4>1. Heap(items') = {}
          BY <1>5, <1>6, <3>1 DEF Heap
        <4>2. QED
          BY <4>1 DEF Awake
      <3>2. CASE todo # <<>>
        BY <1>4, <3>2 DEF Awake
      <3>3. QED
        BY <3>1, <3>2
    <2>12. QED
      BY <2>5, <2>7, <2>8, <2>9, <2>10, <2>11 DEF IInv
  <1>13. ItemsTyped'
    <2>1. /\ modified' \in [Handle -> BOOLEAN] /\ fd' \in [Handle -> BOOLEAN] /\ grace' \in [Handle -> BOOLEAN]
          /\ fh' \in [Thread -> Handle \cup {0}] /\ at' \in [Thread -> Places]
          /\ wrote' \subseteq Handle /\ stores' \subseteq StoreRec(items')
      BY <1>4 DEF Places
    <2>2. dirty' \in [Handle -> BOOLEAN]
      BY <1>4
    <2>3. saved' \in [Handle -> Nat]
      BY <1>4, CTypes
    <2>4. \A h \in Handle : remote[h] \in 0..MaxWrites /\ cached[h] \in 0..MaxWrites
      BY CacheAssumption DEF CInv, ItemsTyped, Kept
    <2>5. cached' \in [Handle -> 0..MaxWrites]
      BY <1>4, <2>4
    <2>6. QED
      BY <1>4, <2>1, <2>2, <2>3, <2>5 DEF CInv, ItemsTyped
  <1>14. LiveOK'
    <2>1. ASSUME NEW k \in 1..n PROVE Live(k)'
      BY <1>7, <1>11 DEF Live
    <2>2. QED
      BY <1>4, <1>6, <2>1 DEF CInv, LiveOK
  <1>15. WaitOK'
    BY <1>4 DEF WaitOK, NoCall
  <1>16. ThreadsOK' /\ OpenOK' /\ OffQueue' /\ StoresOK'
    <2>1. ThreadsOK'
      BY <1>4 DEF ThreadsOK, Exclusive, Removing
    <2>2. OpenOK'
      BY <1>4 DEF OpenOK
    <2>3. OffQueue' /\ StoresOK'
      BY <1>4 DEF OffQueue, StoresOK
    <2>4. QED
      BY <2>1, <2>2, <2>3
  <1>17. Kept'
    <2>1. \A h \in Handle : Due(h)' = saved'[h]
      BY <1>4 DEF Due
    <2>2. ASSUME NEW h \in Handle, h \notin torn \cup unsaved
          PROVE  /\ saved'[h] = saved[h] /\ cached'[h] = cached[h]
                 /\ remote[h] < saved[h] => dirty'[h]
      <3>1. meta[h] = Flag(dirty[h])
        BY <2>2 DEF MetaOK
      <3>2. h \notin Unreadable(torn)
        BY <2>2, <3>1 DEF Unreadable, Flag
      <3>3. saved'[h] = saved[h] /\ cached'[h] = cached[h]
        BY <1>4, <2>2, <3>2
      <3>4. ASSUME remote[h] < saved[h] PROVE dirty'[h]
        <4>1. remote[h] < Due(h)
          BY <3>4, DueType, CTypes
        <4>2. dirty[h]
          BY <4>1 DEF CInv, Kept
        <4>3. QED
          BY <1>4, <2>2, <3>1, <4>2 DEF Flag
      <3>5. QED
        BY <3>3, <3>4
    <2>3. ASSUME NEW h \in Handle, h \in torn \cup unsaved
          PROVE  saved'[h] = remote[h] /\ cached'[h] \in {remote[h], cached[h]}
      BY <1>4, <2>3
    <2>4. ASSUME NEW h \in Handle
          PROVE  /\ saved'[h] <= cached'[h] /\ remote[h] <= cached'[h]
                 /\ remote[h] < saved'[h] => dirty'[h]
      <3>1. /\ saved[h] <= cached[h] /\ remote[h] <= cached[h]
            /\ saved[h] \in Nat /\ remote[h] \in Nat /\ cached[h] \in Nat
        BY CTypes DEF CInv, Kept
      <3>2. CASE h \in torn \cup unsaved
        BY <2>3, <3>1, <3>2
      <3>3. CASE h \notin torn \cup unsaved
        BY <2>2, <3>1, <3>3
      <3>4. QED
        BY <3>2, <3>3
    <2>5. ASSUME NEW h \in Handle, dirty'[h], h \notin skipped' PROVE lookup'[h] # 0
      <3>1. h \in Again
        BY <1>4, <2>5 DEF Reloaded, Again
      <3>2. QED
        BY <1>9, <3>1
    <2>6. QED
      BY <1>4, <2>1, <2>4, <2>5 DEF Kept
  <1>18. QED
    BY <1>12, <1>13, <1>14, <1>15, <1>16, <1>17 DEF CInv

-----------------------------------------------------------------------------
(* The metadata on disk *)

\* A step that touches neither the metadata nor the mark.
LEMMA MetaStill ==
  ASSUME MetaOK, UNCHANGED <<meta, unsaved, dirty>>
  PROVE  MetaOK'
  BY DEF MetaOK

\* One file gets new metadata, which leaves finitely many dirty.
LEMMA MetaOne ==
  ASSUME MetaOK, NEW h \in Handle, NEW m \in {"dirty", "clean", "broken"}, meta' = [meta EXCEPT ![h] = m]
  PROVE  /\ meta' \in [Handle -> {"dirty", "clean", "broken"}] /\ meta'[h] = m
         /\ \A x \in Handle : x # h => meta'[x] = meta[x]
         /\ IsFiniteSet({x \in Handle : meta'[x] = "dirty"})
  <1> DEFINE D == {x \in Handle : meta[x] = "dirty"}
             E == {x \in Handle : meta'[x] = "dirty"}
  <1>1. /\ meta' \in [Handle -> {"dirty", "clean", "broken"}] /\ meta'[h] = m
        /\ \A x \in Handle : x # h => meta'[x] = meta[x]
    BY DEF MetaOK
  <1>2. E \in SUBSET (D \cup {h})
    BY <1>1
  <1>3. IsFiniteSet(D \cup {h})
    <2>1. IsFiniteSet(D)
      BY DEF MetaOK
    <2> HIDE DEF D
    <2>2. QED
      BY <2>1, FS_AddElement
  <1>4. IsFiniteSet(E)
    <2> HIDE DEF D, E
    <2>1. QED
      BY <1>2, <1>3, FS_Subset
  <1>5. QED
    BY <1>1, <1>4

\* _save writes what the item says, or is known to have failed.
LEMMA MetaSaved ==
  ASSUME MetaOK, NEW h \in Handle, NEW d \in BOOLEAN, TrySave(h, d), dirty'[h] = d,
         \A x \in Handle : x # h => dirty'[x] = dirty[x]
  PROVE  MetaOK'
  <1>1. CASE Written(h, d)
    <2>1. meta' = [meta EXCEPT ![h] = Flag(d)] /\ unsaved' = unsaved \ {h} /\ Flag(d) \in {"dirty", "clean", "broken"}
      BY <1>1 DEF Written, Flag
    <2>2. /\ meta' \in [Handle -> {"dirty", "clean", "broken"}] /\ meta'[h] = Flag(d)
          /\ \A x \in Handle : x # h => meta'[x] = meta[x]
          /\ IsFiniteSet({x \in Handle : meta'[x] = "dirty"})
      BY <2>1, MetaOne
    <2>3. \A x \in Handle : x \notin unsaved' => meta'[x] = Flag(dirty'[x])
      BY <2>1, <2>2 DEF MetaOK
    <2>4. QED
      BY <2>2, <2>3 DEF MetaOK
  <1>2. CASE meta' = meta /\ unsaved' = unsaved \cup {h}
    BY <1>2 DEF MetaOK
  <1>3. CASE meta' = [meta EXCEPT ![h] = "broken"] /\ unsaved' = unsaved \cup {h}
    <2>1. /\ meta' \in [Handle -> {"dirty", "clean", "broken"}]
          /\ \A x \in Handle : x # h => meta'[x] = meta[x]
          /\ IsFiniteSet({x \in Handle : meta'[x] = "dirty"})
      BY <1>3, MetaOne
    <2>2. \A x \in Handle : x \notin unsaved' => meta'[x] = Flag(dirty'[x])
      BY <1>3, <2>1 DEF MetaOK
    <2>3. QED
      BY <2>1, <2>2 DEF MetaOK
  <1>4. QED
    BY <1>1, <1>2, <1>3 DEF TrySave

LEMMA MetaBegins ==
  ASSUME CInv, MetaOK, NEW t \in Thread, Begins(t)
  PROVE  MetaOK'
  <1>1. ASSUME NEW h \in Handle, Open(t, h) PROVE MetaOK'
    <2>1. dirty' = dirty /\ dirty[h] \in BOOLEAN
      BY <1>1, CTypes DEF Open
    <2>2. CASE UNCHANGED <<meta, unsaved>>
      BY <2>1, <2>2, MetaStill
    <2>3. CASE Written(h, dirty[h])
      BY <2>1, <2>3, MetaSaved DEF TrySave
    <2>4. QED
      BY <1>1, <2>2, <2>3 DEF Open
  <1>2. ASSUME NEW h \in Handle, OpenFails(t, h) PROVE MetaOK'
    BY <1>2, MetaStill DEF OpenFails
  <1>3. CASE WriteAt(t) \/ CloseShared(t) \/ CloseClean(t) \/ CloseDirty(t)
    BY <1>3, MetaStill DEF WriteAt, CloseShared, CloseClean, CloseDirty
  <1>4. QED
    BY <1>1, <1>2, <1>3 DEF Begins

\* A thread that is in an operation has a file.
LEMMA HasFile ==
  ASSUME CInv, NEW t \in Thread, at[t] # "idle"
  PROVE  fh[t] \in Handle /\ fh[t] # 0
  BY CTypes DEF CInv, ThreadsOK

LEMMA MetaWorking ==
  ASSUME CInv, MetaOK, NEW t \in Thread, Working(t)
  PROVE  MetaOK'
  <1>1. CASE DirtyFirst(t) \/ Unqueue(t) \/ Discard(t) \/ CloseFails(t) \/ CloseEnd(t)
    BY <1>1, MetaStill DEF DirtyFirst, Unqueue, Discard, CloseFails, CloseEnd
  <1>2. CASE \E name \in Name : CloseAdd(t, name)
    BY <1>2, MetaStill DEF CloseAdd
  <1>3. CASE UNCHANGED itemVars
    BY <1>3, MetaStill DEF itemVars
  <1>4. CASE MarkDirty(t)
    <2>1. fh[t] \in Handle
      BY <1>4, HasFile DEF MarkDirty, MayMark
    <2>2. dirty' = [dirty EXCEPT ![fh[t]] = TRUE]
          /\ IF dirty[fh[t]] THEN UNCHANGED <<meta, unsaved>> ELSE TrySave(fh[t], TRUE)
      BY <1>4 DEF MarkDirty
    <2>3. CASE dirty[fh[t]]
      <3>1. dirty' = dirty
        BY <2>1, <2>2, <2>3, CTypes
      <3>2. QED
        BY <2>2, <2>3, <3>1, MetaStill
    <2>4. CASE ~dirty[fh[t]]
      <3>1. dirty'[fh[t]] = TRUE /\ \A x \in Handle : x # fh[t] => dirty'[x] = dirty[x]
        BY <2>1, <2>2, CTypes
      <3>2. QED
        BY <2>1, <2>2, <2>4, <3>1, MetaSaved
    <2>5. QED
      BY <2>3, <2>4
  <1>5. CASE CloseFd(t)
    <2>1. fh[t] \in Handle
      BY <1>5, HasFile DEF CloseFd
    <2>2. dirty' = dirty /\ TrySave(fh[t], dirty[fh[t]]) /\ dirty[fh[t]] \in BOOLEAN
      BY <1>5, <2>1, CTypes DEF CloseFd
    <2>3. QED
      BY <2>1, <2>2, MetaSaved
  <1>6. CASE Discarded(t)
    <2>1. fh[t] \in Handle
      BY <1>6, HasFile DEF Discarded
    <2>2. dirty' = [dirty EXCEPT ![fh[t]] = FALSE] /\ TrySave(fh[t], FALSE)
      BY <1>6 DEF Discarded, TrySave
    <2>3. dirty'[fh[t]] = FALSE /\ \A x \in Handle : x # fh[t] => dirty'[x] = dirty[x]
      BY <2>1, <2>2, CTypes
    <2>4. QED
      BY <2>1, <2>2, <2>3, MetaSaved
  <1>7. QED
    BY <1>1, <1>2, <1>3, <1>4, <1>5, <1>6 DEF Working

LEMMA MetaGrace ==
  ASSUME CInv, MetaOK, NEW h \in Handle, GraceEnds(h)
  PROVE  MetaOK'
  <1>1. dirty' = dirty /\ TrySave(h, FALSE) /\ dirty[h] = FALSE
    BY CTypes DEF GraceEnds
  <1>2. QED
    BY <1>1, MetaSaved

LEMMA MetaStore ==
  ASSUME CInv, MetaOK, NEW g \in goros, Store(g)
  PROVE  MetaOK'
  <1>1. CASE StoreClean(g)
    <2>1. items[g.item].id \in Handle
      BY GoroFacts
    <2>2. dirty' = [dirty EXCEPT ![items[g.item].id] = FALSE] /\ TrySave(items[g.item].id, FALSE)
      BY <1>1 DEF StoreClean
    <2>3. /\ dirty'[items[g.item].id] = FALSE
          /\ \A x \in Handle : x # items[g.item].id => dirty'[x] = dirty[x]
      BY <2>1, <2>2, CTypes
    <2>4. QED
      BY <2>1, <2>2, <2>3, MetaSaved
  <1>2. CASE CopyRead(g) \/ CopyDone(g) \/ StoreReturns(g) \/ StoreEmpty(g) \/ StoreFails(g)
    BY <1>2, MetaStill DEF CopyRead, CopyDone, StoreReturns, StoreEmpty, StoreFails
  <1>3. QED
    BY <1>1, <1>2 DEF Store

LEMMA MetaCrash ==
  ASSUME MetaOK, Crash
  PROVE  MetaOK'
  <1>1. PICK torn \in SUBSET Handle, stuck \in SUBSET Handle : Restart(torn, stuck)
    BY DEF Crash
  <1>2. /\ dirty' = [h \in Handle |-> meta[h] = "dirty" /\ h \notin torn]
        /\ meta' = [h \in Handle |-> Flag(dirty'[h])]
    BY <1>1 DEF Restart
  <1>3. \A h \in Handle : meta'[h] = Flag(dirty'[h]) /\ (dirty'[h] => meta[h] = "dirty")
    BY <1>2
  <1>4. meta' \in [Handle -> {"dirty", "clean", "broken"}]
    BY <1>2 DEF Flag
  <1> DEFINE D == {h \in Handle : meta[h] = "dirty"}
             E == {h \in Handle : meta'[h] = "dirty"}
  <1>5. E \in SUBSET D /\ IsFiniteSet(D)
    BY <1>3 DEF Flag, MetaOK
  <1>6. IsFiniteSet(E)
    <2> HIDE DEF D, E
    <2>1. QED
      BY <1>5, FS_Subset
  <1>7. QED
    BY <1>3, <1>4, <1>6 DEF MetaOK

-----------------------------------------------------------------------------
(* A file about to be removed *)

\* No file comes back into the queue, and no thread begins to remove one.
LEMMA GoneStill ==
  ASSUME CInv, Gone,
         \A h \in Handle : lookup'[h] \in {0, lookup[h]},
         \A t \in Thread : at'[t] = "discarding" => at[t] = "discarding" /\ fh'[t] = fh[t],
         \A t \in Thread : at[t] = "discarding" => calls'[t].op = calls[t].op \/ lookup'[fh[t]] = 0
  PROVE  Gone'
  <1>1. SUFFICES ASSUME NEW t \in Thread, at'[t] = "discarding", Idle(t)' PROVE lookup'[fh'[t]] = 0
    BY DEF Gone
  <1>2. at[t] = "discarding" /\ fh'[t] = fh[t] /\ fh[t] \in Handle
    BY <1>1, HasFile
  <1>3. CASE lookup'[fh[t]] = 0
    BY <1>2, <1>3
  <1>4. CASE calls'[t].op = calls[t].op
    <2>1. lookup[fh[t]] = 0
      BY <1>1, <1>2, <1>4 DEF Gone, Idle
    <2>2. QED
      BY <1>2, <2>1
  <1>5. QED
    BY <1>2, <1>3, <1>4

\* The queue is left alone.
LEMMA GoneAlone ==
  ASSUME CInv, Gone, UNCHANGED <<lookup, calls>>,
         \A t \in Thread : at'[t] = "discarding" => at[t] = "discarding" /\ fh'[t] = fh[t]
  PROVE  Gone'
  BY GoneStill

LEMMA GoneBegins ==
  ASSUME CInv, Gone, NEW t \in Thread, Begins(t)
  PROVE  Gone'
  <1>1. UNCHANGED vars /\ at[t] = "idle"
    BY DEF Begins, Open, OpenFails, WriteAt, CloseShared, CloseClean, CloseDirty
  <1>2. UNCHANGED <<lookup, calls>>
    BY <1>1 DEF vars
  <1>3. \A u \in Thread : u # t => at'[u] = at[u] /\ fh'[u] = fh[u]
    BY CTypes DEF Begins, Open, OpenFails, WriteAt, CloseShared, CloseClean, CloseDirty, Leave, Go
  <1>4. at'[t] # "discarding"
    BY <1>1, CTypes DEF Begins, Open, OpenFails, WriteAt, CloseShared, CloseClean, CloseDirty, Leave, Go
  <1>5. QED
    BY <1>2, <1>3, <1>4, GoneAlone

\* What Remove leaves of the file it is called for.
LEMMA GoneRemove ==
  ASSUME CInv, NEW t \in Thread, fh[t] \in Handle, Remove(t, fh[t])
  PROVE  /\ \A h \in Handle : lookup'[h] \in {0, lookup[h]}
         /\ \A u \in Thread : u # t => calls'[u] = calls[u]
         /\ calls'[t].op = "none" => calls[t].op # "none" \/ lookup'[fh[t]] = 0
  <1>1. CASE Cancel(t, [op |-> "remove", victim |-> lookup[fh[t]], done |-> 0]) /\ lookup' = lookup
    BY <1>1, QueueFacts DEF Cancel
  <1>2. CASE /\ lookup' = (IF lookup[fh[t]] = 0 THEN lookup ELSE Forget(lookup[fh[t]]))
             /\ UNCHANGED calls
    BY <1>2, QueueFacts DEF Forget
  <1>3. QED
    BY <1>1, <1>2 DEF Remove, Cancel

LEMMA GoneWorking ==
  ASSUME CInv, Gone, NEW t \in Thread, Working(t)
  PROVE  Gone'
  <1>1. CASE DirtyFirst(t) \/ MarkDirty(t) \/ Discarded(t) \/ CloseFails(t) \/ CloseFd(t) \/ CloseEnd(t)
    <2>1. UNCHANGED vars
      BY <1>1 DEF DirtyFirst, MarkDirty, Discarded, CloseFails, CloseFd, CloseEnd
    <2>2. UNCHANGED <<lookup, calls>>
      BY <2>1 DEF vars
    <2>3. \A u \in Thread : u # t => at'[u] = at[u] /\ fh'[u] = fh[u]
      BY <1>1, CTypes DEF DirtyFirst, MarkDirty, Discarded, CloseFails, CloseFd, CloseEnd, Closed, Leave, Go
    <2>4. at'[t] # "discarding"
      BY <1>1, CTypes DEF DirtyFirst, MarkDirty, Discarded, CloseFails, CloseFd, CloseEnd, Closed, Leave, Go
    <2>5. QED
      BY <2>2, <2>3, <2>4, GoneAlone
  <1>2. CASE Unqueue(t)
    <2>1. at[t] = "unqueue" /\ Remove(t, fh[t]) /\ fh' = fh /\ at' = [at EXCEPT ![t] = "unqueued"]
      BY <1>2 DEF Unqueue, Go
    <2>2. fh[t] \in Handle
      BY <2>1, HasFile
    <2>3. \A u \in Thread : at'[u] = IF u = t THEN "unqueued" ELSE at[u]
      BY <2>1, CTypes
    <2>4. /\ \A h \in Handle : lookup'[h] \in {0, lookup[h]}
          /\ \A u \in Thread : u # t => calls'[u] = calls[u]
      BY <2>1, <2>2, GoneRemove
    <2>5. QED
      BY <2>1, <2>3, <2>4, GoneStill
  <1>3. CASE Discard(t)
    <2>1. at[t] = "discard" /\ Remove(t, fh[t]) /\ fh' = fh /\ at' = [at EXCEPT ![t] = "discarding"]
      BY <1>3 DEF Discard, Go
    <2>2. fh[t] \in Handle /\ calls[t].op = "none"
      BY <2>1, HasFile, ClosingIdle
    <2>3. \A u \in Thread : at'[u] = IF u = t THEN "discarding" ELSE at[u]
      BY <2>1, CTypes
    <2>4. /\ \A h \in Handle : lookup'[h] \in {0, lookup[h]}
          /\ \A u \in Thread : u # t => calls'[u] = calls[u]
          /\ calls'[t].op = "none" => lookup'[fh[t]] = 0
      BY <2>1, <2>2, GoneRemove
    <2>5. ASSUME NEW u \in Thread, at'[u] = "discarding", calls'[u].op = "none" PROVE lookup'[fh[u]] = 0
      <3>1. CASE u = t
        BY <2>4, <2>5, <3>1
      <3>2. CASE u # t
        <4>1. at[u] = "discarding" /\ calls[u].op = "none"
          BY <2>3, <2>4, <2>5, <3>2
        <4>2. lookup[fh[u]] = 0 /\ fh[u] \in Handle
          BY <4>1, HasFile DEF Gone, Idle
        <4>3. QED
          BY <2>4, <4>2
      <3>3. QED
        BY <3>1, <3>2
    <2>6. QED
      BY <2>1, <2>5 DEF Gone, Idle
  <1>4. ASSUME NEW name \in Name, CloseAdd(t, name) PROVE Gone'
    <2>1. /\ at[t] = "queueing" /\ Add(t, fh[t], name, modified[fh[t]]) /\ fh' = fh
          /\ at' = [at EXCEPT ![t] = "queued"]
      BY <1>4 DEF CloseAdd, Go
    <2>2. fh[t] \in Handle /\ fh[t] # 0
      BY <2>1, HasFile
    <2>3. \A u \in Thread : at'[u] = IF u = t THEN "queued" ELSE at[u]
      BY <2>1, CTypes
    <2>4. /\ \A h \in Handle : h # fh[t] => lookup'[h] = lookup[h]
          /\ \A u \in Thread : u # t => calls'[u] = calls[u]
      BY <2>1, <2>2, QueueFacts DEF Add, Kick, Return, Cancel
    <2>5. ASSUME NEW u \in Thread, at'[u] = "discarding", calls'[u].op = "none" PROVE lookup'[fh[u]] = 0
      <3>1. u # t /\ at[u] = "discarding" /\ calls[u].op = "none"
        BY <2>3, <2>4, <2>5
      <3>2. lookup[fh[u]] = 0 /\ fh[u] \in Handle
        BY <3>1, HasFile DEF Gone, Idle
      <3>3. fh[u] # fh[t]
        BY <2>1, <2>2, <3>1 DEF CInv, ThreadsOK, Exclusive
      <3>4. QED
        BY <2>4, <3>2, <3>3
    <2>6. QED
      BY <2>1, <2>5 DEF Gone, Idle
  <1>5. CASE ReadDone(t) /\ UNCHANGED itemVars
    <2>1. /\ calls' = [calls EXCEPT ![t].done = items[calls[t].victim].gen] /\ lookup' = lookup
          /\ calls[t].op # "none"
      BY <1>5 DEF ReadDone, Idle
    <2>2. calls[t] \in WaitRec(DOMAIN items) /\ calls \in [Thread -> CallRec(DOMAIN items)]
      BY <2>1, QueueFacts
    <2>3. \A u \in Thread : calls'[u].op = calls[u].op
      BY <2>1, <2>2 DEF WaitRec
    <2>4. QED
      BY <1>5, <2>1, <2>3, GoneStill DEF itemVars
  <1>6. CASE RemoveResume(t) /\ UNCHANGED itemVars
    <2>1. /\ calls[t].op # "none" /\ calls' = [calls EXCEPT ![t] = NoCall] /\ lookup' = Forget(calls[t].victim)
      BY <1>6 DEF RemoveResume, Waited, Return
    <2>2. items[calls[t].victim].id = fh[t] /\ at[t] # "idle"
      BY <2>1 DEF CInv, WaitOK, Waits
    <2>3. fh[t] \in Handle
      BY <2>2, HasFile
    <2>4. \A h \in Handle : lookup'[h] = IF h = fh[t] THEN 0 ELSE lookup[h]
      BY <2>1, <2>2, QueueFacts DEF Forget
    <2>5. \A u \in Thread : u # t => calls'[u] = calls[u]
      BY <2>1, QueueFacts
    <2>6. QED
      BY <1>6, <2>3, <2>4, <2>5, GoneStill DEF itemVars
  <1>7. QED
    BY <1>1, <1>2, <1>3, <1>4, <1>5, <1>6, AddNeverWaits DEF Working

LEMMA GoneStore ==
  ASSUME CInv, Gone, NEW g \in goros, Store(g)
  PROVE  Gone'
  <1>1. UNCHANGED <<at, fh>>
    BY DEF Store, CopyRead, CopyDone, StoreClean, StoreReturns, StoreEmpty, StoreFails
  <1>2. CASE CopyRead(g) \/ CopyDone(g) \/ StoreClean(g)
    <2>1. UNCHANGED vars
      BY <1>2 DEF CopyRead, CopyDone, StoreClean
    <2>2. UNCHANGED <<lookup, calls>>
      BY <2>1 DEF vars
    <2>3. QED
      BY <1>1, <2>2, GoneAlone
  <1>3. CASE StoreReturns(g) \/ StoreEmpty(g) \/ StoreFails(g)
    <2>1. PICK err \in {"none", "cancelled", "failed"} : UploadEnds(g, err)
      BY <1>3 DEF StoreReturns, StoreEmpty, StoreFails, Succeed, Cancelled, Fail
    <2>2. lookup' = (IF err = "none" THEN Forget(g.item) ELSE lookup) /\ calls' = calls
      BY <2>1 DEF UploadEnds, CloseDone
    <2>3. \A h \in Handle : lookup'[h] \in {0, lookup[h]}
      BY <2>2, QueueFacts DEF Forget
    <2>4. QED
      BY <1>1, <2>2, <2>3, GoneStill
  <1>4. QED
    BY <1>2, <1>3 DEF Store

-----------------------------------------------------------------------------
(* The invariant *)

LEMMA CInitInv == CacheInit => OInv
  <1> SUFFICES ASSUME CacheInit PROVE CInv /\ MetaOK /\ Gone
    BY DEF OInv
  <1>1. IInv /\ items = <<>> /\ goros = {} /\ closed = {} /\ ~panicked /\ calls = [t \in Thread |-> NoCall]
        /\ lookup = [h \in Handle |-> 0]
    BY InitIInv DEF CacheInit, Init
  <1>2. MetaOK
    <2>1. meta = [h \in Handle |-> "clean"] /\ dirty = [h \in Handle |-> FALSE]
      BY DEF CacheInit
    <2>2. {h \in Handle : meta[h] = "dirty"} = {}
      BY <2>1
    <2>3. QED
      BY <2>1, <2>2, FS_EmptySet DEF MetaOK, Flag
  <1>3. ItemsTyped
    <2>1. 0 \in 0..MaxWrites /\ 0 \in Nat
      BY CacheAssumption
    <2>2. QED
      BY <2>1 DEF CacheInit, ItemsTyped, Places
  <1>4. LiveOK /\ WaitOK
    BY <1>1 DEF LiveOK, WaitOK, NoCall
  <1>5. ThreadsOK /\ Gone
    BY DEF CacheInit, ThreadsOK, Exclusive, Removing, Gone
  <1>6. OpenOK /\ OffQueue /\ StoresOK
    BY DEF CacheInit, OpenOK, OffQueue, StoresOK
  <1>7. Kept
    BY DEF CacheInit, Kept, Due
  <1>8. QED
    BY <1>1, <1>2, <1>3, <1>4, <1>5, <1>6, <1>7 DEF CInv

LEMMA CacheStill ==
  ASSUME CInv, MetaOK, Gone, UNCHANGED cvars
  PROVE  CInv' /\ MetaOK' /\ Gone'
  <1>1. UNCHANGED vars /\ UNCHANGED itemVars
    BY DEF cvars
  <1>2. UNCHANGED <<items, lookup, goros, closed, calls, panicked>>
    BY <1>1 DEF vars
  <1>3. UNCHANGED <<cached, remote, dirty, meta, modified, fd, grace, fh, at, stores, wrote, saved, unsaved, skipped>>
    BY <1>1 DEF itemVars
  <1>4. IInv' /\ LiveOK'
    BY <1>1, QueueStill
  <1>5. WaitOK'
    BY <1>1, <1>3, WaitStill
  <1>6. \A s \in stores' : /\ items'[s.item].id = items[s.item].id
                           /\ \E g \in goros' : g.item = s.item /\ g.gen = s.gen
    BY <1>2, <1>3 DEF CInv, StoresOK
  <1>7. CInv'
    BY <1>2, <1>3, <1>4, <1>5, <1>6, QueueAlone
  <1>8. MetaOK' /\ Gone'
    BY <1>2, <1>3, MetaStill, GoneAlone
  <1>9. QED
    BY <1>7, <1>8

\* A thread has been overtaken for good.
LEMMA OvertakenStays ==
  ASSUME [CacheNext]_cvars, overtaken
  PROVE  overtaken'
  <1>1. ASSUME NEW t \in Thread, Begins(t) PROVE overtaken'
    BY <1>1 DEF Begins, Open, OpenFails, WriteAt, CloseShared, CloseClean, CloseDirty
  <1>2. ASSUME NEW t \in Thread, Working(t) PROVE overtaken'
    BY <1>2 DEF Working, DirtyFirst, Unqueue, MarkDirty, Discard, Discarded, CloseFails, CloseFd, CloseEnd, CloseAdd
  <1>3. ASSUME NEW h \in Handle, GraceEnds(h) PROVE overtaken'
    BY <1>3 DEF GraceEnds
  <1>4. ASSUME NEW g \in goros, Store(g) PROVE overtaken'
    BY <1>4 DEF Store, CopyRead, CopyDone, StoreClean, StoreReturns, StoreEmpty, StoreFails
  <1>5. CASE Queue
    BY <1>5 DEF Queue
  <1>6. CASE Crash
    BY <1>6 DEF Crash, Restart
  <1>7. CASE UNCHANGED cvars
    BY <1>7 DEF cvars
  <1>8. QED
    BY <1>1, <1>2, <1>3, <1>4, <1>5, <1>6, <1>7 DEF CacheNext

LEMMA CNextInv == OInv /\ [CacheNext]_cvars => OInv'
  <1> SUFFICES ASSUME CInv, MetaOK, Gone, [CacheNext]_cvars, ~overtaken' PROVE CInv' /\ MetaOK' /\ Gone'
    BY OvertakenStays DEF OInv
  <1>1. ASSUME NEW t \in Thread, Begins(t) PROVE CInv' /\ MetaOK' /\ Gone'
    <2>1. CInv'
      BY <1>1, OpenStep, OpenFailsStep, WriteAtStep, CloseSharedStep, CloseCleanStep, CloseDirtyStep DEF Begins
    <2>2. QED
      BY <1>1, <2>1, MetaBegins, GoneBegins
  <1>2. ASSUME NEW t \in Thread, Working(t) PROVE CInv' /\ MetaOK' /\ Gone'
    <2>1. CASE DirtyFirst(t) \/ Unqueue(t) \/ MarkDirty(t) \/ Discard(t) \/ Discarded(t)
      BY <2>1, DirtyFirstStep, UnqueueStep, MarkDirtyStep, DiscardStep, DiscardedStep, MetaWorking, GoneWorking DEF Working
    <2>2. CASE CloseFails(t) \/ CloseFd(t) \/ CloseEnd(t) \/ \E name \in Name : CloseAdd(t, name)
      BY <2>2, CloseFailsStep, CloseFdStep, CloseEndStep, CloseAddStep, MetaWorking, GoneWorking DEF Working
    <2>3. CASE (ReadDone(t) \/ AddResume(t) \/ RemoveResume(t)) /\ UNCHANGED <<itemVars, overtaken>>
      BY <2>3, ReadDoneKeeps, AddNeverWaits, RemoveResumeKeeps, MetaWorking, GoneWorking DEF Working
    <2>4. QED
      BY <1>2, <2>1, <2>2, <2>3 DEF Working
  <1>3. ASSUME NEW h \in Handle, GraceEnds(h) PROVE CInv' /\ MetaOK' /\ Gone'
    <2>1. UNCHANGED <<lookup, calls, at, fh>>
      BY <1>3 DEF GraceEnds, vars
    <2>2. QED
      BY <1>3, <2>1, GraceEndsStep, MetaGrace, GoneAlone
  <1>4. ASSUME NEW g \in goros, Store(g) PROVE CInv' /\ MetaOK' /\ Gone'
    <2>1. CInv'
      BY <1>4, CopyReadStep, CopyDoneStep, StoreCleanStep, StoreReturnsStep, StoreEmptyStep, StoreFailsStep DEF Store
    <2>2. QED
      BY <1>4, <2>1, MetaStore, GoneStore
  <1>5. CASE Queue
    <2>1. UNCHANGED itemVars /\ UNCHANGED <<lookup, calls>> /\ UNCHANGED <<meta, unsaved, dirty, at, fh>>
      BY <1>5 DEF Queue, itemVars, Tick, TimerFires, Process
    <2>2. CInv'
      BY <1>5, <2>1, TickKeeps, TimerFiresKeeps, ProcessKeeps DEF Queue
    <2>3. QED
      BY <2>1, <2>2, MetaStill, GoneAlone
  <1>6. CASE Crash
    <2>1. Gone'
      BY <1>6 DEF Crash, Restart, Gone
    <2>2. QED
      BY <1>6, <2>1, CrashStep, MetaCrash
  <1>7. CASE UNCHANGED cvars
    BY <1>7, CacheStill
  <1>8. QED
    BY <1>1, <1>2, <1>3, <1>4, <1>5, <1>6, <1>7 DEF CacheNext

LEMMA CacheInvariant == CacheSpec => []OInv
  BY CInitInv, CNextInv, PTL DEF CacheSpec

-----------------------------------------------------------------------------

\* Type correctness of the cache items until the queue's delay overtakes a
\* thread: an upload in item.store is an upload of the queue, and a file kept
\* open by a grace period is clean and has no handle, for every number of files,
\* threads, writes and crashes and whatever of the modelled faults happens.
THEOREM CacheTyped == CacheSpec => [](~overtaken => CacheTypeOK)
  <1>1. OInv => (~overtaken => CacheTypeOK)
    <2> SUFFICES ASSUME CInv, MetaOK PROVE CacheTypeOK
      BY DEF OInv
    <2>1. remote \in [Handle -> 0..MaxWrites]
      <3>1. \A h \in Handle : remote[h] \in Nat /\ cached[h] \in 0..MaxWrites /\ remote[h] <= cached[h]
        BY DEF CInv, ItemsTyped, Kept
      <3>2. \A h \in Handle : remote[h] \in 0..MaxWrites
        BY <3>1, CacheAssumption
      <3>3. QED
        BY <3>2, CTypes
    <2>2. \A h \in Handle : grace[h] => fd[h] /\ Opens(h) = {} /\ ~dirty[h]
      BY DEF CInv, OpenOK, Opens
    <2>3. QED
      BY <2>1, <2>2 DEF CacheTypeOK, CInv, ItemsTyped, StoresOK, MetaOK
  <1>2. QED
    BY <1>1, CacheInvariant, PTL

\* What was closed and is not on the remote is marked dirty, and its metadata
\* says so unless writing that has failed, whatever uploads run, are cancelled
\* or end while the file is written to again, whenever the process dies, and
\* whether or not it dies while it writes metadata (item.store, item._dirty,
\* item._save, item.reload); except if the queue's delay has overtaken a thread.
THEOREM ClosedIsNeverLost == CacheSpec => []ClosedSurvives
  <1>1. OInv => ClosedSurvives
    <2> SUFFICES ASSUME CInv, MetaOK, NEW h \in Handle, remote[h] < saved[h]
                 PROVE  dirty[h] /\ (meta[h] = "dirty" \/ h \in unsaved)
      BY DEF ClosedSurvives, OInv
    <2>1. remote[h] < Due(h)
      BY DueType, CTypes
    <2>2. dirty[h]
      BY <2>1 DEF CInv, Kept
    <2>3. QED
      BY <2>2 DEF MetaOK, Flag
  <1>2. QED
    BY <1>1, CacheInvariant, PTL

\* A dirty file nobody has open is in the queue, on the heap or in an upload,
\* unless the remote has refused it as empty or it could not be closed: no
\* interleaving of Close, the first write after it, the end of an upload and a
\* failing Open leaves it behind; except if the queue's delay has overtaken a thread.
THEOREM DirtyStaysQueued == CacheSpec => []DirtyIsQueued
  <1>1. OInv => DirtyIsQueued
    <2> SUFFICES ASSUME CInv, NEW h \in Handle, dirty[h], h \notin skipped, \A t \in Thread : fh[t] # h
                 PROVE  lookup[h] # 0 /\ (items[lookup[h]].onHeap \/ items[lookup[h]].uploading)
      BY DEF DirtyIsQueued, OInv
    <2>1. lookup[h] # 0
      BY DEF CInv, Kept
    <2>2. QED
      BY <2>1 DEF CInv, IInv, Found
  <1>2. QED
    BY <1>1, CacheInvariant, PTL

\* While no file is renamed and no thread is overtaken, upload() never closes a
\* done channel twice (writeback.go: close(wbItem.done)), so the process does not
\* panic.
THEOREM ChannelClosedOnce == CacheSpec => [](~overtaken => ~panicked)
  <1>1. OInv => (~overtaken => ~panicked)
    BY DEF OInv, CInv, LiveOK
  <1>2. QED
    BY <1>1, CacheInvariant, PTL

=============================================================================
