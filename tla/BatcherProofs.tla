---------------------------- MODULE BatcherProofs ----------------------------
(***************************************************************************)
(* Proofs about the batcher for every batch size and any number of calls   *)
(* of Commit and Shutdown.                                                 *)
(***************************************************************************)
EXTENDS Batcher, FiniteSetTheorems, TLAPS

-----------------------------------------------------------------------------
(* The inductive invariant *)

InChannel(i) == \E k \in DOMAIN in : in[k] = i
InBatch(i) == \E k \in DOMAIN requests : requests[k] = i

\* admitMu is held by the Commit or the Shutdown that is past it.
LockHeld ==
  /\ \A i \in Item : client[i] = "locked" => mu = i
  /\ \A s \in Closer : closer[s] = "sending" => mu = s

\* sync.Once: one Shutdown does the work, and when one has returned no other does.
OneShutdown ==
  /\ \A s, r \in First : s = r
  /\ (\E s \in Closer : closer[s] = "returned") => First = {}

\* The quit request has been sent.
QuitSent == \E s \in Closer : closer[s] \in {"waiting", "returned"}

\* Nothing is sent after quit, and the loop leaves only when it has taken it.
QuitIsLast ==
  /\ QuitSent \/ (\E s \in Closer : closer[s] = "sending") => closed
  /\ \A k \in DOMAIN in : in[k] = NoOne => QuitSent /\ k = Len(in)
  /\ loop \in {"last", "tellLast", "exited"} => QuitSent /\ in = <<>>
  /\ (\E s \in Closer : closer[s] = "returned") => loop = "exited"

\* The batch at each place of commitLoop.
BatchAt ==
  /\ loop = "select" => Len(requests) < Size
  /\ loop \in {"commit", "last"} => requests # <<>>
  /\ loop \in {"tell", "tellLast", "exited"} => requests = <<>>
  /\ loop \notin {"tell", "tellLast"} => sends = <<>>

\* No item is in the channel or in the batch twice, or in both.
Distinct ==
  /\ \A j, k \in DOMAIN in : in[j] = in[k] => j = k
  /\ \A j, k \in DOMAIN requests : requests[j] = requests[k] => j = k
  /\ \A j \in DOMAIN in, k \in DOMAIN requests : in[j] # requests[k]

\* An item has a place from when it is accepted until the backend has had it.
Placed ==
  \A i \in Item : (InChannel(i) \/ InBatch(i)) <=> (Accepted(i) /\ outcome[i] = "none")

\* What is sent to a client, waits in its channel or was received is what became
\* of its own item.
Told ==
  /\ \A k \in DOMAIN sends : sends[k].result = outcome[sends[k].item]
  /\ \A i \in Item : answer[i] # "none" => answer[i] = outcome[i]
  /\ \A i \in Item : ~async /\ client[i] = "returned" => got[i] = outcome[i] /\ outcome[i] # "none"

\* The backend has only had items that were accepted.
OnlyAccepted == \A i \in Item : outcome[i] # "none" => Accepted(i)

IInv ==
  /\ TypeOK /\ LockHeld /\ OneShutdown /\ QuitIsLast /\ BatchAt
  /\ Distinct /\ Placed /\ OnlyAccepted /\ Told

-----------------------------------------------------------------------------
(* Facts about the parts *)

\* What appending one element does to the elements of a sequence.
LEMMA AppendFacts ==
  ASSUME NEW S, NEW q \in Seq(S), NEW e \in S
  PROVE  /\ Append(q, e) \in Seq(S) /\ Len(Append(q, e)) = Len(q) + 1
         /\ DOMAIN Append(q, e) = DOMAIN q \cup {Len(q) + 1}
         /\ Len(q) + 1 \notin DOMAIN q
         /\ \A k \in DOMAIN q : Append(q, e)[k] = q[k]
         /\ Append(q, e)[Len(q) + 1] = e
  OBVIOUS

\* What taking the head does to the elements of a sequence.
LEMMA TailFacts ==
  ASSUME NEW S, NEW q \in Seq(S), q # <<>>
  PROVE  /\ Tail(q) \in Seq(S) /\ Len(Tail(q)) = Len(q) - 1 /\ Len(q) \in Nat \ {0}
         /\ Head(q) \in S /\ Head(q) = q[1] /\ 1 \in DOMAIN q
         /\ \A k \in DOMAIN Tail(q) : k + 1 \in DOMAIN q /\ Tail(q)[k] = q[k + 1]
         /\ \A k \in DOMAIN q \ {1} : k - 1 \in DOMAIN Tail(q) /\ Tail(q)[k - 1] = q[k]
  OBVIOUS

Places(q, e) == {k \in DOMAIN q : q[k] = e}

\* Two sequences have no place for an element iff they have no place in sum.
LEMMA NoPlaces ==
  ASSUME NEW S, NEW q \in Seq(S), NEW r \in Seq(S), NEW e
  PROVE  Cardinality(Places(q, e)) + Cardinality(Places(r, e)) = 0 <=> Places(q, e) = {} /\ Places(r, e) = {}
  <1>1. IsFiniteSet(1..Len(q)) /\ IsFiniteSet(1..Len(r))
    BY FS_Interval
  <1>2. Places(q, e) \subseteq 1..Len(q) /\ Places(r, e) \subseteq 1..Len(r)
    BY DEF Places
  <1>3. IsFiniteSet(Places(q, e)) /\ IsFiniteSet(Places(r, e))
    BY <1>1, <1>2, FS_Subset
  <1>4. /\ Cardinality(Places(q, e)) \in Nat /\ Cardinality(Places(r, e)) \in Nat
        /\ Cardinality(Places(q, e)) = 0 <=> Places(q, e) = {}
        /\ Cardinality(Places(r, e)) = 0 <=> Places(r, e) = {}
    BY <1>3, FS_CardinalityType, FS_EmptySet
  <1>5. QED
    BY <1>4

-----------------------------------------------------------------------------
(* Every action preserves the invariant *)

\* Commit takes the lock: no item moves, and the lock has one holder.
LEMMA LockStep == ASSUME IInv, NEW i \in Item, Lock(i) PROVE IInv'
  <1> USE BatcherAssumption DEF Lock, IInv
  <1>1. TypeOK'
    BY DEF TypeOK
  <1>2. LockHeld'
    BY DEF LockHeld, TypeOK
  <1>3. \A j \in Item : Accepted(j)' = Accepted(j)
    BY DEF Accepted, TypeOK
  <1>4. Placed' /\ OnlyAccepted'
    BY <1>3 DEF Placed, OnlyAccepted, InChannel, InBatch
  <1>5. OneShutdown' /\ QuitIsLast' /\ BatchAt' /\ Distinct' /\ Told'
    BY DEF OneShutdown, First, QuitIsLast, QuitSent, BatchAt, Distinct, Told, TypeOK
  <1>6. QED
    BY <1>1, <1>2, <1>4, <1>5

\* A Commit that finds b.closed leaves the item out of the channel for good.
LEMMA RefuseStep == ASSUME IInv, NEW i \in Item, Refuse(i) PROVE IInv'
  <1> USE BatcherAssumption DEF Refuse, IInv
  <1>1. TypeOK'
    BY DEF TypeOK
  <1>2. LockHeld'
    BY DEF LockHeld, TypeOK
  <1>3. \A j \in Item : Accepted(j)' = Accepted(j)
    BY DEF Accepted, TypeOK
  <1>4. Placed' /\ OnlyAccepted'
    BY <1>3 DEF Placed, OnlyAccepted, InChannel, InBatch
  <1>5. OneShutdown' /\ QuitIsLast' /\ BatchAt' /\ Distinct' /\ Told'
    BY DEF OneShutdown, First, QuitIsLast, QuitSent, BatchAt, Distinct, Told, TypeOK
  <1>6. QED
    BY <1>1, <1>2, <1>4, <1>5

\* An item is sent once, and before quit: b.closed is not closed.
LEMMA SendStep == ASSUME IInv, NEW i \in Item, Send(i) PROVE IInv'
  <1> USE BatcherAssumption DEF Send, IInv
  <1>a. in \in Seq(Item \cup {NoOne}) /\ i \in Item \cup {NoOne} /\ Len(in) < Size /\ Len(in) \in Nat
    BY DEF TypeOK, HasRoom
  <1>b. /\ in' \in Seq(Item \cup {NoOne}) /\ Len(in') = Len(in) + 1
        /\ DOMAIN in' = DOMAIN in \cup {Len(in) + 1} /\ Len(in) + 1 \notin DOMAIN in
        /\ \A k \in DOMAIN in : in'[k] = in[k]
        /\ in'[Len(in) + 1] = i
    BY <1>a, AppendFacts
  <1>1. TypeOK'
    BY <1>a, <1>b DEF TypeOK
  <1>2. LockHeld'
    BY DEF LockHeld, TypeOK
  <1>3. /\ ~Accepted(i) /\ Accepted(i)'
        /\ \A j \in Item \ {i} : Accepted(j)' = Accepted(j)
    BY DEF Accepted, TypeOK
  <1>4. outcome[i] = "none" /\ ~InChannel(i) /\ ~InBatch(i)
    BY <1>3 DEF Placed, OnlyAccepted
  <1>5. \A j \in Item : InChannel(j)' <=> (InChannel(j) \/ j = i)
    BY <1>b DEF InChannel
  <1>6. Placed' /\ OnlyAccepted'
    BY <1>3, <1>4, <1>5 DEF Placed, OnlyAccepted, InBatch
  <1>7. Distinct'
    BY <1>b, <1>4 DEF Distinct, InChannel, InBatch
  <1>8. QuitIsLast'
    <2>1. ~closed
      BY DEF Refused
    <2>2. ~QuitSent /\ \A s \in Closer : closer[s] # "sending"
      BY <2>1 DEF QuitIsLast
    <2>3. ~QuitSent'
      BY <2>2 DEF QuitSent
    <2>4. \A k \in DOMAIN in' : in'[k] # NoOne
      BY <2>2, <1>b DEF QuitIsLast
    <2>5. QED
      BY <2>2, <2>3, <2>4 DEF QuitIsLast
  <1>9. OneShutdown' /\ BatchAt'
    BY DEF OneShutdown, First, BatchAt
  <1>11. Told'
    BY DEF Told, TypeOK
  <1>10. QED
    BY <1>1, <1>2, <1>6, <1>7, <1>8, <1>9, <1>11

\* A synchronous Commit that reads its answer reads the outcome of its own item.
LEMMA ReceiveStep == ASSUME IInv, NEW i \in Item, Receive(i) PROVE IInv'
  <1> USE BatcherAssumption DEF Receive, IInv
  <1>1. TypeOK'
    BY DEF TypeOK
  <1>2. LockHeld'
    BY DEF LockHeld, TypeOK
  <1>3. \A j \in Item : Accepted(j)' = Accepted(j)
    BY DEF Accepted, TypeOK
  <1>4. Placed' /\ OnlyAccepted'
    BY <1>3 DEF Placed, OnlyAccepted, InChannel, InBatch
  <1>5. OneShutdown' /\ QuitIsLast' /\ BatchAt' /\ Distinct'
    BY DEF OneShutdown, First, QuitIsLast, QuitSent, BatchAt, Distinct
  <1>6. Told'
    <2>1. answer[i] = outcome[i] /\ outcome[i] # "none"
      BY DEF Told
    <2>2. QED
      BY <2>1 DEF Told, TypeOK
  <1>7. QED
    BY <1>1, <1>2, <1>4, <1>5, <1>6

\* An item moves from the channel to the batch, which has room for it.
LEMMA TakeStep == ASSUME IInv, Take PROVE IInv'
  <1> USE BatcherAssumption DEF Take, IInv
  <1> DEFINE i == Head(in)
  <1>a. in \in Seq(Item \cup {NoOne}) /\ in # <<>> /\ requests \in Seq(Item) /\ Len(requests) \in Nat
        /\ Len(requests) < Size /\ Len(in) <= Size
    BY DEF TypeOK, BatchAt
  <1>b. /\ in' \in Seq(Item \cup {NoOne}) /\ Len(in') = Len(in) - 1 /\ Len(in) \in Nat
        /\ i \in Item /\ i = in[1] /\ 1 \in DOMAIN in
        /\ \A k \in DOMAIN in' : k + 1 \in DOMAIN in /\ in'[k] = in[k + 1] /\ k \in Nat
        /\ \A k \in DOMAIN in \ {1} : k - 1 \in DOMAIN in' /\ in'[k - 1] = in[k]
    BY <1>a, TailFacts
  <1>c. /\ requests' \in Seq(Item) /\ Len(requests') = Len(requests) + 1
        /\ DOMAIN requests' = DOMAIN requests \cup {Len(requests) + 1} /\ Len(requests) + 1 \notin DOMAIN requests
        /\ \A k \in DOMAIN requests : requests'[k] = requests[k]
        /\ requests'[Len(requests) + 1] = i
    BY <1>a, <1>b, AppendFacts
  <1> HIDE DEF i
  <1>1. TypeOK'
    BY <1>a, <1>b, <1>c DEF TypeOK, Restarts
  <1>2. LockHeld' /\ OneShutdown' /\ Told'
    BY DEF LockHeld, OneShutdown, First, Told
  <1>3. \A j \in Item : (InChannel(j)' <=> (InChannel(j) /\ j # i)) /\ (InBatch(j)' <=> (InBatch(j) \/ j = i))
    <2>1. \A k \in DOMAIN in : in[k] = i => k = 1
      BY <1>b DEF Distinct
    <2>2. \A k \in DOMAIN in' : in'[k] # i
      BY <2>1, <1>b
    <2>3. \A j \in Item : InChannel(j)' => InChannel(j) /\ j # i
      BY <1>b, <2>2 DEF InChannel
    <2>4. \A j \in Item : InChannel(j) /\ j # i => InChannel(j)'
      BY <1>b DEF InChannel
    <2>5. QED
      BY <2>3, <2>4, <1>c DEF InBatch
  <1>4. InChannel(i)
    BY <1>b DEF InChannel
  <1>5. Placed' /\ OnlyAccepted'
    BY <1>3, <1>4 DEF Placed, OnlyAccepted, Accepted
  <1>6. Distinct'
    <2>1. \A j, k \in DOMAIN in' : in'[j] = in'[k] => j = k
      BY <1>b DEF Distinct
    <2>2. \A k \in DOMAIN requests : requests[k] # i
      BY <1>b DEF Distinct
    <2>3. \A j, k \in DOMAIN requests' : requests'[j] = requests'[k] => j = k
      BY <1>c, <2>2 DEF Distinct
    <2>4. \A j \in DOMAIN in' : in'[j] # i
      BY <1>b DEF Distinct
    <2>5. \A j \in DOMAIN in', k \in DOMAIN requests' : in'[j] # requests'[k]
      BY <1>b, <1>c, <2>4 DEF Distinct
    <2>6. QED
      BY <2>1, <2>3, <2>5 DEF Distinct
  <1>7. QuitIsLast'
    <2>1. \A k \in DOMAIN in' : in'[k] = NoOne => QuitSent /\ k = Len(in')
      BY <1>b DEF QuitIsLast
    <2>2. loop' \notin {"last", "tellLast", "exited"} /\ \A s \in Closer : closer[s] # "returned"
      BY DEF QuitIsLast
    <2>3. QED
      BY <2>1, <2>2 DEF QuitIsLast, QuitSent
  <1>8. BatchAt'
    BY <1>a, <1>c DEF BatchAt, Full
  <1>9. QED
    BY <1>1, <1>2, <1>5, <1>6, <1>7, <1>8

\* The idle timer only sends the loop to commit the batch it has.
LEMMA IdleFiresStep == ASSUME IInv, IdleFires PROVE IInv'
  <1> USE BatcherAssumption DEF IdleFires, IInv
  <1>1. TypeOK'
    BY DEF TypeOK
  <1>2. BatchAt'
    BY DEF BatchAt
  <1>3. QuitIsLast'
    BY DEF QuitIsLast, QuitSent
  <1>4. LockHeld' /\ OneShutdown' /\ Told' /\ Distinct'
    BY DEF LockHeld, OneShutdown, First, Told, Distinct
  <1>5. Placed' /\ OnlyAccepted'
    BY DEF Placed, OnlyAccepted, Accepted, InChannel, InBatch
  <1>6. QED
    BY <1>1, <1>2, <1>3, <1>4, <1>5

\* Quit was the last request in the channel, so none is left behind.
LEMMA QuitStep == ASSUME IInv, Quit PROVE IInv'
  <1> USE BatcherAssumption DEF Quit, AfterQuit, IInv
  <1>a. in \in Seq(Item \cup {NoOne}) /\ in # <<>>
    BY DEF TypeOK
  <1>b. /\ in' \in Seq(Item \cup {NoOne}) /\ Len(in') = Len(in) - 1 /\ Len(in) \in Nat
        /\ in[1] = NoOne /\ 1 \in DOMAIN in
    BY <1>a, TailFacts
  <1>c. QuitSent /\ Len(in) = 1
    BY <1>b DEF QuitIsLast
  <1>d. in' = <<>>
    BY <1>b, <1>c
  <1>1. TypeOK'
    <2>1. Len(in') <= Size
      BY <1>b, <1>c
    <2>2. QED
      BY <2>1, <1>b DEF TypeOK
  <1>2. BatchAt'
    BY DEF BatchAt, Leftover
  <1>3. QuitIsLast'
    BY <1>c, <1>d DEF QuitIsLast, QuitSent
  <1>4. LockHeld' /\ OneShutdown' /\ Told'
    BY DEF LockHeld, OneShutdown, First, Told
  <1>5. Distinct'
    BY <1>d DEF Distinct
  <1>6. \A j \in Item : ~InChannel(j) /\ ~InChannel(j)'
    BY <1>a, <1>b, <1>c, <1>d DEF InChannel
  <1>7. Placed' /\ OnlyAccepted'
    BY <1>6 DEF Placed, OnlyAccepted, Accepted, InBatch
  <1>8. QED
    BY <1>1, <1>2, <1>3, <1>4, <1>5, <1>7

\* The backend has had the batch, and each client is to be told about its own item.
LEMMA CommitBatchStep == ASSUME IInv, CommitBatch PROVE IInv'
  <1> USE BatcherAssumption DEF IInv
  <1>a. /\ loop \in {"commit", "last"} /\ requests' = <<>> /\ UNCHANGED <<async, in, mu, closed, client, answer, got, idle, closer>>
        /\ loop' = IF loop = "last" THEN "tellLast" ELSE "tell"
    BY DEF CommitBatch, AfterCommit
  <1> DEFINE place(i) == CHOOSE k \in DOMAIN requests : requests[k] = i
             answers(results) == [k \in DOMAIN requests |-> [item |-> requests[k], result |-> Answer(results, k)]]
  <1>b. PICK results \in [DOMAIN requests -> {"ok", "failed"}], whole \in BOOLEAN :
          /\ whole => Range(results) = {"failed"}
          /\ outcome' = [i \in Item |-> IF i \in Range(requests) THEN results[place(i)] ELSE outcome[i]]
          /\ sends' = (IF async \/ whole THEN <<>> ELSE answers(results))
                        \o (IF "failed" \in Range(results) /\ ~Signalled(whole) THEN answers(results) ELSE <<>>)
    BY DEF CommitBatch
  <1>c. \A i \in Item : (i \in Range(requests)) <=> InBatch(i)
    BY DEF Range, InBatch
  <1>d. \A i \in Item : InBatch(i) => place(i) \in DOMAIN requests /\ results[place(i)] \in {"ok", "failed"}
    BY DEF InBatch
  <1>f. \A i \in Item : outcome'[i] = IF InBatch(i) THEN results[place(i)] ELSE outcome[i]
    BY <1>b, <1>c
  <1>g. /\ answers(results) \in Seq(Sends)
        /\ \A k \in DOMAIN answers(results) :
             k \in DOMAIN requests /\ answers(results)[k].item = requests[k] /\ answers(results)[k].result = results[k]
    <2>1. DOMAIN requests = 1..Len(requests) /\ Len(requests) \in Nat /\ \A k \in DOMAIN requests : requests[k] \in Item
      BY DEF TypeOK
    <2>2. \A k \in 1..Len(requests) : [item |-> requests[k], result |-> Answer(results, k)] \in Sends
      BY <2>1 DEF Answer, Sends
    <2>3. answers(results) \in [1..Len(requests) -> Sends]
      BY <2>1, <2>2
    <2>4. answers(results) \in Seq(Sends)
      BY <2>1, <2>3
    <2>5. QED
      BY <2>1, <2>4 DEF Answer
  <1>h. \A k \in DOMAIN requests : requests[k] \in Item /\ InBatch(requests[k]) /\ place(requests[k]) = k
    BY DEF TypeOK, InBatch, Distinct
  <1> HIDE DEF place
  <1>i. \A k \in DOMAIN answers(results) : answers(results)[k].result = outcome'[answers(results)[k].item]
    BY <1>f, <1>g, <1>h
  <1>j. sends' = <<>> \/ sends' = answers(results)
    <2> DEFINE A == answers(results)
    <2>1. \A u \in Seq(Sends) : u \o <<>> = u /\ <<>> \o u = u
      OBVIOUS
    <2>2. A \in Seq(Sends) /\ <<>> \in Seq(Sends)
      BY <1>g
    <2> HIDE DEF A
    <2>3. sends' = (IF async \/ whole THEN <<>> ELSE A)
                      \o (IF "failed" \in Range(results) /\ ~(async \/ ~whole) THEN A ELSE <<>>)
      BY <1>b DEF A, Signalled
    <2>4. QED
      BY <2>1, <2>2, <2>3 DEF A
  <1> HIDE DEF answers
  <1>1. TypeOK'
    <2>1. outcome' \in [Item -> {"none", "ok", "failed"}]
      BY <1>b, <1>c, <1>d DEF TypeOK
    <2>2. sends' \in Seq(Sends)
      <3>1. answers(results) \in Seq(Sends)
        BY <1>g
      <3>2. <<>> \in Seq(Sends)
        OBVIOUS
      <3>3. QED
        BY <3>1, <3>2, <1>j
    <2>3. requests' \in Seq(Item) /\ Len(requests') <= Size
      BY <1>a
    <2>4. QED
      BY <2>1, <2>2, <2>3, <1>a DEF TypeOK
  <1>7. \A i \in Item : ~InBatch(i)' /\ (InChannel(i)' <=> InChannel(i)) /\ (Accepted(i)' <=> Accepted(i))
    BY <1>a DEF InBatch, InChannel, Accepted
  <1>8. \A i \in Item : ~(InBatch(i) /\ InChannel(i))
    BY DEF InBatch, InChannel, Distinct
  <1>2. Told'
    <2>1. \A i \in Item : outcome[i] # "none" => outcome'[i] = outcome[i]
      BY <1>f DEF Placed
    <2>2. \A k \in DOMAIN sends' : sends'[k].result = outcome'[sends'[k].item]
      BY <1>i, <1>j
    <2>3. QED
      BY <2>1, <2>2, <1>a DEF Told, TypeOK
  <1>3. BatchAt'
    BY <1>a DEF BatchAt
  <1>4. QuitIsLast'
    BY <1>a DEF QuitIsLast, QuitSent
  <1>5. LockHeld' /\ OneShutdown'
    BY <1>a DEF LockHeld, OneShutdown, First
  <1>6. Distinct'
    BY <1>a DEF Distinct
  <1>9. Placed' /\ OnlyAccepted'
    BY <1>7, <1>8, <1>d, <1>f DEF Placed, OnlyAccepted
  <1>10. QED
    BY <1>1, <1>2, <1>3, <1>4, <1>5, <1>6, <1>9

\* One answer goes into the channel of its client.
LEMMA TellStep == ASSUME IInv, Tell PROVE IInv'
  <1> USE BatcherAssumption DEF Tell, IInv
  <1> DEFINE h == Head(sends)
  <1>a. sends \in Seq(Sends) /\ sends # <<>>
    BY DEF TypeOK
  <1>b. /\ sends' \in Seq(Sends) /\ h \in Sends /\ h = sends[1] /\ 1 \in DOMAIN sends
        /\ \A k \in DOMAIN sends' : k + 1 \in DOMAIN sends /\ sends'[k] = sends[k + 1]
    BY <1>a, TailFacts
  <1>c. h.item \in Item /\ h.result \in {"ok", "failed"} /\ h.result = outcome[h.item]
    BY <1>b DEF Told, Sends
  <1>1. TypeOK'
    BY <1>b, <1>c DEF TypeOK
  <1>2. Told'
    <2>1. \A k \in DOMAIN sends' : sends'[k].result = outcome[sends'[k].item]
      BY <1>b DEF Told
    <2>2. \A i \in Item : answer'[i] # "none" => answer'[i] = outcome[i]
      BY <1>c DEF Told, TypeOK
    <2>3. QED
      BY <2>1, <2>2 DEF Told
  <1>3. BatchAt'
    BY DEF BatchAt
  <1>4. QuitIsLast' /\ LockHeld' /\ OneShutdown' /\ Distinct'
    BY DEF QuitIsLast, QuitSent, LockHeld, OneShutdown, First, Distinct
  <1>5. Placed' /\ OnlyAccepted'
    BY DEF Placed, OnlyAccepted, Accepted, InChannel, InBatch
  <1>6. QED
    BY <1>1, <1>2, <1>3, <1>4, <1>5

\* The loop goes on, or ends, when every answer is sent.
LEMMA CommitEndsStep == ASSUME IInv, CommitEnds PROVE IInv'
  <1> USE BatcherAssumption DEF CommitEnds, IInv
  <1>1. TypeOK'
    BY DEF TypeOK
  <1>2. BatchAt'
    BY DEF BatchAt
  <1>3. QuitIsLast'
    BY DEF QuitIsLast, QuitSent
  <1>4. LockHeld' /\ OneShutdown' /\ Told' /\ Distinct'
    BY DEF LockHeld, OneShutdown, First, Told, Distinct
  <1>5. Placed' /\ OnlyAccepted'
    BY DEF Placed, OnlyAccepted, Accepted, InChannel, InBatch
  <1>6. QED
    BY <1>1, <1>2, <1>3, <1>4, <1>5

\* Steps of Shutdown touch neither items nor the batch.
LEMMA ItemsAlone ==
  ASSUME IInv, UNCHANGED <<async, client, answer, got, sends, requests, outcome, loop>>
  PROVE  /\ Told' /\ BatchAt' /\ OnlyAccepted'
         /\ UNCHANGED in => Distinct' /\ Placed'
  <1>1. Told' /\ BatchAt' /\ OnlyAccepted'
    BY DEF IInv, Told, BatchAt, OnlyAccepted, Accepted
  <1>2. UNCHANGED in => Distinct' /\ Placed'
    BY DEF IInv, Distinct, Placed, Accepted, InChannel, InBatch
  <1>3. QED
    BY <1>1, <1>2

\* The first Shutdown closes the batcher under the lock, before it sends quit.
LEMMA BeginStep == ASSUME IInv, NEW s \in Closer, Begin(s) PROVE IInv'
  <1> USE BatcherAssumption DEF Begin, IInv
  <1>1. TypeOK'
    BY DEF TypeOK
  <1>2. LockHeld'
    BY DEF LockHeld, TypeOK
  <1>3. OneShutdown'
    BY DEF OneShutdown, First, TypeOK
  <1>4. QuitSent' <=> QuitSent
    BY DEF QuitSent, TypeOK, First
  <1>5. QuitIsLast'
    BY <1>4 DEF QuitIsLast, TypeOK
  <1>6. QED
    BY <1>1, <1>2, <1>3, <1>5, ItemsAlone

\* A second Shutdown goes straight to waiting for the loop.
LEMMA LaterStep == ASSUME IInv, NEW s \in Closer, Later(s) PROVE IInv'
  <1> USE BatcherAssumption DEF Later, IInv
  <1>1. TypeOK'
    BY DEF TypeOK
  <1>2. LockHeld'
    BY DEF LockHeld, TypeOK
  <1>3. OneShutdown'
    BY DEF OneShutdown, First, TypeOK
  <1>4. QuitSent' /\ QuitSent
    BY DEF QuitSent, TypeOK
  <1>5. QuitIsLast'
    BY <1>4 DEF QuitIsLast, TypeOK
  <1>6. QED
    BY <1>1, <1>2, <1>3, <1>5, ItemsAlone

\* Once Shutdown has closed the batcher no Commit can be past the check.
LEMMA CloseInStep == ASSUME IInv, NEW s \in Closer, CloseIn(s) PROVE IInv'
  <1> USE BatcherAssumption DEF CloseIn, IInv
  <1>1. TypeOK'
    BY DEF TypeOK
  <1>2. LockHeld'
    BY DEF LockHeld, TypeOK
  <1>3. OneShutdown'
    BY DEF OneShutdown, First, TypeOK
  <1>4. QuitSent' <=> QuitSent
    BY DEF QuitSent, TypeOK
  <1>5. QuitIsLast'
    BY <1>4 DEF QuitIsLast, TypeOK
  <1>6. QED
    BY <1>1, <1>2, <1>3, <1>5, ItemsAlone

\* Quit is sent once, by the one Shutdown that does the work.
LEMMA SendQuitStep == ASSUME IInv, NEW s \in Closer, SendQuit(s) PROVE IInv'
  <1> USE BatcherAssumption DEF SendQuit, IInv
  <1>a. in \in Seq(Item \cup {NoOne}) /\ Len(in) < Size /\ Len(in) \in Nat
    BY DEF TypeOK, HasRoom
  <1>b. /\ in' \in Seq(Item \cup {NoOne}) /\ Len(in') = Len(in) + 1
        /\ DOMAIN in' = DOMAIN in \cup {Len(in) + 1} /\ Len(in) + 1 \notin DOMAIN in
        /\ \A k \in DOMAIN in : in'[k] = in[k]
        /\ in'[Len(in) + 1] = NoOne
    BY <1>a, AppendFacts
  <1>c. ~QuitSent /\ QuitSent' /\ s \in First
    BY DEF QuitSent, OneShutdown, First, TypeOK
  <1>d. closed /\ loop \notin {"last", "tellLast", "exited"} /\ \A k \in DOMAIN in : in[k] # NoOne
    BY <1>c DEF QuitIsLast
  <1>1. TypeOK'
    BY <1>a, <1>b DEF TypeOK
  <1>2. LockHeld'
    BY DEF LockHeld, TypeOK
  <1>3. OneShutdown'
    BY DEF OneShutdown, First, TypeOK
  <1>4. \A r \in Closer : closer'[r] # "returned"
    BY <1>c DEF QuitSent, TypeOK
  <1>5. QuitIsLast'
    BY <1>b, <1>c, <1>d, <1>4 DEF QuitIsLast
  <1>6. Distinct'
    <2>1. \A k \in DOMAIN requests : requests[k] # NoOne
      BY DEF TypeOK
    <2>2. QED
      BY <2>1, <1>b, <1>d DEF Distinct
  <1>7. \A i \in Item : InChannel(i)' <=> InChannel(i)
    BY <1>b DEF InChannel
  <1>8. Placed'
    BY <1>7 DEF Placed, Accepted, InBatch
  <1>9. QED
    BY <1>1, <1>2, <1>3, <1>5, <1>6, <1>8, ItemsAlone

\* Shutdown returns when the loop has ended, so after the last batch.
LEMMA WaitLoopStep == ASSUME IInv, NEW s \in Closer, WaitLoop(s) PROVE IInv'
  <1> USE BatcherAssumption DEF WaitLoop, IInv
  <1>1. TypeOK'
    BY DEF TypeOK
  <1>2. LockHeld'
    BY DEF LockHeld, TypeOK
  <1>3. OneShutdown'
    BY DEF OneShutdown, First, TypeOK
  <1>4. QuitSent' /\ QuitSent
    BY DEF QuitSent, TypeOK
  <1>5. QuitIsLast'
    BY <1>4 DEF QuitIsLast, TypeOK
  <1>6. QED
    BY <1>1, <1>2, <1>3, <1>5, ItemsAlone

-----------------------------------------------------------------------------
(* The theorems *)

\* A new batcher holds nothing and has promised nothing.
LEMMA InitIInv == Init => IInv
  <1> SUFFICES ASSUME Init PROVE IInv
    OBVIOUS
  <1> USE BatcherAssumption DEF Init
  <1>1. async \in BOOLEAN
    BY Zenon
  <1>a. in \in Seq(Item \cup {NoOne}) /\ Len(in) <= Size /\ requests \in Seq(Item) /\ Len(requests) <= Size
        /\ sends \in Seq(Sends)
    OBVIOUS
  <1>2. TypeOK
    BY <1>1, <1>a DEF TypeOK
  <1>3. LockHeld /\ OneShutdown /\ QuitIsLast /\ BatchAt
    BY DEF LockHeld, OneShutdown, First, QuitIsLast, QuitSent, BatchAt
  <1>4. Distinct /\ Placed /\ OnlyAccepted /\ Told
    BY DEF Distinct, Placed, OnlyAccepted, Told, InChannel, InBatch, Accepted
  <1>5. QED
    BY <1>2, <1>3, <1>4 DEF IInv

\* Every step of clients, loop and Shutdown keeps the inductive invariant.
LEMMA NextIInv == IInv /\ [Next]_vars => IInv'
  <1> SUFFICES ASSUME IInv, [Next]_vars PROVE IInv'
    OBVIOUS
  <1>1. CASE UNCHANGED vars
    <2>1. TypeOK' /\ LockHeld' /\ OneShutdown' /\ QuitIsLast'
      BY <1>1 DEF vars, IInv, TypeOK, LockHeld, OneShutdown, First, QuitIsLast, QuitSent
    <2>2. QED
      BY <1>1, <2>1, ItemsAlone DEF vars, IInv
  <1>2. ASSUME NEW i \in Item, Lock(i) \/ Client(i)
        PROVE  IInv'
    BY <1>2, LockStep, RefuseStep, SendStep, ReceiveStep DEF Client
  <1>3. CASE Loop
    BY <1>3, TakeStep, IdleFiresStep, QuitStep, CommitBatchStep, TellStep, CommitEndsStep DEF Loop
  <1>4. ASSUME NEW s \in Closer, Begin(s) \/ Shutdown(s)
        PROVE  IInv'
    BY <1>4, BeginStep, LaterStep, CloseInStep, SendQuitStep, WaitLoopStep DEF Shutdown
  <1>5. QED
    BY <1>1, <1>2, <1>3, <1>4 DEF Next

\* Distinct places and Placed give the counting form that the run checks.
LEMMA IInvOncePlaced == IInv => OncePlaced
  <1> SUFFICES ASSUME IInv, NEW i \in Item, Accepted(i)
               PROVE  (outcome[i] # "none") = (Cardinality(Places(in, i)) + Cardinality(Places(requests, i)) = 0)
    BY DEF OncePlaced, Places
  <1>1. in \in Seq(Item \cup {NoOne}) /\ requests \in Seq(Item \cup {NoOne})
    BY DEF IInv, TypeOK
  <1>2. Cardinality(Places(in, i)) + Cardinality(Places(requests, i)) = 0
          <=> Places(in, i) = {} /\ Places(requests, i) = {}
    BY <1>1, NoPlaces
  <1>3. (Places(in, i) = {} <=> ~InChannel(i)) /\ (Places(requests, i) = {} <=> ~InBatch(i))
    BY DEF Places, InChannel, InBatch
  <1>4. (outcome[i] # "none") <=> (~InChannel(i) /\ ~InBatch(i))
    BY DEF IInv, Placed
  <1>5. QED
    BY <1>2, <1>3, <1>4

\* Shutdown returns after the quit request, behind which no item is sent.
LEMMA IInvFlushedAtExit == IInv => FlushedAtExit
  <1> SUFFICES ASSUME IInv, NEW s \in Closer, closer[s] = "returned", NEW i \in Item, Accepted(i)
               PROVE  outcome[i] # "none"
    BY DEF FlushedAtExit
  <1>1. in = <<>> /\ requests = <<>>
    BY DEF IInv, QuitIsLast, BatchAt
  <1>2. ~InChannel(i) /\ ~InBatch(i)
    BY <1>1 DEF InChannel, InBatch
  <1>3. QED
    BY <1>2 DEF IInv, Placed

\* The state of the batcher stays within its type: neither the channel nor
\* a batch ever holds more than --batch-size items.
THEOREM BatcherTyped == Spec => []TypeOK
  BY InitIInv, NextIInv, PTL DEF Spec, IInv

\* No item that Commit accepted is lost or committed twice: it waits in the
\* channel or in the batch exactly until the backend has had it.
THEOREM ItemsOncePlaced == Spec => []OncePlaced
  <1>1. IInv => OncePlaced
    BY IInvOncePlaced
  <1>2. QED
    BY <1>1, InitIInv, NextIInv, PTL DEF Spec

\* A synchronous Commit returns what the backend did with its own item.
THEOREM ClientsOwnAnswer == Spec => []OwnAnswer
  <1>1. IInv => OwnAnswer
    BY DEF IInv, Told, OwnAnswer
  <1>2. QED
    BY <1>1, InitIInv, NextIInv, PTL DEF Spec

\* When Shutdown has returned, the backend has had every item that was
\* accepted, however Commit, the loop and several Shutdowns interleave.
THEOREM ShutdownFlushes == Spec => []FlushedAtExit
  <1>1. IInv => FlushedAtExit
    BY IInvFlushedAtExit
  <1>2. QED
    BY <1>1, InitIInv, NextIInv, PTL DEF Spec

=============================================================================
