------------------------------- MODULE Batcher -------------------------------
(***************************************************************************)
(* The batcher of backends that finish uploads in batches (lib/batcher).   *)
(* Clients hand an item to Commit, one goroutine collects the items and    *)
(* commits them when the batch is full or has been idle, and Shutdown,     *)
(* run at exit, is to commit what was handed over before.  One item stands *)
(* for the one call of Commit that hands it over.                          *)
(***************************************************************************)
EXTENDS Naturals, Sequences, SequencesExt, FiniteSets

CONSTANTS
  Item,      \* items, one call of Commit each
  Closer,    \* callers of Shutdown
  Size,      \* --batch-size
  NoOne      \* not an item or a closer

ASSUME BatcherAssumption ==
  /\ Size \in Nat \ {0}
  /\ NoOne \notin Item \cup Closer /\ Item \cap Closer = {}

VARIABLES
  async,     \* --batch-mode async: fixed when the batcher is made
  in,        \* the channel b.in; NoOne is the quit request
  mu,        \* who holds b.admitMu
  closed,    \* b.closed is closed
  client,    \* where the Commit of each item is
  answer,    \* what is in the response channel of each item: "none", "ok" or "failed"
  got,       \* what each synchronous Commit has received
  requests,  \* the batch being collected
  idle,      \* idleTimer runs
  sends,     \* the answers commitBatch has yet to send, in order
  loop,      \* "select", "commit", "tell", the same after quit ("last",
             \* "tellLast"), or "exited"
  closer,    \* where each Shutdown is
  outcome    \* what the backend did with each item: "none", "ok" or "failed"

vars == <<async, in, mu, closed, client, answer, got, requests, idle, sends, loop, closer, outcome>>

-----------------------------------------------------------------------------
(* Commit *)

Lock(i) ==
  /\ client[i] = "new" /\ mu = NoOne
  /\ mu' = i
  /\ client' = [client EXCEPT ![i] = "locked"]
  /\ UNCHANGED <<async, in, closed, answer, got, requests, idle, sends, loop, closer, outcome>>

\* Mutant: a Commit that has the lock is not turned away.
RefusedNever == FALSE

\* Commit looks at b.closed before it sends.
Refused == closed

Refuse(i) ==
  /\ client[i] = "locked" /\ Refused
  /\ mu' = NoOne
  /\ client' = [client EXCEPT ![i] = "refused"]
  /\ UNCHANGED <<async, in, closed, answer, got, requests, idle, sends, loop, closer, outcome>>

\* b.in has room for Size requests; the sender keeps the lock while it waits.
HasRoom == Len(in) < Size

Send(i) ==
  /\ client[i] = "locked" /\ ~Refused /\ HasRoom
  /\ in' = Append(in, i)
  /\ mu' = NoOne
  /\ client' = [client EXCEPT ![i] = IF async THEN "returned" ELSE "waiting"]
  /\ UNCHANGED <<async, closed, answer, got, requests, idle, sends, loop, closer, outcome>>

Receive(i) ==
  /\ client[i] = "waiting" /\ answer[i] # "none"
  /\ client' = [client EXCEPT ![i] = "returned"]
  /\ got' = [got EXCEPT ![i] = answer[i]]
  /\ answer' = [answer EXCEPT ![i] = "none"]
  /\ UNCHANGED <<async, in, mu, closed, requests, idle, sends, loop, closer, outcome>>

-----------------------------------------------------------------------------
(* commitLoop *)

Full(batch) == Len(batch) >= Size

\* Mutant: the idle timer is only stopped.
RestartsNever(batch) == FALSE

\* The idle timer is stopped for a full batch and started again for another.
Restarts(batch) == ~Full(batch)

Take ==
  /\ loop = "select" /\ in # <<>> /\ Head(in) # NoOne
  /\ in' = Tail(in)
  /\ requests' = Append(requests, Head(in))
  /\ loop' = IF Full(requests') THEN "commit" ELSE "select"
  /\ idle' = Restarts(requests')
  /\ UNCHANGED <<async, mu, closed, client, answer, got, closer, outcome, sends>>

IdleFires ==
  /\ loop = "select" /\ idle
  /\ idle' = FALSE
  /\ loop' = IF requests = <<>> THEN "select" ELSE "commit"
  /\ UNCHANGED <<async, in, mu, closed, client, answer, got, requests, closer, outcome, sends>>

\* After quit, any remaining items are committed.
Leftover == requests # <<>>

\* Mutant: the break leaves the select and not the loop.
AfterQuitSelect == "select"

AfterQuit == IF Leftover THEN "last" ELSE "exited"

Quit ==
  /\ loop = "select" /\ in # <<>> /\ Head(in) = NoOne
  /\ in' = Tail(in)
  /\ loop' = AfterQuit
  /\ idle' = FALSE
  /\ UNCHANGED <<async, mu, closed, client, answer, got, requests, closer, outcome, sends>>

\* Mutant: the answers are off by one.
AnswerNext(results, k) == results[IF k = Len(results) THEN 1 ELSE k + 1]

\* The k-th request gets the k-th result.
Answer(results, k) == results[k]

\* The deferred function tells the clients only if they have not been told;
\* whole says that the commit failed as a whole.
Signalled(whole) == async \/ ~whole

\* Mutant: the batch is not reset.
AfterCommitSame == requests

AfterCommit == <<>>

\* commitBatch up to its answers: the backend fills in a result for each item,
\* or fails as a whole; in sync mode every client is to be told.
CommitBatch ==
  /\ loop \in {"commit", "last"}
  /\ \E results \in [DOMAIN requests -> {"ok", "failed"}], whole \in BOOLEAN :
       LET place(i) == CHOOSE k \in DOMAIN requests : requests[k] = i
           answers == [k \in DOMAIN requests |-> [item |-> requests[k], result |-> Answer(results, k)]]
           deferred == "failed" \in Range(results) /\ ~Signalled(whole)
       IN /\ whole => Range(results) = {"failed"}
          /\ outcome' = [i \in Item |-> IF i \in Range(requests) THEN results[place(i)] ELSE outcome[i]]
          /\ sends' = (IF async \/ whole THEN <<>> ELSE answers) \o (IF deferred THEN answers ELSE <<>>)
  /\ loop' = IF loop = "last" THEN "tellLast" ELSE "tell"
  /\ requests' = AfterCommit
  /\ UNCHANGED <<async, in, mu, closed, client, answer, got, idle, closer>>

\* A response channel has room for one answer.
Tell ==
  /\ sends # <<>> /\ answer[Head(sends).item] = "none"
  /\ answer' = [answer EXCEPT ![Head(sends).item] = Head(sends).result]
  /\ sends' = Tail(sends)
  /\ UNCHANGED <<async, in, mu, closed, client, got, requests, idle, loop, closer, outcome>>

\* commitBatch returns, and so does the loop if quit was taken before.
CommitEnds ==
  /\ loop \in {"tell", "tellLast"} /\ sends = <<>>
  /\ loop' = IF loop = "tellLast" THEN "exited" ELSE "select"
  /\ UNCHANGED <<async, in, mu, closed, client, answer, got, requests, idle, sends, closer, outcome>>

-----------------------------------------------------------------------------
(* Shutdown: sync.Once lets one closer do the work and the others wait for it *)

First == {s \in Closer : closer[s] \in {"locking", "sending", "waiting"}}

Begin(s) ==
  /\ closer[s] = "new" /\ First = {} /\ \A r \in Closer : closer[r] # "returned"
  /\ closer' = [closer EXCEPT ![s] = "locking"]
  /\ UNCHANGED <<async, in, mu, closed, client, answer, got, requests, idle, sends, loop, outcome>>

\* shutOnce.Do of a closer that is not the first returns when the first has.
Later(s) ==
  /\ closer[s] = "new" /\ \E r \in Closer : closer[r] = "returned"
  /\ closer' = [closer EXCEPT ![s] = "returned"]
  /\ UNCHANGED <<async, in, mu, closed, client, answer, got, requests, idle, sends, loop, outcome>>

\* The lock is taken and b.closed is closed.
CloseIn(s) ==
  /\ closer[s] = "locking" /\ mu = NoOne
  /\ mu' = s /\ closed' = TRUE
  /\ closer' = [closer EXCEPT ![s] = "sending"]
  /\ UNCHANGED <<async, in, client, answer, got, requests, idle, sends, loop, outcome>>

SendQuit(s) ==
  /\ closer[s] = "sending" /\ HasRoom
  /\ in' = Append(in, NoOne)
  /\ mu' = NoOne
  /\ closer' = [closer EXCEPT ![s] = "waiting"]
  /\ UNCHANGED <<async, closed, client, answer, got, requests, idle, sends, loop, outcome>>

\* b.wg.Wait.
WaitLoop(s) ==
  /\ closer[s] = "waiting" /\ loop = "exited"
  /\ closer' = [closer EXCEPT ![s] = "returned"]
  /\ UNCHANGED <<async, in, mu, closed, client, answer, got, requests, idle, sends, loop, outcome>>

-----------------------------------------------------------------------------

Init ==
  /\ async \in BOOLEAN
  /\ in = <<>> /\ mu = NoOne /\ closed = FALSE
  /\ client = [i \in Item |-> "new"] /\ answer = [i \in Item |-> "none"]
  /\ got = [i \in Item |-> "none"]
  /\ requests = <<>> /\ idle = FALSE /\ sends = <<>> /\ loop = "select"
  /\ closer = [s \in Closer |-> "new"] /\ outcome = [i \in Item |-> "none"]

Client(i) == Refuse(i) \/ Send(i) \/ Receive(i)
Loop == Take \/ IdleFires \/ Quit \/ CommitBatch \/ Tell \/ CommitEnds
Shutdown(s) == Later(s) \/ CloseIn(s) \/ SendQuit(s) \/ WaitLoop(s)

Next ==
  \/ \E i \in Item : Lock(i) \/ Client(i)
  \/ Loop
  \/ \E s \in Closer : Begin(s) \/ Shutdown(s)

Spec == Init /\ [][Next]_vars

\* Goroutines are scheduled, timers fire and the backend answers, and a Shutdown
\* that has been called gets the lock.  Nobody has to call Commit or Shutdown.
Fairness ==
  /\ WF_vars(Loop)
  /\ \A i \in Item : WF_vars(Client(i))
  /\ \A s \in Closer : WF_vars(Shutdown(s))

FairSpec == Spec /\ Fairness

-----------------------------------------------------------------------------
(* Properties *)

Sends == [item : Item, result : {"ok", "failed"}]

\* Type invariant; a batch is never larger than Size.
TypeOK ==
  /\ async \in BOOLEAN
  /\ in \in Seq(Item \cup {NoOne}) /\ Len(in) <= Size
  /\ mu \in Item \cup Closer \cup {NoOne} /\ closed \in BOOLEAN
  /\ client \in [Item -> {"new", "locked", "waiting", "returned", "refused"}]
  /\ answer \in [Item -> {"none", "ok", "failed"}] /\ got \in [Item -> {"none", "ok", "failed"}]
  /\ sends \in Seq(Sends)
  /\ outcome \in [Item -> {"none", "ok", "failed"}]
  /\ requests \in Seq(Item) /\ Len(requests) <= Size
  /\ idle \in BOOLEAN /\ loop \in {"select", "commit", "tell", "last", "tellLast", "exited"}
  /\ closer \in [Closer -> {"new", "locking", "sending", "waiting", "returned"}]

\* The Commit of the item got past the check of b.closed.
Accepted(i) == client[i] \in {"waiting", "returned"}

\* An item that was accepted waits in the channel or in the batch until the
\* backend has had it, and not after: no item is lost or committed twice.
OncePlaced ==
  \A i \in Item :
    Accepted(i) =>
      (outcome[i] # "none")
        = (Cardinality({k \in DOMAIN in : in[k] = i}) + Cardinality({k \in DOMAIN requests : requests[k] = i}) = 0)

\* When Shutdown has returned the backend has had every item whose Commit
\* was not refused: an item handed over asynchronously is not lost at exit.
FlushedAtExit ==
  (\E s \in Closer : closer[s] = "returned")
    => \A i \in Item : Accepted(i) => outcome[i] # "none"

\* A synchronous Commit returns what became of its own item.
OwnAnswer == \A i \in Item : ~async /\ client[i] = "returned" => got[i] = outcome[i]

\* Every Commit returns: a batch that never fills up is committed when it has
\* been idle, and a Commit that Shutdown overtakes is refused or answered.
CommitReturns == \A i \in Item : client[i] = "locked" ~> client[i] \in {"returned", "refused"}

\* Shutdown returns, although it sends to a channel that may be full and waits
\* for a loop that sends to its clients.
ShutdownReturns == \A s \in Closer : closer[s] = "locking" ~> closer[s] = "returned"

=============================================================================
