------------------------------ MODULE WriteBack ------------------------------
(***************************************************************************)
(* The queue of files waiting to be uploaded (vfs/vfscache/writeback):     *)
(* Add, Remove, Rename and SetExpiry are called by any thread, a timer     *)
(* runs processItems, and every upload is a goroutine.  wb.mu is released  *)
(* only where _cancelUpload waits and while an upload runs, so the steps   *)
(* between two such places are one action.                                 *)
(*                                                                         *)
(* Times are relative: the expiry of an item is the time it has left, 0    *)
(* when it has expired, and Tick lets time pass.                           *)
(***************************************************************************)
EXTENDS Naturals, Sequences, FiniteSets, FiniteSetsExt

CONSTANTS
  Handle,          \* handles callers got from SetID, one per cache item
  Name,            \* names of files
  Thread,          \* threads that call into the queue
  Delay,           \* --vfs-write-back
  MaxUploadDelay,  \* maxUploadDelay
  Transfers,       \* --transfers
  MaxCalls,        \* bound: calls made by the threads
  MaxErrors,       \* bound: uploads that fail
  MaxStops         \* bound: times wb.ctx is cancelled

ASSUME WriteBackAssumption ==
  /\ Handle \subseteq Nat \ {0}
  /\ Delay \in Nat \ {0} /\ MaxUploadDelay \in Nat /\ Delay <= MaxUploadDelay
  /\ Transfers \in Nat \ {0} /\ MaxCalls \in Nat /\ MaxErrors \in Nat
  /\ MaxStops \in {0, 1}

VARIABLES
  items,      \* every writeBackItem made, in order of creation
  lookup,     \* item of each handle, 0 if there is none
  goros,      \* running uploads: [item, gen, cancelled]
  closed,     \* done channels that are closed: <<item, gen>>
  expiry,     \* wb.expiry: NoTime, or the time the timer has left
  timer,      \* wb.timer: "off", "armed", or "fired"
  runs,       \* processItems calls that wait for the lock
  uploads,    \* wb.uploads
  calls,      \* where each thread is in a call
  ncalls,     \* calls so far
  errors,     \* failed uploads so far
  stopped,    \* wb.ctx was cancelled
  panicked    \* a done channel was closed twice

vars == <<items, lookup, goros, closed, expiry, timer, runs, uploads, calls, ncalls, errors, stopped, panicked>>

NoTime == MaxUploadDelay + 1

-----------------------------------------------------------------------------
(* The heap and the timer, given the items after a step *)

Heap(its) == {k \in DOMAIN its : its[k].onHeap}

\* Expiry of the item at the top of the heap.
Top(its) == Min({its[k].expiry : k \in Heap(its)})

StopTimer == expiry' = NoTime /\ timer' = IF expiry = NoTime THEN timer ELSE "off"

\* Mutant: the timer is left alone when it runs already.
ResetTimerIdle(its) ==
  IF Heap(its) = {} THEN StopTimer
  ELSE IF expiry # NoTime THEN UNCHANGED <<expiry, timer>>
  ELSE expiry' = Top(its) /\ timer' = "armed"

\* _resetTimer: arm the timer for the item at the top, unless it is already.
\* Two times that have both passed may be different times.
ResetTimer(its) ==
  IF Heap(its) = {} THEN StopTimer
  ELSE \/ expiry = Top(its) /\ UNCHANGED <<expiry, timer>>
       \/ (expiry # Top(its) \/ expiry = 0) /\ expiry' = Top(its) /\ timer' = "armed"

ItemRec ==
  [id : Handle, name : Name, expiry : 0..MaxUploadDelay, delay : Delay..MaxUploadDelay,
   uploading : BOOLEAN, onHeap : BOOLEAN, gen : Nat]

NewItem(id, name) ==
  [id |-> id, name |-> name, expiry |-> Delay, delay |-> Delay,
   uploading |-> FALSE, onHeap |-> TRUE, gen |-> 0]

-----------------------------------------------------------------------------
(* Calls *)

NoCall == [op |-> "none"]

\* What a call that has given up the lock remembers: the item whose upload it
\* waits for and, in Rename, the item it renames and where its loop is.
WaitRec(D) == [op : {"add", "remove"}, victim : D, done : Nat]
RenameRec(D) ==
  [op : {"rename", "renaming", "clash"}, item : D, victim : D, id : Handle, name : Name,
   seen : SUBSET Handle, due : SUBSET D, done : Nat]
CallRec(D) == {NoCall} \cup WaitRec(D) \cup RenameRec(D)

Idle(t) == calls[t].op = "none"

Return(t) == calls' = [calls EXCEPT ![t] = NoCall]

\* The first half of _cancelUpload: the context is cancelled, the lock is
\* released and the thread waits for the upload c.victim.
Cancel(t, c) ==
  /\ goros' = {IF g.item = c.victim /\ g.gen = items[c.victim].gen
                 THEN [g EXCEPT !.cancelled = TRUE] ELSE g : g \in goros}
  /\ calls' = [calls EXCEPT ![t] = c]
  /\ UNCHANGED <<items, lookup, closed, expiry, timer, runs, uploads, errors, stopped, panicked>>

\* The second half of _cancelUpload: the item is put back on the heap.
Back(its, k) == [its EXCEPT ![k].onHeap = TRUE]

\* The end of Add: the timer of item k is kicked on.
Kick(t, its, k) ==
  /\ items' = [its EXCEPT ![k].expiry = Delay]
  /\ ResetTimer(items')
  /\ Return(t)
  /\ UNCHANGED <<lookup, goros, closed, runs, uploads, errors, stopped, panicked>>

\* The end of _remove.
Drop(its, k) == [its EXCEPT ![k].onHeap = FALSE]

Forget(k) == [lookup EXCEPT ![items[k].id] = 0]

Call == ncalls < MaxCalls /\ ncalls' = ncalls + 1

Add(t, id, name, modified) ==
  LET k == lookup[id]
  IN /\ Idle(t)
     /\ Call
     /\ \/ /\ k = 0
           /\ items' = Append(items, NewItem(id, name))
           /\ lookup' = [lookup EXCEPT ![id] = Len(items) + 1]
           /\ ResetTimer(items')
           /\ UNCHANGED <<goros, closed, runs, uploads, calls, errors, stopped, panicked>>
        \/ /\ k # 0
           /\ items[k].uploading /\ modified
           /\ Cancel(t, [op |-> "add", victim |-> k, done |-> 0])
        \/ /\ k # 0
           /\ ~(items[k].uploading /\ modified)
           /\ Kick(t, items, k)

Remove(t, id) ==
  LET k == lookup[id]
  IN /\ Idle(t)
     /\ Call
     /\ \/ /\ k # 0
           /\ items[k].uploading
           /\ Cancel(t, [op |-> "remove", victim |-> k, done |-> 0])
        \/ /\ ~(k # 0 /\ items[k].uploading)
           /\ items' = IF k = 0 THEN items ELSE Drop(items, k)
           /\ lookup' = IF k = 0 THEN lookup ELSE Forget(k)
           /\ ResetTimer(items')
           /\ UNCHANGED <<goros, closed, runs, uploads, calls, errors, stopped, panicked>>

\* Rename enters its loop over the lookup map.
Loop(t, c) ==
  calls' = [calls EXCEPT ![t] = [c EXCEPT !.op = "renaming", !.done = 0,
                                          !.due = {lookup[h] : h \in Handle} \ {0}]]

\* Rename: a handle without an item is ignored.
Rename(t, id, name) ==
  LET k == lookup[id]
      c == [op |-> "rename", item |-> k, victim |-> k, id |-> id, name |-> name,
            seen |-> {}, due |-> {}, done |-> 0]
  IN /\ Idle(t)
     /\ Call
     /\ \/ k = 0 /\ UNCHANGED <<items, lookup, goros, closed, expiry, timer, runs, uploads, calls, errors, stopped, panicked>>
        \/ k # 0 /\ items[k].uploading /\ Cancel(t, c)
        \/ /\ k # 0 /\ ~items[k].uploading
           /\ Loop(t, c)
           /\ UNCHANGED <<items, lookup, goros, closed, expiry, timer, runs, uploads, errors, stopped, panicked>>

\* The channel a cancelling thread waits for is read without the lock.
ReadDone(t) ==
  /\ ~Idle(t)
  /\ calls[t].op # "renaming" /\ calls[t].done = 0
  /\ calls' = [calls EXCEPT ![t].done = items[calls[t].victim].gen]
  /\ UNCHANGED <<items, lookup, goros, closed, expiry, timer, runs, uploads, ncalls, errors, stopped, panicked>>

\* The upload is over and the thread has the lock again.
Waited(t, op) ==
  /\ calls[t].op = op
  /\ calls[t].done # 0
  /\ <<calls[t].victim, calls[t].done>> \in closed

AddResume(t) ==
  /\ Waited(t, "add")
  /\ Kick(t, Back(items, calls[t].victim), calls[t].victim)
  /\ UNCHANGED ncalls

RemoveResume(t) ==
  /\ Waited(t, "remove")
  /\ items' = Drop(Back(items, calls[t].victim), calls[t].victim)
  /\ lookup' = Forget(calls[t].victim)
  /\ ResetTimer(items')
  /\ Return(t)
  /\ UNCHANGED <<goros, closed, runs, uploads, ncalls, errors, stopped, panicked>>

\* After the wait for the item being renamed.
RenameResume(t) ==
  /\ Waited(t, "rename")
  /\ items' = Back(items, calls[t].victim)
  /\ Loop(t, calls[t])
  /\ UNCHANGED <<lookup, goros, closed, expiry, timer, runs, uploads, ncalls, errors, stopped, panicked>>

\* Handles of other items that have the new name, not yet visited.
Clashes(c) ==
  {h \in Handle \ (c.seen \cup {c.id}) : lookup[h] # 0 /\ items[lookup[h]].name = c.name}

\* One turn of the loop: an item that has the new name is removed.  While the
\* thread waits, the handles it has been to already are not visited again.
RenameClash(t) ==
  LET c == calls[t]
  IN /\ c.op = "renaming"
     /\ UNCHANGED ncalls
     /\ \E h \in Clashes(c), been \in SUBSET (Handle \ Clashes(c)) :
          \/ /\ items[lookup[h]].uploading
             /\ Cancel(t, [c EXCEPT !.op = "clash", !.victim = lookup[h], !.seen = @ \cup {h} \cup been])
          \/ /\ ~items[lookup[h]].uploading /\ been = {}
             /\ items' = Drop(items, lookup[h])
             /\ lookup' = Forget(lookup[h])
             /\ ResetTimer(items')
             /\ calls' = [calls EXCEPT ![t].seen = @ \cup {h}]
             /\ UNCHANGED <<goros, closed, runs, uploads, errors, stopped, panicked>>

ClashResume(t) ==
  /\ Waited(t, "clash")
  /\ items' = Drop(Back(items, calls[t].victim), calls[t].victim)
  /\ lookup' = Forget(calls[t].victim)
  /\ ResetTimer(items')
  /\ calls' = [calls EXCEPT ![t] = [@ EXCEPT !.op = "renaming", !.done = 0]]
  /\ UNCHANGED <<goros, closed, runs, uploads, ncalls, errors, stopped, panicked>>

\* The end of Rename: every handle that was there when the loop began has been
\* visited; one added since may have been missed.
RenameEnd(t) ==
  LET c == calls[t]
  IN /\ c.op = "renaming"
     /\ \A h \in Clashes(c) : lookup[h] \notin c.due
     /\ Kick(t, [items EXCEPT ![c.item].name = c.name], c.item)
     /\ UNCHANGED ncalls

\* vfs/queue-set-expiry of the remote control.
SetExpiry(t, id, e) ==
  LET k == lookup[id]
  IN /\ Idle(t)
     /\ Call
     /\ k # 0
     /\ items' = [items EXCEPT ![k].expiry = e]
     /\ ResetTimer(items')
     /\ UNCHANGED <<lookup, goros, closed, runs, uploads, calls, errors, stopped, panicked>>

-----------------------------------------------------------------------------
(* The timer, processItems and the uploads *)

Tick ==
  LET less(e) == IF e = 0 \/ e = NoTime THEN e ELSE e - 1
  IN /\ \E k \in Heap(items) : items[k].expiry > 0
     /\ items' = [k \in DOMAIN items |-> [items[k] EXCEPT !.expiry = less(@)]]
     /\ expiry' = less(expiry)
     /\ UNCHANGED <<lookup, goros, closed, timer, runs, uploads, calls, ncalls, errors, stopped, panicked>>

TimerFires ==
  /\ timer = "armed" /\ expiry = 0
  /\ timer' = "fired"
  /\ runs' = runs + 1
  /\ UNCHANGED <<items, lookup, goros, closed, expiry, uploads, calls, ncalls, errors, stopped, panicked>>

\* Mutant: one upload too many.
RoomTooMuch == Transfers + 1 - uploads

\* Uploads that may be started.
Room == IF uploads < Transfers THEN Transfers - uploads ELSE 0

\* processItems: as many expired items as there is room for are started; at
\* the limit the timer is stopped.
Process ==
  LET expired == {k \in Heap(items) : items[k].expiry = 0}
  IN /\ runs > 0 /\ ~stopped
     /\ runs' = runs - 1
     /\ \E S \in SUBSET expired :
          /\ Cardinality(S) = Min({Room, Cardinality(expired)})
          /\ items' = [k \in DOMAIN items |->
                         IF k \in S THEN [items[k] EXCEPT !.onHeap = FALSE, !.uploading = TRUE, !.gen = @ + 1]
                                    ELSE items[k]]
          /\ uploads' = uploads + Cardinality(S)
          /\ goros' = goros \cup {[item |-> k, gen |-> items[k].gen + 1, cancelled |-> FALSE] : k \in S}
     /\ IF Heap(items') # {} /\ uploads' >= Transfers THEN StopTimer ELSE ResetTimer(items')
     /\ UNCHANGED <<lookup, closed, calls, ncalls, errors, stopped, panicked>>

\* processItems returns at once when wb.ctx is cancelled.
ProcessStopped ==
  /\ runs > 0 /\ stopped
  /\ runs' = runs - 1
  /\ UNCHANGED <<items, lookup, goros, closed, expiry, timer, uploads, calls, ncalls, errors, stopped, panicked>>

\* wb.ctx is cancelled, and with it the contexts of the uploads.
Stop ==
  /\ MaxStops > 0 /\ ~stopped /\ stopped' = TRUE
  /\ goros' = {[g EXCEPT !.cancelled = TRUE] : g \in goros}
  /\ UNCHANGED <<items, lookup, closed, expiry, timer, runs, uploads, calls, ncalls, errors, panicked>>

\* What upload() does with the error of a failed upload.
NextDelay(k, err) ==
  IF err = "cancelled" THEN Delay ELSE Min({2 * items[k].delay, MaxUploadDelay})

\* Mutant: a failed upload is given up.
RetryNever(k, err) == [items EXCEPT ![k] = [@ EXCEPT !.uploading = FALSE]]

\* The item of a failed upload goes back on the heap with a longer delay.
Retry(k, err) ==
  [items EXCEPT ![k] = [@ EXCEPT !.uploading = FALSE, !.onHeap = TRUE,
                                 !.delay = NextDelay(k, err), !.expiry = NextDelay(k, err)]]

\* Mutant: a failed upload leaves without closing its channel.
CloseDoneOnSuccess(k, err) == IF err = "none" THEN closed \cup {<<k, items[k].gen>>} ELSE closed

\* The last thing upload() does: the channel the item has now is closed.
CloseDone(k, err) == closed \cup {<<k, items[k].gen>>}

\* The second half of upload(), when putFn has returned.
UploadEnds(g, err) ==
  LET k == g.item
      i == items[k]
  IN /\ goros' = {IF h.item = k /\ h.gen = i.gen THEN [h EXCEPT !.cancelled = TRUE] ELSE h : h \in goros \ {g}}
     /\ uploads' = uploads - 1
     /\ items' = IF err = "none" THEN [items EXCEPT ![k].uploading = FALSE] ELSE Retry(k, err)
     /\ lookup' = IF err = "none" THEN Forget(k) ELSE lookup
     /\ ResetTimer(items')
     /\ closed' = CloseDone(k, err)
     /\ panicked' = (<<k, i.gen>> \in closed)
     /\ UNCHANGED <<runs, calls, ncalls, stopped>>

\* putFn may succeed even though its context was cancelled.
Succeed(g) == UploadEnds(g, "none") /\ UNCHANGED errors

Cancelled(g) == g.cancelled /\ UploadEnds(g, "cancelled") /\ UNCHANGED errors

Fail(g) == errors < MaxErrors /\ errors' = errors + 1 /\ UploadEnds(g, "failed")

-----------------------------------------------------------------------------

Init ==
  /\ items = <<>> /\ lookup = [h \in Handle |-> 0]
  /\ goros = {} /\ closed = {}
  /\ expiry = NoTime /\ timer = "off" /\ runs = 0 /\ uploads = 0
  /\ calls = [t \in Thread |-> NoCall]
  /\ ncalls = 0 /\ errors = 0 /\ stopped = FALSE /\ panicked = FALSE

Begin(t) ==
  \/ \E id \in Handle, name \in Name, modified \in BOOLEAN : Add(t, id, name, modified)
  \/ \E id \in Handle : Remove(t, id)
  \/ \E id \in Handle, name \in Name : Rename(t, id, name)
  \/ \E id \in Handle, e \in 0..Delay : SetExpiry(t, id, e)

Continue(t) ==
  \/ ReadDone(t) \/ AddResume(t) \/ RemoveResume(t)
  \/ RenameResume(t) \/ RenameClash(t) \/ ClashResume(t) \/ RenameEnd(t)

Upload == \E g \in goros : Succeed(g) \/ Cancelled(g) \/ Fail(g)

\* A panic ends the program.
Next ==
  /\ ~panicked
  /\ \/ \E t \in Thread : Begin(t) \/ Continue(t)
     \/ Tick \/ TimerFires \/ Process \/ ProcessStopped \/ Stop \/ Upload

Spec == Init /\ [][Next]_vars

\* Time passes, timers fire, goroutines are scheduled and uploads return.
Fairness ==
  /\ WF_vars(Tick) /\ WF_vars(TimerFires) /\ WF_vars(Process \/ ProcessStopped) /\ WF_vars(Upload)
  /\ \A t \in Thread : WF_vars(Continue(t))

FairSpec == Spec /\ Fairness

-----------------------------------------------------------------------------
(* Properties *)

\* Type invariant of the queue: the counters and times stay in range, and
\* handles, calls, uploads and channels refer to items that exist.
TypeOK ==
  /\ items \in Seq(ItemRec) /\ lookup \in [Handle -> {0} \cup DOMAIN items]
  /\ goros \subseteq [item : DOMAIN items, gen : Nat \ {0}, cancelled : BOOLEAN]
  /\ closed \subseteq (DOMAIN items) \X (Nat \ {0})
  /\ expiry \in 0..NoTime /\ timer \in {"off", "armed", "fired"}
  /\ runs \in Nat /\ uploads \in Nat /\ calls \in [Thread -> CallRec(DOMAIN items)]
  /\ ncalls \in Nat /\ errors \in Nat /\ stopped \in BOOLEAN /\ panicked \in BOOLEAN

\* wb.uploads is the number of uploads that run, across cancellations and
\* restarts, and --transfers is never exceeded.
UploadsCounted == uploads = Cardinality(goros) /\ uploads <= Transfers

\* Nothing is forgotten: what a handle finds waits for its upload or is being
\* uploaded, whatever was cancelled, failed or renamed on the way.
NoneForgotten == \A h \in Handle : lookup[h] # 0 => items[lookup[h]].onHeap \/ items[lookup[h]].uploading

\* No lost wakeup: while an item waits, a timer is armed, processItems is
\* about to run, or an upload that will look at the queue when it ends is
\* running; a Rename in the middle of its loop will see to it, too.
Awake ==
  Heap(items) # {} /\ ~stopped =>
    \/ timer = "armed" \/ runs > 0 \/ uploads >= Transfers
    \/ \E t \in Thread : calls[t].op \in {"renaming", "clash"}

\* A call that cancels an upload returns: the channel it waits for is closed.
CallsReturn == \A t \in Thread : ~Idle(t) ~> Idle(t)

\* When the callers are done everything queued gets uploaded, retries and
\* cancelled uploads included, unless wb.ctx is cancelled.
Drains == <>[]((Heap(items) = {} \/ stopped) /\ goros = {})

=============================================================================
