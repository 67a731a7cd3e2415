----------------------------- MODULE SyncProofs -----------------------------
(***************************************************************************)
(* Proofs about a sync, copy or move for any trees, any number of          *)
(* goroutines, any backlog, any options and any failures.                  *)
(***************************************************************************)
EXTENDS Sync, FiniteSetTheorems, TLAPS

-----------------------------------------------------------------------------
(* The inductive invariant.  First, types *)

Tree == [File -> Content \cup {Absent}]

TTrees == src \in Tree /\ dst \in Tree /\ backup \in Tree
TFirst == opt \in Options /\ src0 \in Tree /\ dst0 \in Tree
TMarch ==
  /\ job \in [Dir -> {"waiting", "matching", "done"}] /\ todo \in [Dir -> SUBSET File]
  /\ failed \in [Dir -> SUBSET {"src", "dst"}] /\ jobErr \in {"none", "err", "canceled", "deadline"}
TPipes ==
  /\ queue \in [Pipe -> SUBSET Pair] /\ tokens \in [Pipe -> Nat] /\ open \in [Pipe -> BOOLEAN]
  /\ \A p \in Pipe : (~CheckFirst => tokens[p] <= Backlog)
  /\ blocked \in [Producer -> Pipe \cup {Nobody}]
TWorks ==
  /\ work \in [Worker -> {"none", "idle", "exited"}]
  /\ busy \in [Transfer -> {{}} \cup {{pair} : pair \in Pair}]
TNames ==
  /\ renameCheck \subseteq File /\ renameMap \subseteq File /\ dstFiles \subseteq File
  /\ dels \subseteq File /\ deleted \subseteq File
TDeletes ==
  /\ deleters \in {"off", "open", "closed", "returned"} /\ dead \in 0 .. Cardinality(Checker)
  /\ delErr \in {"none", "err", "fatal"}
TErrors ==
  /\ errs \subseteq {"err", "noretry", "fatal"} /\ counted \in BOOLEAN /\ faults \in Nat
  /\ ctx \in {"live", "canceled", "deadline"} /\ inCtx \in {"live", "canceled", "deadline"}
TStage ==
  /\ mode \in {"off", "only", "during", "after"} /\ result \in {"running", "ok", "error"}
  /\ main \in {"march", "map", "rename", "checks", "renames", "transfers", "deletes", "after", "end", "returned"}

Types == TTrees /\ TFirst /\ TMarch /\ TPipes /\ TWorks /\ TNames /\ TDeletes /\ TErrors /\ TStage

-----------------------------------------------------------------------------
(* What each actor leaves alone *)

\* The march works on its own state, the pipes and the lists of files to delete.
LEMMA FootMarching ==
  ASSUME NEW d \in Dir, Marching(d)
  PROVE  /\ UNCHANGED <<trees, works, renameMap, dead, delErr, deleters, deleted>>
         /\ UNCHANGED <<tokens, open, errs, ctx, inCtx, stage, first>>
  BY DEF Marching, List, JobDone, JobAborted, JobDropped, SrcOnly, Match, DstOnly, Called, Offer, Put,
       pipes, deletes, renames, errors

\* The checkers work on the trees and the pipes.
LEMMA FootChecking ==
  ASSUME NEW c \in Checker, Checking(c)
  PROVE  UNCHANGED <<march, busy, renames, deletes, stage, first>>
  BY DEF Checking, Exit, Check, works

\* The renamers work on the destination, the pipes and the map of renames.
LEMMA FootRenaming ==
  ASSUME NEW r \in Renamer, Renaming(r)
  PROVE  /\ UNCHANGED <<src, backup, march, busy, renameCheck>>
         /\ UNCHANGED <<dels, deleters, dead, delErr, deleted, stage, first>>
  BY DEF Renaming, Exit, Rename, works, trees, renames, deletes

\* The transfers work on the trees and take from their pipe.
LEMMA FootTransferring ==
  ASSUME NEW t \in Transfer, Transferring(t)
  PROVE  UNCHANGED <<backup, march, open, blocked, renames, deletes, stage, first>>
  BY DEF Transferring, Exit, TransferStart, TransferCopied, TransferOK, TransferFailed, TransferLimit, Taken, trees, pipes

\* The end of a Put.
LEMMA FootPutting ==
  ASSUME NEW w \in Producer, Putting(w)
  PROVE  UNCHANGED <<trees, march, queue, open, busy, renames, deletes, errors, stage, faults, first>>
  BY DEF Putting, Sent, Unsent, works

\* The deleters work on the destination and the backup.
LEMMA FootDeleting ==
  ASSUME Deleting
  PROVE  UNCHANGED <<src, march, pipes, works, renames, dstFiles, stage, first>>
  BY DEF Deleting, DeletersReturn, DeleteOne, trees

\* run works on neither tree.
LEMMA FootMain ==
  ASSUME Main
  PROVE  UNCHANGED <<trees, deleted, faults, first>>
  BY DEF Main, Marched, MakeRenameMap, RenamesSent, Checked, Renamed, TransfersDone, DeletersDone,
       PumpEnds, AfterDone, Return, SecondPass, OfferRename, Pump, deletes

\* run works on the march, the transfers and the pipes' contents only when it
\* starts the second pass, or offers a rename.
LEMMA FootMainFirst ==
  ASSUME Main
  PROVE  \/ SecondPass
         \/ UNCHANGED <<march, busy, tokens, dead, delErr, mode>>
  BY DEF Main, Marched, MakeRenameMap, RenamesSent, Checked, Renamed, TransfersDone, DeletersDone,
       PumpEnds, AfterDone, Return, OfferRename, Put, Pump, deletes, pipes, works, stage

\* A deadline or a cancellation changes the contexts only.
LEMMA FootLimits ==
  ASSUME Deadline \/ Cancel
  PROVE  UNCHANGED <<trees, march, pipes, works, renames, deletes, errs, counted, stage, first>>
  BY DEF Deadline, Cancel

\* The actors.
LEMMA Actors ==
  ASSUME TPipes, [Next]_vars
  PROVE  \/ \E d \in Dir : Marching(d)
         \/ \E c \in Checker : Checking(c)
         \/ \E r \in Renamer : Renaming(r)
         \/ \E t \in Transfer : Transferring(t)
         \/ \E w \in Producer : Putting(w)
         \/ Deleting \/ Main \/ Deadline \/ Cancel
         \/ UNCHANGED vars
  <1>1. DOMAIN blocked = Producer
    BY DEF TPipes
  <1>2. QED
    BY <1>1 DEF Next, Done

-----------------------------------------------------------------------------
(* Types are preserved *)

\* Where an error is filed.
LEMMA ClassFacts ==
  ASSUME NEW err
  PROVE  /\ Class(err) \subseteq {"err", "noretry", "fatal"}
         /\ err \in {"none", "live"} => Class(err) = {}
         /\ err \notin {"none", "live", "canceled"} => Class(err) # {}
  <1>1. CASE err \in {"none", "live"}
    BY <1>1 DEF Class
  <1>2. CASE err \in {"deadline", "graceful", "noretry"}
    BY <1>2 DEF Class
  <1>3. CASE err = "canceled"
    BY <1>3 DEF Class
  <1>4. CASE err = "fatal"
    BY <1>4 DEF Class
  <1>5. CASE err \notin {"none", "live", "deadline", "graceful", "noretry", "canceled", "fatal"}
    <2>1. Class(err) = {"err"}
      BY <1>5 DEF Class
    <2>2. QED
      BY <1>5, <2>1
  <1>6. QED
    BY <1>1, <1>2, <1>3, <1>4, <1>5

\* Reporting an error is type correct.
LEMMA ReportTyped ==
  ASSUME TErrors, NEW err, NEW count \in BOOLEAN, Report(err, count), faults' \in Nat
  PROVE  TErrors'
  <1>1. errs' \subseteq {"err", "noretry", "fatal"}
    BY ClassFacts DEF TErrors, Report
  <1>2. counted' \in BOOLEAN
    BY Zenon DEF TErrors, Report
  <1>3. /\ ctx' \in {"live", "canceled", "deadline"} /\ inCtx' \in {"live", "canceled", "deadline"}
    BY DEF TErrors, Report
  <1>4. QED
    BY <1>1, <1>2, <1>3 DEF TErrors

\* A failure is counted.
LEMMA FaultTyped ==
  ASSUME TErrors, NEW kind, Fault(kind)
  PROVE  faults' \in Nat
  BY DEF TErrors, Fault

\* The trees keep their type.
LEMMA NextTTrees ==
  ASSUME Types, [Next]_vars
  PROVE  TTrees'
  <1>1. src \in Tree /\ dst \in Tree /\ backup \in Tree /\ Absent \in Content \cup {Absent}
    BY DEF Types, TTrees
  <1>2. CASE UNCHANGED trees
    BY <1>1, <1>2 DEF TTrees, trees
  <1>3. ASSUME NEW c \in Checker, Checking(c)
        PROVE  TTrees'
    <2>1. CASE Exit(c, "check")
      BY <1>2, <2>1 DEF Exit
    <2>2. ASSUME NEW pair \in Pair, Check(c, pair)
          PROVE  TTrees'
      <3>1. pair.file \in File
        BY DEF Pair
      <3>2. src' \in Tree
        BY <1>1, <2>2, <3>1 DEF Check, Tree, trees
      <3>3. dst' \in Tree
        BY <1>1, <2>2, <3>1 DEF Check, Tree, trees
      <3>4. backup' \in Tree
        BY <1>1, <2>2, <3>1 DEF Check, Tree, trees
      <3>5. QED
        BY <3>2, <3>3, <3>4 DEF TTrees
    <2>3. QED
      BY <1>3, <2>1, <2>2 DEF Checking
  <1>4. ASSUME NEW r \in Renamer, Renaming(r)
        PROVE  TTrees'
    <2>1. UNCHANGED <<src, backup>>
      BY <1>4, FootRenaming
    <2>2. CASE Exit(r, "rename")
      BY <1>2, <2>2 DEF Exit
    <2>3. ASSUME NEW pair \in Pair, Rename(r, pair)
          PROVE  dst' \in Tree
      <3>1. pair.file \in File /\ renameMap \subseteq File
        BY DEF Pair, Types, TNames
      <3>2. CASE dst' = dst
        BY <1>1, <3>2
      <3>3. ASSUME NEW x \in renameMap, dst' = [dst EXCEPT ![pair.file] = dst[x], ![x] = Absent]
            PROVE  dst' \in Tree
        BY <1>1, <3>1, <3>3 DEF Tree
      <3>4. ASSUME NEW x \in renameMap, NEW kept \in {dst[pair.file], Absent, dst[x]},
                   dst' = [dst EXCEPT ![pair.file] = kept]
            PROVE  dst' \in Tree
        BY <1>1, <3>1, <3>4 DEF Tree
      <3>5. QED
        BY <2>3, <3>2, <3>3, <3>4 DEF Rename
    <2>4. QED
      BY <1>1, <1>4, <2>1, <2>2, <2>3 DEF Renaming, TTrees
  <1>5. ASSUME NEW t \in Transfer, Transferring(t)
        PROVE  TTrees'
    <2>1. backup' = backup
      BY <1>5, FootTransferring
    <2>2. CASE Exit(t, "upload") \/ \E pair \in Pair : TransferStart(t, pair)
      BY <1>2, <2>2 DEF Exit, TransferStart
    <2>3. ASSUME NEW pair \in Pair,
                 \/ TransferCopied(t, pair) \/ TransferOK(t, pair) \/ TransferFailed(t, pair)
                 \/ TransferLimit(t, pair)
          PROVE  src' \in Tree /\ dst' \in Tree
      <3>1. pair.file \in File
        BY DEF Pair
      <3>2. CASE TransferOK(t, pair)
        BY <1>1, <3>1, <3>2 DEF TransferOK, Tree
      <3>3. CASE TransferFailed(t, pair)
        BY <1>1, <3>1, <3>3 DEF TransferFailed, Tree
      <3>4. CASE TransferLimit(t, pair)
        BY <1>1, <3>1, <3>4 DEF TransferLimit, Tree
      <3>5. CASE TransferCopied(t, pair)
        BY <1>1, <3>1, <3>5 DEF TransferCopied, Tree
      <3>6. QED
        BY <2>3, <3>2, <3>3, <3>4, <3>5
    <2>4. QED
      BY <1>1, <1>5, <2>1, <2>2, <2>3 DEF Transferring, TTrees
  <1>6. CASE Deleting
    <2>1. src' = src
      BY <1>6, FootDeleting
    <2>2. CASE DeletersReturn
      BY <1>2, <2>2 DEF DeletersReturn
    <2>3. ASSUME NEW f \in File, DeleteOne(f)
          PROVE  dst' \in Tree /\ backup' \in Tree
      BY <1>1, <2>3 DEF DeleteOne, Saved, Tree
    <2>4. QED
      BY <1>1, <1>6, <2>1, <2>2, <2>3 DEF Deleting, TTrees
  <1>7. QED
    <2>1. CASE \/ \E d \in Dir : Marching(d)
               \/ \E w \in Producer : Putting(w)
               \/ Main \/ Deadline \/ Cancel \/ UNCHANGED vars
      BY <1>2, <2>1, FootMarching, FootPutting, FootMain, FootLimits DEF vars
    <2>2. QED
      BY <1>3, <1>4, <1>5, <1>6, <2>1, Actors DEF Types

\* The march keeps its types.
LEMMA NextTMarch ==
  ASSUME Types, [Next]_vars
  PROVE  TMarch'
  <1>1. TMarch
    BY DEF Types
  <1>2. CASE UNCHANGED march
    BY <1>1, <1>2 DEF TMarch, march
  <1>3. ASSUME NEW d \in Dir, Marching(d)
        PROVE  TMarch'
    <2>1. CASE List(d)
      BY <1>1, <2>1 DEF List, TMarch
    <2>2. ASSUME NEW f \in File, SrcOnly(d, f) \/ Match(d, f) \/ DstOnly(d, f)
          PROVE  TMarch'
      <3>1. Called(d, f)
        BY <2>2 DEF SrcOnly, Match, DstOnly
      <3>2. QED
        BY <1>1, <3>1 DEF Called, TMarch
    <2>3. CASE JobDone(d) \/ JobAborted(d) \/ JobDropped(d)
      <3>1. inCtx \in {"live", "canceled", "deadline"}
        BY DEF Types, TErrors
      <3>2. jobErr' \in {"none", "err", "canceled", "deadline"}
        BY <1>1, <2>3, <3>1 DEF JobDone, JobAborted, JobDropped, Joined, JobError, TMarch
      <3>3. job' = [job EXCEPT ![d] = "done"] /\ UNCHANGED <<todo, failed>>
        BY <2>3 DEF JobDone, JobAborted, JobDropped
      <3>4. QED
        BY <1>1, <3>2, <3>3 DEF TMarch
    <2>4. QED
      BY <1>3, <2>1, <2>2, <2>3 DEF Marching
  <1>4. CASE SecondPass
    BY <1>4 DEF SecondPass, TMarch
  <1>5. QED
    <2>1. CASE \/ \E c \in Checker : Checking(c)
               \/ \E r \in Renamer : Renaming(r)
               \/ \E t \in Transfer : Transferring(t)
               \/ \E w \in Producer : Putting(w)
               \/ Deleting \/ Deadline \/ Cancel \/ UNCHANGED vars
      BY <1>2, <2>1, FootChecking, FootRenaming, FootTransferring, FootPutting, FootDeleting, FootLimits DEF vars
    <2>2. CASE Main
      BY <1>2, <1>4, <2>2, FootMainFirst
    <2>3. QED
      BY <1>3, <2>1, <2>2, Actors DEF Types

\* The pipes keep their types, and hold no more than the backlog.
LEMMA NextTPipes ==
  ASSUME Types, [Next]_vars
  PROVE  TPipes'
  <1>1. /\ queue \in [Pipe -> SUBSET Pair] /\ tokens \in [Pipe -> Nat] /\ open \in [Pipe -> BOOLEAN]
        /\ \A p \in Pipe : (~CheckFirst => tokens[p] <= Backlog)
        /\ blocked \in [Producer -> Pipe \cup {Nobody}] /\ Backlog \in Nat \ {0}
        /\ "check" \in Pipe /\ "rename" \in Pipe /\ "upload" \in Pipe
    BY SyncAssumption DEF Types, TPipes, Pipe
  <1>2. CASE UNCHANGED <<pipes, opt>>
    BY <1>1, <1>2 DEF TPipes, pipes, CheckFirst
  <1>3. ASSUME NEW who \in Producer, NEW p \in Pipe, NEW pair \in Pair, Put(who, p, pair), UNCHANGED opt
        PROVE  TPipes'
    BY <1>1, <1>3 DEF Put, TPipes, CheckFirst
  <1>4. ASSUME NEW p \in Pipe, NEW pair \in Pair, Taken(p, pair), tokens[p] > 0, UNCHANGED opt
        PROVE  TPipes'
    <2>1. UNCHANGED <<open, blocked>> /\ queue' \in [Pipe -> SUBSET Pair]
      BY <1>1, <1>4 DEF Taken
    <2>2. tokens' \in [Pipe -> Nat] /\ \A q \in Pipe : tokens'[q] <= tokens[q]
      BY <1>1, <1>4 DEF Taken
    <2>3. \A q \in Pipe : (~CheckFirst' => tokens'[q] <= Backlog)
      BY <1>1, <1>4, <2>2 DEF CheckFirst
    <2>4. QED
      BY <1>1, <2>1, <2>2, <2>3 DEF TPipes
  <1>5. ASSUME NEW w \in Producer, NEW p \in Pipe, NEW pair \in Pair, NEW new \in Pair,
               PassedOn(w, p, pair, "upload", new), tokens[p] > 0, UNCHANGED opt
        PROVE  TPipes'
    <2>1. open' = open /\ queue' \in [Pipe -> SUBSET Pair] /\ blocked' \in [Producer -> Pipe \cup {Nobody}]
      BY <1>1, <1>5 DEF PassedOn
    <2>2. tokens' \in [Pipe -> Nat] /\ \A q \in Pipe : tokens'[q] <= tokens[q]
      BY <1>1, <1>5 DEF PassedOn
    <2>3. \A q \in Pipe : (~CheckFirst' => tokens'[q] <= Backlog)
      BY <1>1, <1>5, <2>2 DEF CheckFirst
    <2>4. QED
      BY <1>1, <2>1, <2>2, <2>3 DEF TPipes
  <1>6. ASSUME NEW d \in Dir, Marching(d)
        PROVE  TPipes'
    <2>1. opt' = opt
      BY <1>6, FootMarching DEF first
    <2>2. d \in Producer
      BY DEF Producer
    <2>3. \/ UNCHANGED pipes
          \/ \E f \in File : Put(d, "upload", [file |-> f, to |-> "nil"])
          \/ \E f \in File : Put(d, "check", [file |-> f, to |-> "dst"])
      BY <1>6 DEF Marching, List, JobDone, JobAborted, JobDropped, SrcOnly, Match, DstOnly, Offer
    <2>4. \A f \in File : [file |-> f, to |-> "nil"] \in Pair /\ [file |-> f, to |-> "dst"] \in Pair
      BY DEF Pair
    <2>5. QED
      BY <1>1, <1>2, <1>3, <2>1, <2>2, <2>3, <2>4
  <1>7. ASSUME NEW c \in Checker, Checking(c)
        PROVE  TPipes'
    <2>1. opt' = opt
      BY <1>7, FootChecking DEF first
    <2>2. c \in Producer
      BY DEF Producer
    <2>3. CASE Exit(c, "check")
      BY <1>2, <2>1, <2>3 DEF Exit
    <2>4. ASSUME NEW pair \in Pair, Check(c, pair)
          PROVE  TPipes'
      <3>1. tokens["check"] > 0
        BY <2>4 DEF Check, Get
      <3>2. \/ Taken("check", pair)
            \/ \E to \in {"nil", "dst", "src"} :
                 PassedOn(c, "check", pair, "upload", [file |-> pair.file, to |-> to])
        BY <2>4 DEF Check
      <3>3. \A to \in {"nil", "dst", "src"} : [file |-> pair.file, to |-> to] \in Pair
        BY DEF Pair
      <3>4. QED
        BY <1>1, <1>4, <1>5, <2>1, <2>2, <3>1, <3>2, <3>3
    <2>5. QED
      BY <1>7, <2>3, <2>4 DEF Checking
  <1>8. ASSUME NEW r \in Renamer, Renaming(r)
        PROVE  TPipes'
    <2>1. opt' = opt
      BY <1>8, FootRenaming DEF first
    <2>2. r \in Producer
      BY DEF Producer
    <2>3. CASE Exit(r, "rename")
      BY <1>2, <2>1, <2>3 DEF Exit
    <2>4. ASSUME NEW pair \in Pair, Rename(r, pair)
          PROVE  TPipes'
      <3>1. tokens["rename"] > 0
        BY <2>4 DEF Rename, Get
      <3>2. Taken("rename", pair) \/ PassedOn(r, "rename", pair, "upload", pair)
        BY <2>4 DEF Rename
      <3>3. QED
        BY <1>1, <1>4, <1>5, <2>1, <2>2, <3>1, <3>2
    <2>5. QED
      BY <1>8, <2>3, <2>4 DEF Renaming
  <1>9. ASSUME NEW t \in Transfer, Transferring(t)
        PROVE  TPipes'
    <2>1. opt' = opt
      BY <1>9, FootTransferring DEF first
    <2>2. \/ UNCHANGED pipes
          \/ \E pair \in Pair : Taken("upload", pair) /\ tokens["upload"] > 0
      BY <1>9 DEF Transferring, Exit, TransferStart, TransferCopied, TransferOK, TransferFailed, TransferLimit, Get
    <2>3. QED
      BY <1>1, <1>2, <1>4, <2>1, <2>2
  <1>10. ASSUME NEW w \in Producer, Putting(w)
         PROVE  TPipes'
    <2>1. UNCHANGED <<opt, queue, open>>
      BY <1>10, FootPutting DEF first
    <2>2. CASE Sent(w)
      <3>1. PICK p \in Pipe : blocked[w] = p
        BY <1>1, <2>2 DEF Sent
      <3>2. /\ tokens' = [tokens EXCEPT ![p] = @ + 1] /\ blocked' = [blocked EXCEPT ![w] = Nobody]
            /\ CheckFirst \/ tokens[p] < Backlog
        BY <2>2, <3>1 DEF Sent, HasRoom
      <3>3. tokens' \in [Pipe -> Nat] /\ blocked' \in [Producer -> Pipe \cup {Nobody}]
        BY <1>1, <3>2
      <3>4. \A q \in Pipe : tokens'[q] = IF q = p THEN tokens[p] + 1 ELSE tokens[q]
        BY <1>1, <3>2
      <3>5. \A q \in Pipe : (~CheckFirst' => tokens'[q] <= Backlog)
        BY <1>1, <2>1, <3>2, <3>4 DEF CheckFirst
      <3>6. QED
        BY <1>1, <2>1, <3>3, <3>5 DEF TPipes
    <2>3. CASE Unsent(w)
      <3>1. tokens' = tokens /\ blocked' = [blocked EXCEPT ![w] = Nobody]
        BY <2>3 DEF Unsent
      <3>2. QED
        BY <1>1, <2>1, <3>1 DEF TPipes, CheckFirst
    <2>4. QED
      BY <1>10, <2>2, <2>3 DEF Putting
  <1>11. CASE Main
    <2>1. opt' = opt
      BY <1>11, FootMain DEF first
    <2>2. CASE SecondPass
      BY <1>1, <2>1, <2>2 DEF SecondPass, TPipes, CheckFirst, Unblocked
    <2>3. ASSUME NEW f \in File, OfferRename(f)
          PROVE  TPipes'
      <3>1. "main" \in Producer /\ [file |-> f, to |-> "nil"] \in Pair
        BY DEF Producer, Pair
      <3>2. QED
        BY <1>1, <1>3, <2>1, <2>3, <3>1 DEF OfferRename
    <2>4. CASE ~SecondPass /\ ~\E f \in File : OfferRename(f)
      <3>1. UNCHANGED <<queue, tokens, blocked>>
        BY <1>11, <2>4 DEF Main, Marched, MakeRenameMap, RenamesSent, Checked, Renamed, TransfersDone,
             DeletersDone, PumpEnds, AfterDone, Return, Pump, pipes
      <3>2. open' \in [Pipe -> BOOLEAN]
        BY <1>1, <1>11, <2>4 DEF Main, Marched, MakeRenameMap, RenamesSent, Checked, Renamed, TransfersDone,
             DeletersDone, PumpEnds, AfterDone, Return, Pump, pipes, TrackRenames
      <3>3. QED
        BY <1>1, <2>1, <3>1, <3>2 DEF TPipes, CheckFirst
    <2>5. QED
      BY <2>2, <2>3, <2>4
  <1>12. QED
    <2>1. CASE Deleting \/ Deadline \/ Cancel \/ UNCHANGED vars
      BY <1>2, <2>1, FootDeleting, FootLimits DEF vars, first
    <2>2. QED
      BY <1>6, <1>7, <1>8, <1>9, <1>10, <1>11, <2>1, Actors DEF Types

\* The goroutines keep their types.
LEMMA NextTWorks ==
  ASSUME Types, [Next]_vars
  PROVE  TWorks'
  <1>1. /\ work \in [Worker -> {"none", "idle", "exited"}] /\ DOMAIN work = Worker
        /\ busy \in [Transfer -> {{}} \cup {{pair} : pair \in Pair}]
    BY DEF Types, TWorks
  <1>2. CASE UNCHANGED works
    BY <1>1, <1>2 DEF TWorks, works
  <1>3. ASSUME NEW w \in Worker, NEW p, Exit(w, p)
        PROVE  TWorks'
    BY <1>1, <1>3 DEF Exit, TWorks
  <1>4. ASSUME NEW t \in Transfer, Transferring(t)
        PROVE  TWorks'
    <2>1. CASE Exit(t, "upload")
      BY <1>3, <2>1 DEF Worker
    <2>2. ASSUME NEW pair \in Pair,
                 \/ TransferStart(t, pair) \/ TransferCopied(t, pair) \/ TransferOK(t, pair)
                 \/ TransferFailed(t, pair) \/ TransferLimit(t, pair)
          PROVE  TWorks'
      <3>1. [file |-> pair.file, to |-> "src"] \in Pair
        BY DEF Pair
      <3>2. work' = work /\ \E s \in {{}, {pair}, {[file |-> pair.file, to |-> "src"]}} : busy' = [busy EXCEPT ![t] = s]
        BY <2>2 DEF TransferStart, TransferCopied, TransferOK, TransferFailed, TransferLimit, Transferred
      <3>3. QED
        BY <1>1, <3>1, <3>2 DEF TWorks
    <2>3. QED
      BY <1>4, <2>1, <2>2 DEF Transferring
  <1>5. ASSUME NEW w \in Producer, Putting(w)
        PROVE  TWorks'
    <2>1. busy' = busy
      BY <1>5, FootPutting
    <2>2. work' = work \/ work' = [v \in DOMAIN work |-> IF v = w THEN "exited" ELSE work[v]]
      BY <1>5 DEF Putting, Sent, Unsent, works
    <2>3. QED
      BY <1>1, <2>1, <2>2 DEF TWorks
  <1>6. CASE Main
    <2>1. CASE SecondPass
      BY <2>1 DEF SecondPass, TWorks, Started
    <2>2. CASE Checked
      BY <1>1, <2>2 DEF Checked, TWorks
    <2>3. CASE ~SecondPass /\ ~Checked
      BY <1>2, <1>6, <2>3 DEF Main, Marched, MakeRenameMap, RenamesSent, Renamed, TransfersDone,
           DeletersDone, PumpEnds, AfterDone, Return, Pump, OfferRename
    <2>4. QED
      BY <2>1, <2>2, <2>3
  <1>7. ASSUME NEW c \in Checker, Checking(c)
        PROVE  TWorks'
    BY <1>2, <1>3, <1>7 DEF Checking, Check, Worker
  <1>8. ASSUME NEW r \in Renamer, Renaming(r)
        PROVE  TWorks'
    BY <1>2, <1>3, <1>8 DEF Renaming, Rename, Worker
  <1>9. QED
    <2>1. CASE (\E d \in Dir : Marching(d)) \/ Deleting \/ Deadline \/ Cancel \/ UNCHANGED vars
      BY <1>2, <2>1, FootMarching, FootDeleting, FootLimits DEF vars
    <2>2. QED
      BY <1>4, <1>5, <1>6, <1>7, <1>8, <2>1, Actors DEF Types

\* The lists of names keep their types.
LEMMA NextTNames ==
  ASSUME Types, [Next]_vars
  PROVE  TNames'
  <1>1. TNames
    BY DEF Types
  <1>2. CASE UNCHANGED <<renames, dstFiles, dels, deleted>>
    BY <1>1, <1>2 DEF TNames, renames
  <1>3. ASSUME NEW d \in Dir, Marching(d)
        PROVE  TNames'
    <2>1. UNCHANGED <<renameMap, deleted>>
      BY <1>3, FootMarching
    <2>2. /\ renameCheck' = renameCheck \/ \E f \in File : renameCheck' = renameCheck \cup {f}
          /\ dstFiles' = dstFiles \/ \E f \in File : dstFiles' = dstFiles \cup {f}
          /\ dels' = dels \/ \E f \in File : dels' = dels \cup {f}
      BY <1>3 DEF Marching, List, JobDone, JobAborted, JobDropped, SrcOnly, Match, DstOnly, renames, deletes
    <2>3. QED
      BY <1>1, <2>1, <2>2 DEF TNames
  <1>4. ASSUME NEW r \in Renamer, Renaming(r)
        PROVE  TNames'
    <2>1. UNCHANGED <<renameCheck, dels, deleted>>
      BY <1>4, FootRenaming
    <2>2. renameMap' \subseteq renameMap /\ dstFiles' \subseteq dstFiles
      BY <1>4 DEF Renaming, Exit, Rename, renames, deletes
    <2>3. QED
      BY <1>1, <2>1, <2>2 DEF TNames
  <1>5. CASE Deleting
    <2>1. UNCHANGED <<renames, dstFiles>>
      BY <1>5, FootDeleting
    <2>2. dels' \subseteq dels /\ (deleted' = deleted \/ \E f \in File : deleted' = deleted \cup {f})
      BY <1>5 DEF Deleting, DeletersReturn, DeleteOne
    <2>3. QED
      BY <1>1, <2>1, <2>2 DEF TNames, renames
  <1>6. CASE Main
    <2>1. deleted' = deleted
      BY <1>6, FootMain
    <2>2. /\ renameCheck' \subseteq renameCheck
          /\ renameMap' = renameMap \/ renameMap' \subseteq dstFiles
          /\ dstFiles' \subseteq dstFiles
          /\ dels' = dels \/ dels' = {} \/ \E f \in File : dels' = dels \cup {f}
      BY <1>6 DEF Main, Marched, MakeRenameMap, RenamesSent, Checked, Renamed, TransfersDone, DeletersDone,
           PumpEnds, AfterDone, Return, SecondPass, OfferRename, Pump, deletes, renames
    <2>3. QED
      BY <1>1, <2>1, <2>2 DEF TNames
  <1>7. QED
    <2>1. CASE \/ \E c \in Checker : Checking(c)
               \/ \E t \in Transfer : Transferring(t)
               \/ \E w \in Producer : Putting(w)
               \/ Deadline \/ Cancel \/ UNCHANGED vars
      BY <1>2, <2>1, FootChecking, FootTransferring, FootPutting, FootLimits DEF vars, deletes
    <2>2. QED
      BY <1>3, <1>4, <1>5, <1>6, <2>1, Actors DEF Types

\* The deleters keep their types.
LEMMA NextTDeletes ==
  ASSUME Types, [Next]_vars
  PROVE  TDeletes'
  <1>1. TDeletes /\ Cardinality(Checker) \in Nat
    BY SyncAssumption, FS_CardinalityType DEF Types
  <1>2. CASE UNCHANGED <<deleters, dead, delErr>>
    BY <1>1, <1>2 DEF TDeletes
  <1>3. CASE Deleting
    <2>1. CASE DeletersReturn
      BY <1>1, <2>1 DEF DeletersReturn, TDeletes
    <2>2. ASSUME NEW f \in File, DeleteOne(f)
          PROVE  TDeletes'
      <3>1. deleters' = deleters /\ delErr' \in {"none", "err", "fatal"}
        BY <1>1, <2>2 DEF DeleteOne, TDeletes
      <3>2. dead' = dead \/ (dead' = dead + 1 /\ dead # Cardinality(Checker))
        BY <2>2 DEF DeleteOne, AllDead
      <3>3. dead' \in 0 .. Cardinality(Checker)
        BY <1>1, <3>2 DEF TDeletes
      <3>4. QED
        BY <1>1, <3>1, <3>3 DEF TDeletes
    <2>3. QED
      BY <1>3, <2>1, <2>2 DEF Deleting
  <1>4. CASE Main
    <2>1. CASE SecondPass
      BY <1>1, <2>1 DEF SecondPass, TDeletes
    <2>2. CASE ~SecondPass
      <3>1. UNCHANGED <<dead, delErr>>
        BY <1>4, <2>2, FootMainFirst
      <3>2. deleters' = deleters \/ deleters' \in {"open", "closed"}
        BY <1>4, <2>2 DEF Main, Marched, MakeRenameMap, RenamesSent, Checked, Renamed, TransfersDone,
             DeletersDone, PumpEnds, AfterDone, Return, OfferRename, Pump, deletes
      <3>3. QED
        BY <1>1, <3>1, <3>2 DEF TDeletes
    <2>3. QED
      BY <2>1, <2>2
  <1>5. QED
    <2>1. CASE \/ \E d \in Dir : Marching(d)
               \/ \E c \in Checker : Checking(c)
               \/ \E r \in Renamer : Renaming(r)
               \/ \E t \in Transfer : Transferring(t)
               \/ \E w \in Producer : Putting(w)
               \/ Deadline \/ Cancel \/ UNCHANGED vars
      BY <1>2, <2>1, FootMarching, FootChecking, FootRenaming, FootTransferring, FootPutting, FootLimits
         DEF vars, deletes
    <2>2. QED
      BY <1>3, <1>4, <2>1, Actors DEF Types

\* The errors and the contexts keep their types.
LEMMA NextTErrors ==
  ASSUME Types, [Next]_vars
  PROVE  TErrors'
  <1>1. TErrors /\ TRUE \in BOOLEAN /\ FALSE \in BOOLEAN
    BY DEF Types
  <1>2. CASE UNCHANGED <<errors, faults>>
    BY <1>1, <1>2 DEF TErrors, errors
  <1>3. ASSUME NEW kind, Fault(kind), UNCHANGED errors
        PROVE  TErrors'
    BY <1>1, <1>3, FaultTyped DEF TErrors, errors
  <1>4. ASSUME NEW kind, Fault(kind), NEW err, Report(err, TRUE)
        PROVE  TErrors'
    BY <1>1, <1>4, FaultTyped, ReportTyped
  <1>5. ASSUME NEW err, NEW count \in BOOLEAN, Report(err, count), UNCHANGED faults
        PROVE  TErrors'
    BY <1>1, <1>5, ReportTyped DEF TErrors
  <1>6. ASSUME counted' \in BOOLEAN, faults' \in Nat, UNCHANGED <<errs, ctx, inCtx>>
        PROVE  TErrors'
    BY <1>1, <1>6 DEF TErrors
  <1>7. ASSUME NEW d \in Dir, Marching(d)
        PROVE  TErrors'
    <2>1. CASE List(d)
      <3>1. UNCHANGED errors /\ (faults' = faults \/ \E kind \in {"srclist", "dstlist"} : Fault(kind))
        BY <2>1 DEF List
      <3>2. QED
        BY <1>2, <1>3, <3>1
    <2>2. CASE JobDone(d)
      <3>1. counted' \in BOOLEAN
        BY <1>1, <2>2, Zenon DEF JobDone, TErrors
      <3>2. QED
        BY <1>1, <1>6, <2>2, <3>1 DEF JobDone, TErrors
    <2>3. CASE ~List(d) /\ ~JobDone(d)
      BY <1>2, <1>7, <2>3 DEF Marching, JobAborted, JobDropped, SrcOnly, Match, DstOnly, Called
    <2>4. QED
      BY <2>1, <2>2, <2>3
  <1>8. ASSUME NEW c \in Checker, Checking(c)
        PROVE  TErrors'
    <2>1. \/ UNCHANGED <<errors, faults>>
          \/ Report("noretry", TRUE) /\ UNCHANGED faults
          \/ \E kind \in {"backup", "delete"} : Fault(kind) /\ Report("err", TRUE)
      BY <1>8 DEF Checking, Exit, Check, NoError
    <2>2. QED
      BY <1>1, <1>2, <1>4, <1>5, <2>1
  <1>9. ASSUME NEW r \in Renamer, Renaming(r)
        PROVE  TErrors'
    <2>1. \/ UNCHANGED <<errors, faults>>
          \/ Fault("rename") /\ counted' = TRUE /\ UNCHANGED <<errs, ctx, inCtx>>
      BY <1>9 DEF Renaming, Exit, Rename, NoError
    <2>2. QED
      BY <1>1, <1>2, <1>6, <2>1, FaultTyped
  <1>10. ASSUME NEW t \in Transfer, Transferring(t)
         PROVE  TErrors'
    <2>1. \/ UNCHANGED <<errors, faults>>
          \/ \E kind \in {"copy", "fatal", "limit"}, err \in {"err", "fatal", "graceful"} :
               Fault(kind) /\ Report(err, TRUE)
          \/ Report("err", TRUE) /\ UNCHANGED faults
      BY <1>10 DEF Transferring, Exit, TransferStart, TransferCopied, TransferOK, TransferFailed, TransferLimit
    <2>2. QED
      BY <1>1, <1>2, <1>4, <1>5, <2>1
  <1>11. CASE Deleting
    <2>1. CASE DeletersReturn
      BY <1>1, <1>5, <2>1 DEF DeletersReturn
    <2>2. ASSUME NEW f \in File, DeleteOne(f)
          PROVE  TErrors'
      <3>1. /\ UNCHANGED <<errs, ctx, inCtx>>
            /\ counted' = counted \/ counted' = TRUE
            /\ faults' = faults \/ \E kind \in {"delete", "maxdelete"} : Fault(kind)
        BY <2>2 DEF DeleteOne
      <3>2. QED
        BY <1>1, <1>6, <3>1, FaultTyped DEF TErrors
    <2>3. QED
      BY <1>11, <2>1, <2>2 DEF Deleting
  <1>12. CASE Main
    <2>1. faults' = faults
      BY <1>12, FootMain
    <2>2. CASE SecondPass
      BY <1>1, <2>2 DEF SecondPass, TErrors
    <2>3. CASE Return
      <3>1. Final \subseteq {"err", "noretry", "fatal"}
        BY <1>1, ClassFacts DEF Final, TErrors
      <3>2. QED
        BY <1>1, <2>1, <2>3, <3>1 DEF Return, TErrors
    <2>4. CASE ~SecondPass /\ ~Return
      <3>1. UNCHANGED errors \/ \E err : Report(err, FALSE)
        BY <1>12, <2>4 DEF Main, Marched, MakeRenameMap, RenamesSent, Checked, Renamed, TransfersDone,
             DeletersDone, PumpEnds, AfterDone, OfferRename, Pump
      <3>2. QED
        BY <1>1, <1>2, <1>5, <2>1, <3>1
    <2>5. QED
      BY <2>2, <2>3, <2>4
  <1>13. CASE Deadline \/ Cancel
    <2>1. faults' \in Nat
      BY <1>1, <1>13, FaultTyped DEF Deadline, Cancel, TErrors
    <2>2. QED
      BY <1>1, <1>13, <2>1 DEF Deadline, Cancel, TErrors
  <1>14. QED
    <2>1. CASE (\E w \in Producer : Putting(w)) \/ UNCHANGED vars
      BY <1>2, <2>1, FootPutting DEF vars
    <2>2. QED
      BY <1>7, <1>8, <1>9, <1>10, <1>11, <1>12, <1>13, <2>1, Actors DEF Types

\* All types are preserved.
LEMMA NextTypes == Types /\ [Next]_vars => Types'
  <1> SUFFICES ASSUME Types, [Next]_vars PROVE Types'
    OBVIOUS
  <1>1. UNCHANGED first
    BY Actors, FootMarching, FootChecking, FootRenaming, FootTransferring, FootPutting, FootDeleting,
       FootMain, FootLimits DEF vars, Types
  <1>2. TFirst'
    BY <1>1 DEF Types, TFirst, first
  <1>3. TStage'
    <2>1. TStage
      BY DEF Types
    <2>2. CASE UNCHANGED stage
      BY <2>1, <2>2 DEF TStage, stage
    <2>3. CASE Main
      BY <2>1, <2>3 DEF Main, Marched, MakeRenameMap, RenamesSent, Checked, Renamed, TransfersDone,
           DeletersDone, PumpEnds, AfterDone, OfferRename, Pump, Return, SecondPass, TStage, stage
    <2>4. QED
      BY <2>2, <2>3, Actors, FootMarching, FootChecking, FootRenaming, FootTransferring, FootPutting,
         FootDeleting, FootLimits DEF vars, Types
  <1>4. QED
    BY <1>2, <1>3, NextTTrees, NextTMarch, NextTPipes, NextTWorks, NextTNames, NextTDeletes, NextTErrors DEF Types

\* The types at the start.
LEMMA InitTypes == Init => Types
  <1> SUFFICES ASSUME Init PROVE Types
    OBVIOUS
  <1>1. opt \in Option
    BY SyncAssumption DEF Init
  <1>2. opt.delete \in {"off", "before", "during", "after"}
    BY <1>1 DEF Option
  <1>3. TStage
    BY <1>2 DEF Init, TStage
  <1>4. TTrees /\ TFirst
    BY DEF Init, TTrees, TFirst, Tree
  <1>5. TMarch /\ TNames /\ TErrors
    BY DEF Init, TMarch, TNames, TErrors
  <1>6. TPipes
    BY SyncAssumption DEF Init, TPipes, Unblocked
  <1>7. TWorks
    BY DEF Init, TWorks, Started
  <1>8. TDeletes
    BY SyncAssumption, FS_CardinalityType DEF Init, TDeletes
  <1>9. QED
    BY <1>3, <1>4, <1>5, <1>6, <1>7, <1>8 DEF Types

\* The state of a run keeps its types, and no pipe holds more than the backlog.
THEOREM SyncTyped == Spec => []TypeOK
  <1>1. Types => TypeOK
    BY DEF Types, TypeOK, TTrees, TFirst, TMarch, TPipes, TWorks, TNames, TDeletes, TErrors, TStage, Tree
  <1>2. QED
    BY <1>1, InitTypes, NextTypes, PTL DEF Spec

-----------------------------------------------------------------------------
(* The options and the stages *)

Before == {"march", "map", "rename"}
Late == {"transfers", "deletes", "after", "end", "returned"}

\* What the options and the stage of run say of the lists of files.
Modes ==
  /\ opt.delete # "before" => mode = opt.delete
  /\ opt.delete = "before" => mode \in {"only", "off"}
  /\ main = "returned" /\ result = "running" => mode = "only"
  /\ result # "running" => main = "returned"
  /\ main \in {"map", "rename"} => TrackRenames
  /\ ~TrackRenames => renameCheck = {} /\ renameMap = {}
  /\ mode # "after" => dstFiles = {}
  /\ mode = "off" => dels = {}
  /\ main = "after" => mode = "after"
  /\ mode = "after" /\ main \notin {"after", "end", "returned"} => dels = {} /\ deleted = {} /\ deleters = "off"
  /\ main \notin Late => renameMap \subseteq dstFiles

\* What is open depends on the stage only.
Opened ==
  /\ open["check"] <=> main \in Before
  /\ open["upload"] <=> main \notin Late
  /\ main \in Before \cup {"checks"} => open["rename"]

\* Who is at work or waits depends on the stage.
Manned ==
  /\ main # "march" => \A d \in Dir : job[d] = "done"
  /\ \A d \in Dir : job[d] # "matching" => blocked[d] = Nobody
  /\ \A d \in Dir : blocked[d] # "rename"
  /\ blocked["main"] # Nobody => blocked["main"] = "rename" /\ main = "rename"
  /\ \A w \in Checker \cup Renamer : blocked[w] # Nobody => blocked[w] = "upload" /\ work[w] = "idle"
  /\ main \in {"renames"} \cup Late => \A c \in Checker : work[c] = "exited"
  /\ ~TrackRenames => \A r \in Renamer : work[r] = "none"
  /\ main \in Late => \A r \in Renamer : work[r] # "idle"

Stages == Opened /\ Manned

\* What newSyncCopyMove makes of the options.
LEMMA OptionFacts ==
  ASSUME TFirst
  PROVE  /\ opt.delete \in {"off", "before", "during", "after"}
         /\ DoMove => opt.delete = "off"
         /\ TrackRenames => opt.delete = "after"
  <1>1. opt \in Option
    BY SyncAssumption DEF TFirst
  <1>2. QED
    BY <1>1 DEF Option, DoMove, TrackRenames

\* The options of a run do not change.
LEMMA SameFirst ==
  ASSUME TPipes, [Next]_vars
  PROVE  UNCHANGED <<opt, src0, dst0>>
  BY Actors, FootMarching, FootChecking, FootRenaming, FootTransferring, FootPutting, FootDeleting,
     FootMain, FootLimits DEF vars, first

\* The names of goroutines, jobs and run are distinct.
LEMMA Distinct ==
  /\ "main" \in Producer /\ Dir \subseteq Producer /\ Checker \subseteq Producer /\ Renamer \subseteq Producer
  /\ Checker \subseteq Worker /\ Renamer \subseteq Worker /\ Transfer \subseteq Worker
  /\ \A d \in Dir : d # "main" /\ d \notin Worker
  /\ \A w \in Worker : w # "main"
  /\ \A c \in Checker : c \notin Renamer /\ c \notin Transfer
  /\ \A r \in Renamer : r \notin Transfer
  /\ \A t \in Transfer : t \notin Producer
  BY SyncAssumption DEF Producer, Worker

\* The lists of files follow the options.
LEMMA NextModes ==
  ASSUME Types, Modes, Stages, [Next]_vars
  PROVE  Modes'
  <1>1. /\ TFirst /\ TNames /\ TStage /\ TPipes /\ TWorks
        /\ opt.delete \in {"off", "before", "during", "after"}
        /\ TrackRenames => opt.delete = "after"
    BY OptionFacts DEF Types
  <1>2. opt' = opt /\ (TrackRenames' <=> TrackRenames)
    BY <1>1, SameFirst DEF TrackRenames
  <1>3. CASE UNCHANGED <<stage, renames, dstFiles, dels, deleted, deleters>>
    BY <1>2, <1>3 DEF Modes, stage, renames
  <1>4. ASSUME NEW d \in Dir, Marching(d)
        PROVE  Modes'
    <2>1. UNCHANGED <<stage, renameMap, deleted, deleters>>
      BY <1>4, FootMarching
    <2>2. /\ renameCheck' = renameCheck \/ TrackRenames
          /\ dstFiles' = dstFiles \/ (mode = "after" /\ dstFiles \subseteq dstFiles')
          /\ dels' = dels \/ mode \in {"during", "only"}
      BY <1>4 DEF Marching, List, JobDone, JobAborted, JobDropped, SrcOnly, Match, DstOnly, renames, deletes
    <2>3. QED
      BY <1>2, <2>1, <2>2 DEF Modes, stage
  <1>5. ASSUME NEW r \in Renamer, Renaming(r)
        PROVE  Modes'
    <2>1. UNCHANGED <<stage, renameCheck, dels, deleted, deleters>>
      BY <1>5, FootRenaming
    <2>2. CASE Exit(r, "rename")
      BY <1>3, <2>2 DEF Exit, deletes
    <2>3. ASSUME NEW pair \in Pair, Rename(r, pair)
          PROVE  Modes'
      <3>1. work[r] = "idle"
        BY <2>3 DEF Rename, Get, Free
      <3>2. TrackRenames /\ main \notin Late
        BY <3>1 DEF Stages, Manned
      <3>3. \/ UNCHANGED <<renameMap, dstFiles>>
            \/ \E x \in renameMap : renameMap' = renameMap \ {x} /\ (dstFiles' = dstFiles \/ dstFiles' = dstFiles \ {x})
        BY <2>3 DEF Rename
      <3>4. renameMap' \subseteq dstFiles' /\ dstFiles' \subseteq dstFiles
        BY <3>2, <3>3 DEF Modes
      <3>5. QED
        BY <1>2, <2>1, <3>2, <3>4 DEF Modes, stage
    <2>4. QED
      BY <1>5, <2>2, <2>3 DEF Renaming
  <1>6. CASE Deleting
    <2>1. UNCHANGED <<stage, renames, dstFiles>>
      BY <1>6, FootDeleting
    <2>2. deleters \in {"open", "closed"} /\ dels' \subseteq dels
      BY <1>6 DEF Deleting, DeletersReturn, DeleteOne
    <2>3. ~(mode = "after" /\ main \notin {"after", "end", "returned"})
      BY <2>2 DEF Modes
    <2>4. QED
      BY <1>2, <2>1, <2>2, <2>3 DEF Modes, stage, renames
  <1>7. CASE Main
    <2>1. deleted' = deleted
      BY <1>7, FootMain
    <2>2. CASE SecondPass
      <3>1. mode = "only"
        BY <2>2 DEF SecondPass, Modes
      <3>2. opt.delete = "before" /\ ~TrackRenames
        BY <1>1, <3>1 DEF Modes
      <3>3. /\ mode' = "off" /\ main' = "march" /\ result' = result /\ result = "running"
            /\ UNCHANGED <<renameCheck, renameMap, dstFiles>> /\ dels' = {}
        BY <2>2 DEF SecondPass, renames
      <3>4. QED
        BY <1>2, <3>1, <3>2, <3>3 DEF Modes
    <2>3. CASE Marched \/ RenamesSent \/ Checked \/ Renamed
      <3>1. /\ UNCHANGED <<mode, result, renames, dstFiles, dels, deleters>>
            /\ main' \in {"map", "checks", "renames", "transfers"}
            /\ main' = "map" => TrackRenames
            /\ main \in {"march", "rename", "checks", "renames"}
        BY <2>3 DEF Marched, RenamesSent, Checked, Renamed, deletes
      <3>2. QED
        BY <1>2, <2>1, <3>1 DEF Modes, renames, Late
    <2>4. CASE MakeRenameMap
      <3>1. /\ UNCHANGED <<mode, result, renameCheck, dstFiles, dels, deleters>>
            /\ main = "map" /\ main' = "rename" /\ renameMap' \subseteq dstFiles
        BY <2>4 DEF MakeRenameMap, deletes
      <3>2. QED
        BY <1>2, <2>1, <3>1 DEF Modes
    <2>5. CASE \E f \in File : OfferRename(f)
      <3>1. /\ UNCHANGED <<stage, renameMap, dstFiles, dels, deleters>>
            /\ renameCheck' \subseteq renameCheck
        BY <2>5 DEF OfferRename, deletes
      <3>2. QED
        BY <1>2, <2>1, <3>1 DEF Modes, stage
    <2>6. CASE TransfersDone
      <3>1. /\ UNCHANGED <<mode, result, renames, dstFiles, dels>> /\ main = "transfers" /\ main' = "deletes"
            /\ deleters' = IF deleters = "open" THEN "closed" ELSE deleters
        BY <2>6 DEF TransfersDone
      <3>2. QED
        BY <1>2, <2>1, <3>1 DEF Modes, renames, Late
    <2>7. CASE DeletersDone
      <3>1. /\ UNCHANGED <<mode, result, renames, dstFiles, dels>> /\ main = "deletes"
            /\ main' \in {"end", "after"} /\ (main' = "after" => mode = "after")
        BY <2>7 DEF DeletersDone
      <3>2. QED
        BY <1>2, <2>1, <3>1 DEF Modes, renames, Late
    <2>8. CASE PumpEnds \/ \E f \in File : Pump(f)
      <3>1. /\ UNCHANGED <<stage, renames>> /\ main = "after" /\ dstFiles' \subseteq dstFiles
        BY <2>8 DEF PumpEnds, Pump
      <3>2. mode = "after" /\ ~(mode = "off")
        BY <3>1 DEF Modes
      <3>3. QED
        BY <1>2, <2>1, <3>1, <3>2 DEF Modes, renames, Late, stage
    <2>9. CASE AfterDone
      <3>1. /\ UNCHANGED <<mode, result, renames, dstFiles, dels>> /\ main = "after" /\ main' = "end"
        BY <2>9 DEF AfterDone, deletes
      <3>2. QED
        BY <1>2, <2>1, <3>1 DEF Modes, renames, Late
    <2>10. CASE Return
      <3>1. /\ UNCHANGED <<mode, renames, dstFiles, dels>> /\ main = "end" /\ main' = "returned"
            /\ result' = "running" => mode = "only"
        BY <2>10 DEF Return, deletes
      <3>2. QED
        BY <1>2, <2>1, <3>1 DEF Modes, renames, Late
    <2>11. QED
      BY <1>7, <2>2, <2>3, <2>4, <2>5, <2>6, <2>7, <2>8, <2>9, <2>10 DEF Main
  <1>8. QED
    <2>1. CASE \/ \E c \in Checker : Checking(c)
               \/ \E t \in Transfer : Transferring(t)
               \/ \E w \in Producer : Putting(w)
               \/ Deadline \/ Cancel \/ UNCHANGED vars
      BY <1>3, <2>1, FootChecking, FootTransferring, FootPutting, FootLimits DEF vars, deletes
    <2>2. QED
      BY <1>1, <1>4, <1>5, <1>6, <1>7, <2>1, Actors

\* run closes the pipes in order.
LEMMA NextOpened ==
  ASSUME Types, Modes, Opened, [Next]_vars
  PROVE  Opened'
  <1>1. open \in [Pipe -> BOOLEAN] /\ Pipe = {"check", "rename", "upload"} /\ TPipes
    BY DEF Types, TPipes, Pipe
  <1>2. CASE UNCHANGED <<open, main>>
    BY <1>2 DEF Opened
  <1>3. CASE Main
    <2>1. CASE Marched
      <3>1. /\ main = "march"
            /\ \/ main' = "map" /\ open' = open
               \/ main' = "checks" /\ open' = [open EXCEPT !["check"] = FALSE]
        BY <2>1 DEF Marched
      <3>2. QED
        BY <1>1, <3>1 DEF Opened, Before, Late
    <2>2. CASE MakeRenameMap
      BY <1>1, <2>2 DEF MakeRenameMap, Opened, Before, Late, pipes
    <2>3. CASE RenamesSent
      BY <1>1, <2>3 DEF RenamesSent, Opened, Before, Late
    <2>4. CASE Checked
      <3>1. main = "checks" /\ main' = "renames" /\ open' = [open EXCEPT !["rename"] = ~TrackRenames]
        BY <2>4 DEF Checked
      <3>2. open'["check"] = open["check"] /\ open'["upload"] = open["upload"]
        BY <1>1, <3>1
      <3>3. QED
        BY <3>1, <3>2 DEF Opened, Before, Late
    <2>5. CASE Renamed
      BY <1>1, <2>5 DEF Renamed, Opened, Before, Late
    <2>6. CASE TransfersDone \/ DeletersDone \/ AfterDone \/ Return
      <3>1. open' = open /\ main \in Late /\ main' \in Late
        BY <2>6 DEF TransfersDone, DeletersDone, AfterDone, Return, Late, pipes
      <3>2. QED
        BY <3>1 DEF Opened, Before, Late
    <2>7. CASE PumpEnds \/ \E f \in File : OfferRename(f) \/ Pump(f)
      BY <1>2, <2>7 DEF PumpEnds, OfferRename, Pump, Put, pipes, stage
    <2>8. CASE SecondPass
      <3>1. open' = [p \in Pipe |-> TRUE] /\ main' = "march"
        BY <2>8 DEF SecondPass
      <3>2. open'["check"] = TRUE /\ open'["upload"] = TRUE /\ open'["rename"] = TRUE
        BY <1>1, <3>1
      <3>3. QED
        BY <3>1, <3>2 DEF Opened, Before, Late
    <2>9. QED
      BY <1>3, <2>1, <2>2, <2>3, <2>4, <2>5, <2>6, <2>7, <2>8 DEF Main
  <1>4. ASSUME NEW c \in Checker, Checking(c)
        PROVE  UNCHANGED <<open, main>>
    BY <1>4 DEF Checking, Exit, Check, Taken, PassedOn, stage, pipes
  <1>5. ASSUME NEW r \in Renamer, Renaming(r)
        PROVE  UNCHANGED <<open, main>>
    BY <1>5 DEF Renaming, Exit, Rename, Taken, PassedOn, stage, pipes
  <1>6. QED
    <2>1. CASE \/ \E d \in Dir : Marching(d)
               \/ \E t \in Transfer : Transferring(t)
               \/ \E w \in Producer : Putting(w)
      BY <1>2, <2>1, FootMarching, FootTransferring, FootPutting DEF stage
    <2>2. CASE Deleting \/ Deadline \/ Cancel \/ UNCHANGED vars
      BY <1>2, <2>2, FootDeleting, FootLimits DEF vars, stage, pipes
    <2>3. QED
      BY <1>1, <1>2, <1>3, <1>4, <1>5, <2>1, <2>2, Actors

\* run waits for each stage.
LEMMA NextManned ==
  ASSUME Types, Modes, Manned, [Next]_vars
  PROVE  Manned'
  <1>1. /\ blocked \in [Producer -> Pipe \cup {Nobody}] /\ work \in [Worker -> {"none", "idle", "exited"}]
        /\ job \in [Dir -> {"waiting", "matching", "done"}] /\ TPipes
    BY DEF Types, TPipes, TWorks, TMarch
  <1>2. opt' = opt /\ (TrackRenames' <=> TrackRenames)
    BY <1>1, SameFirst DEF TrackRenames
  <1>3. CASE UNCHANGED <<job, blocked, work, main>>
    BY <1>2, <1>3 DEF Manned
  <1>4. ASSUME NEW d \in Dir, Marching(d)
        PROVE  Manned'
    <2>1. UNCHANGED <<work, main>>
      BY <1>4, FootMarching DEF works, stage
    <2>2. CASE List(d)
      <3>1. main = "march" /\ job' = [job EXCEPT ![d] = "matching"] /\ blocked' = blocked
        BY <2>2 DEF List, pipes
      <3>2. QED
        BY <1>1, <1>2, <2>1, <3>1 DEF Manned, Late
    <2>3. CASE JobDone(d) \/ JobAborted(d) \/ JobDropped(d)
      <3>1. job' = [job EXCEPT ![d] = "done"] /\ blocked' = blocked /\ (blocked[d] = Nobody \/ job[d] = "waiting")
        BY <2>3 DEF JobDone, JobAborted, JobDropped, pipes
      <3>2. blocked[d] = Nobody
        BY <3>1 DEF Manned
      <3>3. QED
        BY <1>1, <1>2, <2>1, <3>1, <3>2 DEF Manned, Late
    <2>4. ASSUME NEW f \in File, SrcOnly(d, f) \/ Match(d, f) \/ DstOnly(d, f)
          PROVE  Manned'
      <3>1. /\ job' = job /\ job[d] = "matching"
            /\ blocked' = blocked \/ \E p \in {"check", "upload"} : blocked' = [blocked EXCEPT ![d] = p]
        BY <2>4 DEF SrcOnly, Match, DstOnly, Called, Offer, Put, pipes
      <3>2. \A w \in Producer \ {d} : blocked'[w] = blocked[w]
        BY <1>1, <3>1
      <3>3. blocked'[d] = blocked[d] \/ blocked'[d] \in {"check", "upload"}
        BY <1>1, <3>1, Distinct
      <3>4. QED
        BY <1>2, <2>1, <3>1, <3>2, <3>3, Distinct DEF Manned
    <2>5. QED
      BY <1>4, <2>2, <2>3, <2>4 DEF Marching
  <1>5. ASSUME NEW w \in Checker \cup Renamer, NEW p \in {"check", "rename"}, Exit(w, p)
        PROVE  Manned'
    <2>1. /\ work' = [work EXCEPT ![w] = "exited"] /\ UNCHANGED <<job, blocked, main>> /\ work[w] = "idle"
          /\ blocked[w] = Nobody
      BY <1>1, <1>5, Distinct DEF Exit, Free, march, pipes, stage
    <2>2. work'[w] = "exited" /\ \A v \in Worker \ {w} : work'[v] = work[v]
      BY <1>1, <2>1, Distinct
    <2>3. QED
      BY <1>2, <2>1, <2>2, Distinct DEF Manned
  <1>6. ASSUME NEW w \in Checker \cup Renamer, Free(w), UNCHANGED <<job, work, main>>,
               blocked' = blocked \/ blocked' = [blocked EXCEPT ![w] = "upload"]
        PROVE  Manned'
    <2>1. work[w] = "idle" /\ w \in Producer
      BY <1>6, Distinct DEF Free
    <2>2. \A v \in Producer \ {w} : blocked'[v] = blocked[v]
      BY <1>1, <1>6
    <2>3. blocked'[w] = blocked[w] \/ blocked'[w] = "upload"
      BY <1>1, <1>6, <2>1
    <2>4. QED
      BY <1>2, <1>6, <2>1, <2>2, <2>3, Distinct DEF Manned
  <1>7. ASSUME NEW c \in Checker, Checking(c)
        PROVE  Manned'
    <2>1. CASE Exit(c, "check")
      BY <1>5, <2>1
    <2>2. ASSUME NEW pair \in Pair, Check(c, pair)
          PROVE  Manned'
      <3>1. /\ Free(c) /\ UNCHANGED <<job, work, main>>
            /\ blocked' = blocked \/ blocked' = [blocked EXCEPT ![c] = "upload"]
        BY <2>2 DEF Check, Get, Taken, PassedOn, march, works, stage
      <3>2. QED
        BY <1>6, <3>1
    <2>3. QED
      BY <1>7, <2>1, <2>2 DEF Checking
  <1>8. ASSUME NEW r \in Renamer, Renaming(r)
        PROVE  Manned'
    <2>1. CASE Exit(r, "rename")
      BY <1>5, <2>1
    <2>2. ASSUME NEW pair \in Pair, Rename(r, pair)
          PROVE  Manned'
      <3>1. /\ Free(r) /\ UNCHANGED <<job, work, main>>
            /\ blocked' = blocked \/ blocked' = [blocked EXCEPT ![r] = "upload"]
        BY <2>2 DEF Rename, Get, Taken, PassedOn, march, works, stage
      <3>2. QED
        BY <1>6, <3>1
    <2>3. QED
      BY <1>8, <2>1, <2>2 DEF Renaming
  <1>9. ASSUME NEW t \in Transfer, Transferring(t)
        PROVE  Manned'
    <2>1. UNCHANGED <<job, blocked, main>>
      BY <1>9, FootTransferring DEF march, stage
    <2>2. work' = work \/ work' = [work EXCEPT ![t] = "exited"]
      BY <1>9 DEF Transferring, Exit, TransferStart, TransferCopied, TransferOK, TransferFailed, TransferLimit
    <2>3. \A v \in Worker \ {t} : work'[v] = work[v]
      BY <1>1, <2>2
    <2>4. QED
      BY <1>2, <2>1, <2>3, Distinct DEF Manned
  <1>10. ASSUME NEW w \in Producer, Putting(w)
         PROVE  Manned'
    <2>1. UNCHANGED <<job, main>>
      BY <1>10, FootPutting DEF march, stage
    <2>2. blocked' = [blocked EXCEPT ![w] = Nobody] /\ blocked[w] # Nobody
      BY <1>10 DEF Putting, Sent, Unsent
    <2>3. work' = work \/ work' = [v \in DOMAIN work |-> IF v = w THEN "exited" ELSE work[v]]
      BY <1>10 DEF Putting, Sent, Unsent, works
    <2>4. blocked'[w] = Nobody /\ \A v \in Producer \ {w} : blocked'[v] = blocked[v]
      BY <1>1, <2>2
    <2>5. \A v \in Worker : work'[v] = work[v] \/ (v = w /\ work'[v] = "exited")
      BY <1>1, <2>3
    <2>6. \A v \in Checker \cup Renamer : v = w => work[v] = "idle"
      BY <2>2 DEF Manned
    <2>7. \A v \in Producer : blocked'[v] = blocked[v] \/ blocked'[v] = Nobody
      BY <2>4
    <2>8. /\ \A d \in Dir : job'[d] # "matching" => blocked'[d] = Nobody
          /\ \A d \in Dir : blocked'[d] # "rename"
          /\ blocked'["main"] # Nobody => blocked'["main"] = "rename" /\ main' = "rename"
      BY <2>1, <2>7, Distinct DEF Manned, Nobody
    <2>9. \A v \in Checker \cup Renamer : blocked'[v] # Nobody => blocked'[v] = "upload" /\ work'[v] = "idle"
      <3>1. SUFFICES ASSUME NEW v \in Checker \cup Renamer, blocked'[v] # Nobody
                     PROVE  blocked'[v] = "upload" /\ work'[v] = "idle"
        OBVIOUS
      <3>2. v # w /\ v \in Producer /\ v \in Worker
        BY <2>4, <3>1, Distinct
      <3>3. blocked'[v] = blocked[v] /\ work'[v] = work[v]
        BY <2>4, <2>5, <3>2
      <3>4. QED
        BY <3>1, <3>3 DEF Manned
    <2>10. /\ main' \in {"renames"} \cup Late => \A c \in Checker : work'[c] = "exited"
           /\ main' \in Late => \A r \in Renamer : work'[r] # "idle"
      BY <2>1, <2>5, Distinct DEF Manned
    <2>11. ~TrackRenames => \A r \in Renamer : work'[r] = "none"
      BY <2>5, <2>6, Distinct DEF Manned
    <2>12. main' # "march" => \A d \in Dir : job'[d] = "done"
      BY <2>1 DEF Manned
    <2>13. QED
      BY <1>2, <2>8, <2>9, <2>10, <2>11, <2>12 DEF Manned
  <1>11. CASE Main
    <2>1. CASE SecondPass
      <3>1. /\ main' = "march" /\ job' = [d \in Dir |-> "waiting"]
            /\ \A w \in Producer : blocked'[w] = Nobody
            /\ \A w \in Worker : work'[w] = IF (w \in Transfer /\ CheckFirst) \/ (w \in Renamer /\ ~TrackRenames)
                                              THEN "none" ELSE "idle"
        BY <2>1 DEF SecondPass, Unblocked, Started
      <3>2. \A d \in Dir : job'[d] = "waiting"
        BY <3>1
      <3>3. ~TrackRenames => \A r \in Renamer : work'[r] = "none"
        BY <3>1, Distinct
      <3>4. \A w \in Dir \cup Checker \cup Renamer \cup {"main"} : blocked'[w] = Nobody
        BY <3>1, Distinct
      <3>5. QED
        BY <1>2, <3>1, <3>2, <3>3, <3>4 DEF Manned, Late, Nobody
    <2>2. CASE Marched
      <3>1. /\ main = "march" /\ main' \in {"map", "checks"} /\ \A d \in Dir : job[d] = "done"
            /\ UNCHANGED <<job, blocked, work>>
        BY <2>2 DEF Marched, march, works
      <3>2. QED
        BY <1>2, <3>1 DEF Manned, Late
    <2>3. CASE MakeRenameMap
      <3>1. main = "map" /\ main' = "rename" /\ UNCHANGED <<job, blocked, work>>
        BY <2>3 DEF MakeRenameMap, march, works, pipes
      <3>2. QED
        BY <1>2, <3>1 DEF Manned, Late
    <2>4. CASE \E f \in File : OfferRename(f)
      <3>1. main = "rename" /\ UNCHANGED <<job, work, main>> /\ blocked' = [blocked EXCEPT !["main"] = "rename"]
        BY <2>4 DEF OfferRename, Put, march, works, stage
      <3>2. blocked'["main"] = "rename" /\ \A v \in Producer \ {"main"} : blocked'[v] = blocked[v]
        BY <1>1, <3>1, Distinct
      <3>3. QED
        BY <1>2, <3>1, <3>2, Distinct DEF Manned
    <2>5. CASE RenamesSent
      <3>1. /\ main = "rename" /\ main' = "checks" /\ blocked["main"] = Nobody
            /\ UNCHANGED <<job, blocked, work>>
        BY <2>5 DEF RenamesSent, march, works
      <3>2. QED
        BY <1>2, <3>1 DEF Manned, Late
    <2>6. CASE Checked
      <3>1. /\ main = "checks" /\ main' = "renames" /\ UNCHANGED <<job, blocked>>
            /\ \A c \in Checker : work[c] = "exited"
            /\ work' = work \/ work' = [w \in DOMAIN work |-> IF w \in Transfer THEN "idle" ELSE work[w]]
        BY <2>6 DEF Checked, Over, march
      <3>2. \A v \in Worker \ Transfer : work'[v] = work[v]
        BY <1>1, <3>1
      <3>3. QED
        BY <1>2, <3>1, <3>2, Distinct DEF Manned, Late
    <2>7. CASE Renamed
      <3>1. /\ main = "renames" /\ main' = "transfers" /\ UNCHANGED <<job, blocked, work>>
            /\ TrackRenames => \A r \in Renamer : work[r] = "exited"
        BY <2>7 DEF Renamed, RenamersOver, Over, march, works
      <3>2. \A r \in Renamer : work[r] # "idle"
        BY <3>1 DEF Manned
      <3>3. QED
        BY <1>2, <3>1, <3>2 DEF Manned, Late
    <2>8. CASE TransfersDone \/ DeletersDone \/ AfterDone \/ Return
      <3>1. /\ main \in Late /\ main' \in Late /\ UNCHANGED <<job, blocked, work>>
        BY <2>8 DEF TransfersDone, DeletersDone, AfterDone, Return, Late, march, works, pipes
      <3>2. QED
        BY <1>2, <3>1 DEF Manned, Late
    <2>9. CASE PumpEnds \/ \E f \in File : Pump(f)
      BY <1>3, <2>9 DEF PumpEnds, Pump, march, works, pipes, stage
    <2>10. QED
      BY <1>11, <2>1, <2>2, <2>3, <2>4, <2>5, <2>6, <2>7, <2>8, <2>9 DEF Main
  <1>12. QED
    <2>1. CASE Deleting \/ Deadline \/ Cancel \/ UNCHANGED vars
      BY <1>3, <2>1, FootDeleting, FootLimits DEF vars, march, pipes, works, stage
    <2>2. QED
      BY <1>1, <1>4, <1>7, <1>8, <1>9, <1>10, <1>11, <2>1, Actors

\* So the stages follow each other.
LEMMA NextStages ==
  ASSUME Types, Modes, Stages, [Next]_vars
  PROVE  Stages'
  BY NextOpened, NextManned DEF Stages

\* At the start, the march has nothing done and the goroutines wait.
LEMMA InitStages ==
  ASSUME Init
  PROVE  Modes /\ Stages
  <1>1. TFirst /\ Types
    BY InitTypes DEF Types
  <1>2. /\ opt.delete \in {"off", "before", "during", "after"}
        /\ TrackRenames => opt.delete = "after"
    BY <1>1, OptionFacts
  <1>3. Modes
    BY <1>2 DEF Init, Modes, Late
  <1>4. Opened
    <2>1. open["check"] = TRUE /\ open["upload"] = TRUE /\ open["rename"] = TRUE
      BY DEF Init, Pipe
    <2>2. QED
      BY <2>1 DEF Init, Opened, Before, Late
  <1>5. Manned
    <2>1. /\ main = "march" /\ job = [d \in Dir |-> "waiting"]
          /\ \A w \in Producer : blocked[w] = Nobody
          /\ \A w \in Worker : work[w] = IF (w \in Transfer /\ CheckFirst) \/ (w \in Renamer /\ ~TrackRenames)
                                           THEN "none" ELSE "idle"
      BY DEF Init, Unblocked, Started
    <2>2. \A d \in Dir : job[d] = "waiting"
      BY <2>1
    <2>3. ~TrackRenames => \A r \in Renamer : work[r] = "none"
      BY <2>1, Distinct
    <2>4. \A w \in Dir \cup Checker \cup Renamer \cup {"main"} : blocked[w] = Nobody
      BY <2>1, Distinct
    <2>5. QED
      BY <2>1, <2>2, <2>3, <2>4 DEF Manned, Late, Nobody
  <1>6. QED
    BY <1>3, <1>4, <1>5 DEF Stages

-----------------------------------------------------------------------------
(* Files are deleted only if they are not on the source *)

\* Only a move changes the source.
Kept == ~DoMove => src = src0

\* An error of the march is known to run when the march is over.
Sound ==
  /\ inCtx = "canceled" => errs # {} \/ ctx # "live"
  /\ jobErr = "canceled" => inCtx = "canceled"
  /\ jobErr = "deadline" => inCtx = "deadline"
  /\ main # "march" /\ jobErr \notin {"none", "canceled"} => errs # {}
  /\ \A d \in Dir : job[d] = "waiting" => failed[d] = {}
  /\ \A d \in Dir : job[d] = "done" /\ "src" \in failed[d] => jobErr # "none"

\* A file that seems to be only on the destination, unless the listing of the
\* source failed, is so.
Absentees == \A f \in dstFiles : src0[f] = Absent \/ "src" \in failed[DirOf[f]]

\* What --delete-after hands to the deleters is not on the source.
Condemned ==
  opt.delete = "after" /\ ~IgnoreErrors =>
    /\ main = "after" /\ ctx = "live" => \A f \in dstFiles : src0[f] = Absent
    /\ \A f \in dels \cup deleted : src0[f] = Absent

\* Only a move changes the source.
LEMMA NextKept ==
  ASSUME Types, Kept, [Next]_vars
  PROVE  Kept'
  <1>1. TPipes
    BY DEF Types
  <1>2. opt' = opt /\ src0' = src0
    BY <1>1, SameFirst
  <1>3. DoMove \/ src' = src
    <2>1. ASSUME NEW c \in Checker, Checking(c)
          PROVE  DoMove \/ src' = src
      BY <2>1 DEF Checking, Exit, Check, trees
    <2>2. ASSUME NEW t \in Transfer, Transferring(t)
          PROVE  DoMove \/ src' = src
      BY <2>2 DEF Transferring, Exit, TransferStart, TransferCopied, TransferOK, TransferFailed, TransferLimit, trees
    <2>3. CASE \/ \E d \in Dir : Marching(d)
               \/ \E r \in Renamer : Renaming(r)
               \/ \E w \in Producer : Putting(w)
               \/ Deleting \/ Main \/ Deadline \/ Cancel
               \/ UNCHANGED vars
      BY <2>3, FootMarching, FootRenaming, FootPutting, FootDeleting, FootMain, FootLimits DEF vars, trees
    <2>4. QED
      BY <1>1, <2>1, <2>2, <2>3, Actors
  <1>4. QED
    BY <1>2, <1>3 DEF Kept, DoMove

\* What a step may do to the errors and the contexts.
ErrorsGrow ==
  /\ errs \subseteq errs'
  /\ ctx # "live" => ctx' # "live"
  /\ inCtx # "live" => inCtx' = inCtx
  /\ inCtx' = "canceled" => inCtx = "canceled" \/ errs' # {} \/ ctx' # "live"

\* An error that cancels is filed.
LEMMA ReportGrows ==
  ASSUME NEW err, NEW count, Report(err, count)
  PROVE  ErrorsGrow
  <1>1. errs' = errs \cup Class(err)
    BY DEF Report
  <1>2. err \in {"fatal", "graceful"} => Class(err) # {}
    BY ClassFacts
  <1>3. inCtx' = inCtx \/ (err \in {"fatal", "graceful"} /\ inCtx = "live")
    BY DEF Report
  <1>4. ctx # "live" => ctx' # "live"
    BY DEF Report
  <1>5. QED
    BY <1>1, <1>2, <1>3, <1>4 DEF ErrorsGrow

\* Errors are kept, and a context that is done stays so, within a pass.
LEMMA NextErrors ==
  ASSUME TPipes, [Next]_vars
  PROVE  SecondPass \/ ErrorsGrow
  <1>1. ASSUME UNCHANGED <<errs, ctx, inCtx>>
        PROVE  ErrorsGrow
    BY <1>1 DEF ErrorsGrow
  <1>2. ASSUME NEW c \in Checker, Checking(c)
        PROVE  ErrorsGrow
    <2>1. \/ UNCHANGED <<errs, ctx, inCtx>>
          \/ \E err \in {"noretry", "err"} : Report(err, TRUE)
      BY <1>2 DEF Checking, Exit, Check, NoError, errors
    <2>2. QED
      BY <1>1, <2>1, ReportGrows
  <1>3. ASSUME NEW r \in Renamer, Renaming(r)
        PROVE  UNCHANGED <<errs, ctx, inCtx>>
    BY <1>3 DEF Renaming, Exit, Rename, NoError, errors
  <1>4. ASSUME NEW t \in Transfer, Transferring(t)
        PROVE  ErrorsGrow
    <2>1. \/ UNCHANGED <<errs, ctx, inCtx>>
          \/ \E err \in {"fatal", "graceful", "err"} : Report(err, TRUE)
      BY <1>4 DEF Transferring, Exit, TransferStart, TransferCopied, TransferOK, TransferFailed, TransferLimit, errors
    <2>2. QED
      BY <1>1, <2>1, ReportGrows
  <1>5. CASE Deleting
    <2>1. \/ UNCHANGED <<errs, ctx, inCtx>>
          \/ Report(delErr, FALSE)
      BY <1>5 DEF Deleting, DeletersReturn, DeleteOne
    <2>2. QED
      BY <1>1, <2>1, ReportGrows
  <1>6. CASE Main
    <2>1. CASE Marched
      BY <2>1, ReportGrows DEF Marched
    <2>2. CASE DeletersDone
      <3>1. \/ UNCHANGED <<errs, ctx, inCtx>>
            \/ Report(IF errs = {} THEN "err" ELSE "none", FALSE)
        BY <2>2 DEF DeletersDone, errors
      <3>2. QED
        BY <1>1, <3>1, ReportGrows
    <2>3. CASE Return
      BY <2>3 DEF Return, Final, ErrorsGrow
    <2>4. CASE \/ MakeRenameMap \/ RenamesSent \/ Checked \/ Renamed \/ TransfersDone
               \/ PumpEnds \/ AfterDone \/ \E f \in File : OfferRename(f) \/ Pump(f)
      BY <1>1, <2>4 DEF MakeRenameMap, RenamesSent, Checked, Renamed, TransfersDone, PumpEnds, AfterDone,
           OfferRename, Pump, errors
    <2>5. QED
      BY <1>6, <2>1, <2>2, <2>3, <2>4 DEF Main
  <1>7. CASE Deadline \/ Cancel
    BY <1>7 DEF Deadline, Cancel, ErrorsGrow
  <1>8. QED
    <2>1. CASE \/ \E d \in Dir : Marching(d)
               \/ \E w \in Producer : Putting(w)
               \/ UNCHANGED vars
      BY <1>1, <2>1, FootMarching, FootPutting DEF vars, errors
    <2>2. QED
      BY <1>2, <1>1, <1>3, <1>4, <1>5, <1>6, <1>7, <2>1, Actors

\* The errors of the march are filed when it is over.
LEMMA NextSound ==
  ASSUME Types, Stages, Sound, [Next]_vars
  PROVE  Sound'
  <1>1. /\ TPipes /\ job \in [Dir -> {"waiting", "matching", "done"}] /\ failed \in [Dir -> SUBSET {"src", "dst"}]
        /\ inCtx \in {"live", "canceled", "deadline"}
    BY DEF Types, TMarch, TErrors
  <1>2. CASE SecondPass
    <2>1. /\ main' = "march" /\ jobErr' = "none" /\ inCtx' = ctx /\ ctx' = ctx
          /\ failed' = [d \in Dir |-> {}]
      BY <1>2 DEF SecondPass
    <2>2. QED
      BY <2>1 DEF Sound
  <1>3. ASSUME ErrorsGrow
        PROVE  inCtx' = "canceled" => errs' # {} \/ ctx' # "live"
    BY <1>3 DEF ErrorsGrow, Sound
  <1>4. ASSUME ErrorsGrow, UNCHANGED march,
               main' # "march" /\ main = "march" => Report(jobErr, FALSE)
        PROVE  Sound'
    <2>1. UNCHANGED <<job, failed, jobErr>>
      BY <1>4 DEF march
    <2>2. /\ jobErr' = "canceled" => inCtx' = "canceled"
          /\ jobErr' = "deadline" => inCtx' = "deadline"
      BY <1>4, <2>1 DEF Sound, ErrorsGrow
    <2>3. main' # "march" /\ jobErr' \notin {"none", "canceled"} => errs' # {}
      <3>1. CASE main # "march"
        BY <1>4, <2>1, <3>1 DEF Sound, ErrorsGrow
      <3>2. CASE main = "march" /\ main' # "march" /\ jobErr \notin {"none", "canceled"}
        <4>1. errs' = errs \cup Class(jobErr)
          BY <1>4, <3>2 DEF Report
        <4>2. jobErr # "live"
          BY DEF Types, TMarch
        <4>3. Class(jobErr) # {}
          BY <3>2, <4>2, ClassFacts
        <4>4. QED
          BY <4>1, <4>3
      <3>3. QED
        BY <2>1, <3>1, <3>2
    <2>4. QED
      BY <1>3, <1>4, <2>1, <2>2, <2>3 DEF Sound
  <1>5. ASSUME NEW d \in Dir, Marching(d)
        PROVE  Sound'
    <2>1. UNCHANGED <<errs, ctx, inCtx, main>>
      BY <1>5, FootMarching DEF stage
    <2>2. main = "march" \/ job[d] = "done"
      BY DEF Stages, Manned
    <2>3. main = "march"
      BY <1>5, <2>2 DEF Marching, List, JobDone, JobAborted, JobDropped, SrcOnly, Match, DstOnly, Called
    <2>4. CASE List(d)
      <3>1. /\ job' = [job EXCEPT ![d] = "matching"] /\ jobErr' = jobErr
            /\ failed' = failed \/ \E s \in {"src", "dst"} : failed' = [failed EXCEPT ![d] = {s}]
        BY <2>4 DEF List
      <3>2. \A e \in Dir : e # d => job'[e] = job[e] /\ failed'[e] = failed[e]
        BY <1>1, <3>1
      <3>3. job'[d] = "matching"
        BY <1>1, <3>1
      <3>4. QED
        BY <2>1, <2>3, <3>1, <3>2, <3>3 DEF Sound
    <2>5. CASE \E f \in File : SrcOnly(d, f) \/ Match(d, f) \/ DstOnly(d, f)
      <3>1. UNCHANGED <<job, failed, jobErr>>
        BY <2>5 DEF SrcOnly, Match, DstOnly, Called
      <3>2. QED
        BY <2>1, <3>1 DEF Sound
    <2>6. CASE JobDone(d) \/ JobAborted(d) \/ JobDropped(d)
      <3>1. job' = [job EXCEPT ![d] = "done"] /\ failed' = failed
        BY <2>6 DEF JobDone, JobAborted, JobDropped
      <3>2. /\ jobErr' = jobErr \/ jobErr' = "err" \/ (jobErr' = inCtx /\ inCtx # "live")
            /\ jobErr # "none" => jobErr' # "none"
        BY <1>1, <2>6 DEF JobDone, JobAborted, JobDropped, Joined, JobError
      <3>3. "src" \in failed[d] => jobErr' # "none"
        BY <1>1, <2>6 DEF JobDone, JobAborted, JobDropped, Joined, JobError, Sound
      <3>4. \A e \in Dir : job'[e] = "done" => e = d \/ job[e] = "done"
        BY <1>1, <3>1
      <3>5. \A e \in Dir : job'[e] = "waiting" => job[e] = "waiting"
        BY <1>1, <3>1
      <3>6. QED
        BY <2>1, <2>3, <3>1, <3>2, <3>3, <3>4, <3>5 DEF Sound
    <2>7. QED
      BY <1>5, <2>4, <2>5, <2>6 DEF Marching
  <1>6. CASE Main
    <2>1. CASE Marched
      <3>1. Report(jobErr, FALSE) /\ UNCHANGED march
        BY <2>1 DEF Marched
      <3>2. QED
        BY <1>4, <3>1, ReportGrows
    <2>2. CASE ~Marched /\ ~SecondPass
      <3>1. main # "march" \/ main' = main
        BY <1>6, <2>2 DEF Main, MakeRenameMap, RenamesSent, Checked, Renamed, TransfersDone, DeletersDone,
             PumpEnds, AfterDone, Return, OfferRename, Pump, stage
      <3>2. UNCHANGED march /\ ErrorsGrow
        BY <1>1, <1>6, <2>2, FootMainFirst, NextErrors
      <3>3. QED
        BY <1>4, <3>1, <3>2
    <2>3. QED
      BY <1>2, <2>1, <2>2
  <1>7. QED
    <2>1. CASE \/ \E c \in Checker : Checking(c)
               \/ \E r \in Renamer : Renaming(r)
               \/ \E t \in Transfer : Transferring(t)
               \/ \E w \in Producer : Putting(w)
               \/ Deleting \/ Deadline \/ Cancel \/ UNCHANGED vars
      <3>1. UNCHANGED <<march, main>>
        BY <2>1, FootChecking, FootRenaming, FootTransferring, FootPutting, FootDeleting, FootLimits DEF vars, stage
      <3>2. QED
        BY <1>1, <1>2, <1>4, <3>1, NextErrors
    <2>2. QED
      BY <1>1, <1>5, <1>6, <2>1, Actors

\* Only the march adds to s.dstFiles, and only a name that it did not see on
\* the source.
LEMMA NextDstFiles ==
  ASSUME Types, Modes, Kept, [Next]_vars
  PROVE  \/ SecondPass /\ dstFiles' = dstFiles
         \/ dstFiles' \subseteq dstFiles /\ \A d \in Dir : failed'[d] = failed[d] \/ job[d] = "waiting"
         \/ /\ UNCHANGED <<failed, main, dels, deleted>>
            /\ \E d \in Dir, f \in File :
                 /\ dstFiles' = dstFiles \cup {f} /\ job[d] = "matching"
                 /\ src0[f] = Absent \/ "src" \in failed[DirOf[f]]
  <1>1. TPipes /\ TFirst /\ failed \in [Dir -> SUBSET {"src", "dst"}]
    BY DEF Types, TMarch
  <1>2. ASSUME UNCHANGED march, dstFiles' \subseteq dstFiles
        PROVE  dstFiles' \subseteq dstFiles /\ \A d \in Dir : failed'[d] = failed[d] \/ job[d] = "waiting"
    BY <1>2 DEF march
  <1>3. ASSUME NEW d \in Dir, Marching(d)
        PROVE  \/ dstFiles' \subseteq dstFiles /\ \A e \in Dir : failed'[e] = failed[e] \/ job[e] = "waiting"
               \/ /\ UNCHANGED <<failed, main, dels, deleted>>
                  /\ \E e \in Dir, f \in File :
                       /\ dstFiles' = dstFiles \cup {f} /\ job[e] = "matching"
                       /\ src0[f] = Absent \/ "src" \in failed[DirOf[f]]
    <2>1. CASE List(d)
      <3>1. dstFiles' = dstFiles /\ job[d] = "waiting"
        BY <2>1 DEF List, deletes
      <3>2. \A e \in Dir \ {d} : failed'[e] = failed[e]
        BY <1>1, <2>1 DEF List
      <3>3. QED
        BY <3>1, <3>2
    <2>2. CASE JobDone(d) \/ JobAborted(d) \/ JobDropped(d)
      BY <2>2 DEF JobDone, JobAborted, JobDropped, deletes
    <2>3. ASSUME NEW f \in File, SrcOnly(d, f) \/ Match(d, f)
          PROVE  UNCHANGED <<dstFiles, failed>>
      BY <2>3 DEF SrcOnly, Match, Called
    <2>4. ASSUME NEW f \in File, DstOnly(d, f)
          PROVE  \/ UNCHANGED <<dstFiles, failed>>
                 \/ /\ UNCHANGED <<failed, main, dels, deleted>>
                    /\ dstFiles' = dstFiles \cup {f} /\ job[d] = "matching"
                    /\ src0[f] = Absent \/ "src" \in failed[DirOf[f]]
      <3>1. UNCHANGED <<failed, main, deleted>> /\ job[d] = "matching" /\ ~InSrc(f)
        BY <2>4 DEF DstOnly, Called, stage
      <3>2. dstFiles' = dstFiles \/ (mode = "after" /\ dstFiles' = dstFiles \cup {f} /\ dels' = dels)
        BY <2>4 DEF DstOnly
      <3>3. mode = "after" => src = src0
        BY <1>1, OptionFacts DEF Modes, Kept
      <3>4. QED
        BY <3>1, <3>2, <3>3 DEF InSrc
    <2>5. QED
      BY <1>3, <2>1, <2>2, <2>3, <2>4 DEF Marching
  <1>4. ASSUME NEW r \in Renamer, Renaming(r)
        PROVE  dstFiles' \subseteq dstFiles
    BY <1>4 DEF Renaming, Exit, Rename, deletes
  <1>5. CASE Main
    <2>1. SecondPass \/ UNCHANGED march
      BY <1>5, FootMainFirst
    <2>2. dstFiles' \subseteq dstFiles
      BY <1>5 DEF Main, Marched, MakeRenameMap, RenamesSent, Checked, Renamed, TransfersDone, DeletersDone,
           PumpEnds, AfterDone, Return, SecondPass, OfferRename, Pump, deletes
    <2>3. SecondPass => dstFiles' = dstFiles
      BY DEF SecondPass
    <2>4. QED
      BY <1>2, <2>1, <2>2, <2>3
  <1>6. QED
    <2>1. CASE \/ \E c \in Checker : Checking(c)
               \/ \E r \in Renamer : Renaming(r)
               \/ \E t \in Transfer : Transferring(t)
               \/ \E w \in Producer : Putting(w)
               \/ Deleting \/ Deadline \/ Cancel \/ UNCHANGED vars
      <3>1. UNCHANGED march /\ dstFiles' \subseteq dstFiles
        BY <1>4, <2>1, FootChecking, FootRenaming, FootTransferring, FootPutting, FootDeleting, FootLimits
           DEF vars, deletes
      <3>2. QED
        BY <1>2, <3>1
    <2>2. QED
      BY <1>1, <1>3, <1>5, <2>1, Actors

\* What is in s.dstFiles is not on the source, or a listing failed.
LEMMA NextAbsentees ==
  ASSUME Types, Modes, Kept, Sound, Absentees, [Next]_vars
  PROVE  Absentees'
  <1>1. TPipes /\ dstFiles \subseteq File /\ DirOf \in [File -> Dir]
    BY SyncAssumption DEF Types, TNames
  <1>2. src0' = src0
    BY <1>1, SameFirst
  <1>3. CASE SecondPass /\ dstFiles' = dstFiles
    <2>1. dstFiles = {}
      BY <1>3 DEF SecondPass, Modes
    <2>2. QED
      BY <1>3, <2>1 DEF Absentees
  <1>4. CASE dstFiles' \subseteq dstFiles /\ \A d \in Dir : failed'[d] = failed[d] \/ job[d] = "waiting"
    <2>1. \A d \in Dir : "src" \in failed[d] => "src" \in failed'[d]
      BY <1>4 DEF Sound
    <2>2. QED
      BY <1>1, <1>2, <1>4, <2>1 DEF Absentees
  <1>5. CASE /\ failed' = failed
             /\ \E f \in File : dstFiles' = dstFiles \cup {f} /\ (src0[f] = Absent \/ "src" \in failed[DirOf[f]])
    BY <1>2, <1>5 DEF Absentees
  <1>6. QED
    BY <1>3, <1>4, <1>5, NextDstFiles

\* What --delete-after gives to the deleters is not on the source.
LEMMA NextCondemned ==
  ASSUME Types, Modes, Stages, Kept, Sound, Absentees, Condemned, [Next]_vars
  PROVE  Condemned'
  <1>1. TPipes /\ TFirst /\ TNames /\ DirOf \in [File -> Dir]
    BY SyncAssumption DEF Types
  <1>2. UNCHANGED <<opt, src0>> /\ (IgnoreErrors' <=> IgnoreErrors)
    BY <1>1, SameFirst DEF IgnoreErrors
  <1>3. SUFFICES ASSUME opt.delete = "after", ~IgnoreErrors
                 PROVE  /\ main' = "after" /\ ctx' = "live" => \A f \in dstFiles' : src0[f] = Absent
                        /\ \A f \in dels' \cup deleted' : src0[f] = Absent
    BY <1>2 DEF Condemned
  <1>4. mode = "after" /\ ~SecondPass
    BY <1>3 DEF Modes, SecondPass
  <1>5. ctx' = "live" => ctx = "live"
    BY <1>1, <1>4, NextErrors DEF ErrorsGrow
  <1>6. main = "after" => dstFiles' \subseteq dstFiles
    <2>1. main = "after" => \A d \in Dir : job[d] # "matching"
      BY DEF Stages, Manned
    <2>2. QED
      BY <1>4, <2>1, NextDstFiles
  <1>7. ASSUME main # "after", main' = "after", ctx' = "live"
        PROVE  \A f \in dstFiles' : src0[f] = Absent
    <2>1. Main
      BY <1>1, <1>7, Actors, FootMarching, FootChecking, FootRenaming, FootTransferring, FootPutting,
         FootDeleting, FootLimits DEF stage, vars
    <2>2. DeletersDone
      BY <1>7, <2>1 DEF Main, Marched, MakeRenameMap, RenamesSent, Checked, Renamed, TransfersDone,
         PumpEnds, AfterDone, Return, SecondPass, OfferRename, Pump, stage
    <2>3. MayDelete /\ main = "deletes" /\ dstFiles' = dstFiles
      BY <1>7, <2>2 DEF DeletersDone
    <2>4. errs = {}
      BY <1>3, <2>3 DEF MayDelete
    <2>5. jobErr = "none"
      BY <1>5, <1>7, <2>3, <2>4 DEF Sound
    <2>6. \A d \in Dir : "src" \notin failed[d]
      BY <2>3, <2>5 DEF Sound, Stages, Manned
    <2>7. QED
      BY <1>1, <2>3, <2>6 DEF Absentees, TNames
  <1>8. \A f \in dels' \cup deleted' : src0[f] = Absent
    <2>1. CASE UNCHANGED <<dels, deleted>>
      BY <1>3, <2>1 DEF Condemned
    <2>2. ASSUME NEW d \in Dir, Marching(d)
          PROVE  UNCHANGED <<dels, deleted>>
      BY <1>4, <2>2 DEF Marching, List, JobDone, JobAborted, JobDropped, SrcOnly, Match, DstOnly, Called, deletes
    <2>3. CASE Deleting
      <3>1. dels' \cup deleted' \subseteq dels \cup deleted
        BY <2>3 DEF Deleting, DeletersReturn, DeleteOne
      <3>2. QED
        BY <1>3, <3>1 DEF Condemned
    <2>4. CASE Main
      <3>1. ASSUME NEW f \in File, Pump(f)
            PROVE  \A g \in dels' \cup deleted' : src0[g] = Absent
        <4>1. main = "after" /\ ctx = "live" /\ f \in dstFiles /\ dels' = dels \cup {f} /\ deleted' = deleted
          BY <3>1 DEF Pump
        <4>2. QED
          BY <1>3, <4>1 DEF Condemned
      <3>2. CASE \A f \in File : ~Pump(f)
        <4>1. UNCHANGED <<dels, deleted>>
          BY <1>4, <2>4, <3>2 DEF Main, Marched, MakeRenameMap, RenamesSent, Checked, Renamed, TransfersDone,
               DeletersDone, PumpEnds, AfterDone, Return, OfferRename, deletes
        <4>2. QED
          BY <2>1, <4>1
      <3>3. QED
        BY <3>1, <3>2
    <2>5. CASE \/ \E c \in Checker : Checking(c)
               \/ \E r \in Renamer : Renaming(r)
               \/ \E t \in Transfer : Transferring(t)
               \/ \E w \in Producer : Putting(w)
               \/ Deadline \/ Cancel \/ UNCHANGED vars
      BY <2>1, <2>5, FootChecking, FootRenaming, FootTransferring, FootPutting, FootLimits DEF vars, deletes
    <2>6. QED
      BY <1>1, <2>1, <2>2, <2>3, <2>4, <2>5, Actors
  <1>9. QED
    BY <1>3, <1>5, <1>6, <1>7, <1>8 DEF Condemned

\* The invariant so far: the stages, and what the errors say.
DInv == Types /\ Modes /\ Stages /\ Kept /\ Sound /\ Absentees /\ Condemned

\* It holds at the start.
LEMMA InitDInv ==
  ASSUME Init
  PROVE  DInv
  <1>1. Types /\ Modes /\ Stages
    BY InitTypes, InitStages
  <1>2. Kept /\ Sound /\ Absentees /\ Condemned
    BY DEF Init, Kept, Sound, Absentees, Condemned
  <1>3. QED
    BY <1>1, <1>2 DEF DInv

\* Every step keeps it.
LEMMA NextDInv ==
  ASSUME DInv, [Next]_vars
  PROVE  DInv'
  BY NextTypes, NextModes, NextStages, NextKept, NextSound, NextAbsentees, NextCondemned DEF DInv

\* --delete-after deletes no file that was on the source, whichever listing
\* fails, however the march ends and however the deleters stop, unless errors
\* are to be ignored (deleteFiles, currentError).
THEOREM OnlyAbsentAreDeleted == Spec => []DeletesOnlyAbsent
  <1>1. DInv => DeletesOnlyAbsent
    BY DEF DInv, Condemned, DeletesOnlyAbsent, OnlyAbsentDeleted
  <1>2. QED
    BY <1>1, InitDInv, NextDInv, PTL DEF Spec

-----------------------------------------------------------------------------
(* Every file is in one place *)

\* Where a name can be in a pass: not called back for, collected as a possible
\* rename, to be deleted, in a pipe, or with a transfer.
Uncalled(f) == job[DirOf[f]] = "waiting" \/ f \in todo[DirOf[f]]
Doomed(f) == f \in dels \cup dstFiles
Queued(p, f) == \E x \in queue[p] : x.file = f
Handled(t, f) == \E x \in busy[t] : x.file = f

Kind == {"uncalled", "renames", "doomed", "queue", "busy"}
Name == {""} \cup Pipe \cup Transfer

At(kind, name, f) ==
  \/ kind = "uncalled" /\ name = "" /\ Uncalled(f)
  \/ kind = "renames" /\ name = "" /\ f \in renameCheck
  \/ kind = "doomed" /\ name = "" /\ Doomed(f)
  \/ kind = "queue" /\ name \in Pipe /\ Queued(name, f)
  \/ kind = "busy" /\ name \in Transfer /\ Handled(name, f)

OnePlace ==
  \A f \in File : \A j, k \in Kind, m, n \in Name : At(j, m, f) /\ At(k, n, f) => j = k /\ m = n

Nowhere(f) == \A k \in Kind, n \in Name : ~At(k, n, f)

\* A pipe holds one pair for a file, and the march calls back for the names of
\* the directory that it has listed.
OnePair ==
  /\ \A p \in Pipe : \A x, y \in queue[p] : x.file = y.file => x = y
  /\ \A d \in Dir : job[d] = "waiting" => todo[d] = {}
  /\ \A d \in Dir : \A f \in todo[d] : DirOf[f] = d

\* A step brings the file to no other place.
Stays(f) == \A k \in Kind, n \in Name : At(k, n, f)' => At(k, n, f)

\* A step takes the file from its place, and to this one if to any.
Goes(f, k, n) == ~Nowhere(f) /\ \A l \in Kind, m \in Name : At(l, m, f)' => l = k /\ m = n

\* Where a file is, it is nowhere else.
LEMMA Elsewhere ==
  ASSUME OnePlace, NEW f \in File, NEW k \in Kind, NEW n \in Name, At(k, n, f)
  PROVE  /\ ~Nowhere(f)
         /\ k # "uncalled" => ~Uncalled(f)
         /\ k # "renames" => f \notin renameCheck
         /\ k # "doomed" => ~Doomed(f)
         /\ \A p \in Pipe : ~(k = "queue" /\ n = p) => ~Queued(p, f)
         /\ \A t \in Transfer : ~(k = "busy" /\ n = t) => ~Handled(t, f)
  <1>1. ASSUME NEW l \in Kind, NEW m \in Name, At(l, m, f)
        PROVE  l = k /\ m = n
    BY <1>1 DEF OnePlace
  <1>2. "" \in Name /\ Pipe \subseteq Name /\ Transfer \subseteq Name
    BY DEF Name
  <1>3. "uncalled" \in Kind /\ "renames" \in Kind /\ "doomed" \in Kind /\ "queue" \in Kind /\ "busy" \in Kind
    BY DEF Kind
  <1>4. k # "uncalled" => ~Uncalled(f)
    <2>1. Uncalled(f) => At("uncalled", "", f)
      BY DEF At
    <2>2. QED
      BY <1>1, <1>2, <1>3, <2>1
  <1>5. k # "renames" => f \notin renameCheck
    <2>1. f \in renameCheck => At("renames", "", f)
      BY DEF At
    <2>2. QED
      BY <1>1, <1>2, <1>3, <2>1
  <1>6. k # "doomed" => ~Doomed(f)
    <2>1. Doomed(f) => At("doomed", "", f)
      BY DEF At
    <2>2. QED
      BY <1>1, <1>2, <1>3, <2>1
  <1>7. ASSUME NEW p \in Pipe, Queued(p, f)
        PROVE  k = "queue" /\ n = p
    <2>1. At("queue", p, f)
      BY <1>7 DEF At
    <2>2. QED
      BY <1>1, <1>2, <1>3, <2>1
  <1>8. ASSUME NEW t \in Transfer, Handled(t, f)
        PROVE  k = "busy" /\ n = t
    <2>1. At("busy", t, f)
      BY <1>8 DEF At
    <2>2. QED
      BY <1>1, <1>2, <1>3, <2>1
  <1>9. ~Nowhere(f)
    BY DEF Nowhere
  <1>10. QED
    BY <1>4, <1>5, <1>6, <1>7, <1>8, <1>9

\* A file stays if each place gets no file that it did not have.
LEMMA Staying ==
  ASSUME NEW f \in File,
         Uncalled(f)' => Uncalled(f), f \in renameCheck' => f \in renameCheck, Doomed(f)' => Doomed(f),
         \A p \in Pipe : Queued(p, f)' => Queued(p, f),
         \A t \in Transfer : Handled(t, f)' => Handled(t, f)
  PROVE  Stays(f)
  BY DEF Stays, At

\* A callback may put its pair.
LEMMA MarchingPipes ==
  ASSUME Types, NEW d \in Dir, Marching(d)
  PROVE  \/ UNCHANGED <<queue, tokens, blocked>>
         \/ \E f \in File, p \in Pipe, pair \in Pair :
              Called(d, f) /\ pair.file = f /\ Put(d, p, pair) /\ blocked[d] = Nobody
  <1>1. /\ TPipes /\ DOMAIN blocked = Producer
        /\ "check" \in Pipe /\ "rename" \in Pipe /\ "upload" \in Pipe
    BY DEF Types, TPipes, Pipe
  <1>2. CASE List(d) \/ JobDone(d) \/ JobAborted(d) \/ JobDropped(d)
    BY <1>2 DEF List, JobDone, JobAborted, JobDropped, pipes
  <1>3. ASSUME NEW f \in File, SrcOnly(d, f) \/ Match(d, f) \/ DstOnly(d, f)
        PROVE  \/ UNCHANGED <<queue, tokens, blocked>>
               \/ \E p \in Pipe, pair \in Pair : pair.file = f /\ Put(d, p, pair)
    <2>1. /\ [file |-> f, to |-> "nil"] \in Pair /\ [file |-> f, to |-> "nil"].file = f
          /\ [file |-> f, to |-> "dst"] \in Pair /\ [file |-> f, to |-> "dst"].file = f
      BY DEF Pair
    <2>2. \/ UNCHANGED pipes
          \/ Put(d, "upload", [file |-> f, to |-> "nil"])
          \/ Put(d, "check", [file |-> f, to |-> "dst"])
      BY <1>3 DEF SrcOnly, Match, DstOnly, Offer
    <2>3. QED
      BY <1>1, <2>1, <2>2 DEF pipes
  <1>4. ASSUME NEW f \in File, SrcOnly(d, f) \/ Match(d, f) \/ DstOnly(d, f)
        PROVE  Called(d, f) /\ blocked[d] = Nobody
    BY <1>4 DEF SrcOnly, Match, DstOnly, Called
  <1>5. QED
    BY <1>2, <1>3, <1>4 DEF Marching

\* A checker takes a pair, and may pass it on.
LEMMA CheckingPipes ==
  ASSUME Types, NEW c \in Checker, Checking(c)
  PROVE  \/ UNCHANGED <<queue, tokens, blocked>>
         \/ \E pair \in Pair : Taken("check", pair) /\ tokens["check"] > 0 /\ pair \in queue["check"]
         \/ \E pair, new \in Pair :
              /\ PassedOn(c, "check", pair, "upload", new) /\ tokens["check"] > 0 /\ pair \in queue["check"]
              /\ new.file = pair.file /\ blocked[c] = Nobody
  <1>1. /\ TPipes /\ DOMAIN blocked = Producer
        /\ "check" \in Pipe /\ "rename" \in Pipe /\ "upload" \in Pipe
    BY DEF Types, TPipes, Pipe
  <1>2. CASE Exit(c, "check")
    BY <1>2 DEF Exit, pipes
  <1>3. ASSUME NEW pair \in Pair, Check(c, pair)
        PROVE  /\ tokens["check"] > 0 /\ pair \in queue["check"] /\ blocked[c] = Nobody
               /\ \/ Taken("check", pair)
                  \/ \E new \in Pair : PassedOn(c, "check", pair, "upload", new) /\ new.file = pair.file
    <2>1. tokens["check"] > 0 /\ pair \in queue["check"] /\ blocked[c] = Nobody
      BY <1>1, <1>3, Distinct DEF Check, Get, Free
    <2>2. \A to \in {"nil", "dst", "src"} :
            [file |-> pair.file, to |-> to] \in Pair /\ [file |-> pair.file, to |-> to].file = pair.file
      BY DEF Pair
    <2>3. \/ Taken("check", pair)
          \/ \E to \in {"nil", "dst", "src"} :
               PassedOn(c, "check", pair, "upload", [file |-> pair.file, to |-> to])
      BY <1>3 DEF Check
    <2>4. QED
      BY <2>1, <2>2, <2>3
  <1>4. QED
    BY <1>2, <1>3 DEF Checking

\* A renamer takes a pair, and may pass it on.
LEMMA RenamingPipes ==
  ASSUME Types, NEW r \in Renamer, Renaming(r)
  PROVE  \/ UNCHANGED <<queue, tokens, blocked>>
         \/ \E pair \in Pair : Taken("rename", pair) /\ tokens["rename"] > 0 /\ pair \in queue["rename"]
         \/ \E pair \in Pair :
              /\ PassedOn(r, "rename", pair, "upload", pair) /\ tokens["rename"] > 0
              /\ pair \in queue["rename"] /\ blocked[r] = Nobody
  <1>1. /\ TPipes /\ DOMAIN blocked = Producer
        /\ "check" \in Pipe /\ "rename" \in Pipe /\ "upload" \in Pipe
    BY DEF Types, TPipes, Pipe
  <1>2. CASE Exit(r, "rename")
    BY <1>2 DEF Exit, pipes
  <1>3. ASSUME NEW pair \in Pair, Rename(r, pair)
        PROVE  /\ tokens["rename"] > 0 /\ pair \in queue["rename"] /\ blocked[r] = Nobody
               /\ Taken("rename", pair) \/ PassedOn(r, "rename", pair, "upload", pair)
    <2>1. tokens["rename"] > 0 /\ pair \in queue["rename"] /\ blocked[r] = Nobody
      BY <1>1, <1>3, Distinct DEF Rename, Get, Free
    <2>2. Taken("rename", pair) \/ PassedOn(r, "rename", pair, "upload", pair)
      BY <1>3 DEF Rename
    <2>3. QED
      BY <2>1, <2>2
  <1>4. QED
    BY <1>2, <1>3 DEF Renaming

\* A transfer may take a pair.
LEMMA TransferringPipes ==
  ASSUME Types, NEW t \in Transfer, Transferring(t)
  PROVE  \/ UNCHANGED <<queue, tokens, blocked>>
         \/ \E pair \in Pair : Taken("upload", pair) /\ tokens["upload"] > 0 /\ pair \in queue["upload"]
  BY DEF Transferring, Exit, TransferStart, TransferCopied, TransferOK, TransferFailed, TransferLimit, Get, pipes

\* What happens to the pipes.
LEMMA PipeSteps ==
  ASSUME Types, [Next]_vars
  PROVE  \/ UNCHANGED <<queue, tokens, blocked>>
         \/ \E d \in Dir, f \in File, p \in Pipe, pair \in Pair :
              Called(d, f) /\ pair.file = f /\ Put(d, p, pair) /\ blocked[d] = Nobody
         \/ \E f \in File, pair \in Pair :
              OfferRename(f) /\ pair.file = f /\ Put("main", "rename", pair) /\ blocked["main"] = Nobody
         \/ \E p \in Pipe, pair \in Pair : Taken(p, pair) /\ tokens[p] > 0 /\ pair \in queue[p]
         \/ \E w \in Producer, p \in {"check", "rename"}, pair, new \in Pair :
              /\ PassedOn(w, p, pair, "upload", new) /\ tokens[p] > 0 /\ pair \in queue[p]
              /\ new.file = pair.file /\ blocked[w] = Nobody
         \/ \E w \in Producer : Putting(w)
         \/ SecondPass
  <1>1. /\ TPipes /\ DOMAIN blocked = Producer
        /\ "check" \in Pipe /\ "rename" \in Pipe /\ "upload" \in Pipe
    BY DEF Types, TPipes, Pipe
  <1>2. CASE Main
    <2>1. ASSUME NEW f \in File, OfferRename(f)
          PROVE  \E pair \in Pair : OfferRename(f) /\ pair.file = f /\ Put("main", "rename", pair) /\ blocked["main"] = Nobody
      <3>1. [file |-> f, to |-> "nil"] \in Pair /\ [file |-> f, to |-> "nil"].file = f
        BY DEF Pair
      <3>2. QED
        BY <2>1, <3>1 DEF OfferRename
    <2>2. CASE ~SecondPass /\ \A f \in File : ~OfferRename(f)
      BY <1>2, <2>2 DEF Main, Marched, MakeRenameMap, RenamesSent, Checked, Renamed, TransfersDone,
           DeletersDone, PumpEnds, AfterDone, Return, Pump, pipes
    <2>3. QED
      BY <2>1, <2>2
  <1>3. QED
    <2>1. CASE Deleting \/ Deadline \/ Cancel \/ UNCHANGED vars
      BY <2>1, FootDeleting, FootLimits DEF vars, pipes
    <2>2. QED
      BY <1>1, <1>2, <2>1, Actors, Distinct, MarchingPipes, CheckingPipes, RenamingPipes, TransferringPipes

\* A file goes to a place if no other place has it afterwards.
LEMMA Going ==
  ASSUME NEW f \in File, NEW k \in Kind, NEW n \in Name, ~Nowhere(f),
         Uncalled(f)' => k = "uncalled" /\ n = "",
         f \in renameCheck' => k = "renames" /\ n = "",
         Doomed(f)' => k = "doomed" /\ n = "",
         \A p \in Pipe : Queued(p, f)' => k = "queue" /\ n = p,
         \A t \in Transfer : Handled(t, f)' => k = "busy" /\ n = t
  PROVE  Goes(f, k, n)
  BY DEF Goes, At

\* What a Put does to the pairs of a file.
LEMMA PutQueues ==
  ASSUME TPipes, NEW who, NEW p \in Pipe, NEW pair \in Pair, Put(who, p, pair)
  PROVE  \A q \in Pipe, f \in File : Queued(q, f)' => Queued(q, f) \/ (q = p /\ f = pair.file)
  BY DEF Put, Queued, TPipes

\* What a Get does to the pairs of a file.
LEMMA TakenQueues ==
  ASSUME TPipes, OnePair, NEW p \in Pipe, NEW pair \in Pair, Taken(p, pair), pair \in queue[p]
  PROVE  \A q \in Pipe, f \in File : Queued(q, f)' => Queued(q, f) /\ ~(q = p /\ f = pair.file)
  <1>1. queue'[p] = queue[p] \ {pair} /\ \A q \in Pipe \ {p} : queue'[q] = queue[q]
    BY DEF Taken, TPipes
  <1>2. \A x \in queue[p] : x.file = pair.file => x = pair
    BY DEF OnePair
  <1>3. QED
    BY <1>1, <1>2 DEF Queued

\* What it does if the pair is passed on.
LEMMA PassedQueues ==
  ASSUME TPipes, OnePair, NEW w, NEW p \in {"check", "rename"}, NEW pair \in Pair, NEW new \in Pair,
         PassedOn(w, p, pair, "upload", new), pair \in queue[p], new.file = pair.file
  PROVE  \A q \in Pipe, f \in File :
           Queued(q, f)' => \/ Queued(q, f) /\ ~(q = p /\ f = pair.file)
                            \/ q = "upload" /\ f = pair.file
  <1>1. p \in Pipe /\ "upload" \in Pipe /\ p # "upload"
    BY DEF Pipe
  <1>2. /\ queue'[p] = queue[p] \ {pair} /\ queue'["upload"] = queue["upload"] \cup {new}
        /\ \A q \in Pipe \ {p, "upload"} : queue'[q] = queue[q]
    BY <1>1 DEF PassedOn, TPipes
  <1>3. \A x \in queue[p] : x.file = pair.file => x = pair
    BY <1>1 DEF OnePair
  <1>4. QED
    BY <1>1, <1>2, <1>3 DEF Queued

\* Nothing comes to a place that does not change.
LEMMA Same ==
  /\ UNCHANGED <<job, todo>> => \A f \in File : Uncalled(f)' => Uncalled(f)
  /\ UNCHANGED <<dels, dstFiles>> => \A f \in File : Doomed(f)' => Doomed(f)
  /\ UNCHANGED queue => \A p \in Pipe, f \in File : Queued(p, f)' => Queued(p, f)
  /\ UNCHANGED busy => \A t \in Transfer, f \in File : Handled(t, f)' => Handled(t, f)
  BY DEF Uncalled, Doomed, Queued, Handled

\* Where the march brings a file.
LEMMA MarchingPlaces ==
  ASSUME Types, OnePlace, OnePair, NEW d \in Dir, Marching(d)
  PROVE  \/ \A f \in File : Stays(f)
         \/ \E g \in File, k \in Kind, n \in Name : (\A f \in File \ {g} : Stays(f)) /\ Goes(g, k, n)
  <1>1. /\ TPipes /\ job \in [Dir -> {"waiting", "matching", "done"}] /\ todo \in [Dir -> SUBSET File]
        /\ DirOf \in [File -> Dir]
    BY SyncAssumption DEF Types, TMarch
  <1>2. busy' = busy
    BY FootMarching DEF works
  <1>3. "" \in Name /\ Pipe \subseteq Name
    BY DEF Name
  <1>4. "uncalled" \in Kind /\ "renames" \in Kind /\ "doomed" \in Kind /\ "queue" \in Kind
    BY DEF Kind
  <1>5. CASE List(d)
    <2>1. /\ UNCHANGED <<queue, renameCheck, dels, dstFiles>> /\ job[d] = "waiting"
          /\ job' = [job EXCEPT ![d] = "matching"] /\ \A e \in Dir \ {d} : todo'[e] = todo[e]
      BY <1>1, <1>5 DEF List, pipes, renames, deletes
    <2>2. \A f \in File : Uncalled(f)' => Uncalled(f)
      BY <1>1, <2>1 DEF Uncalled
    <2>3. QED
      BY <1>2, <2>1, <2>2, Same, Staying
  <1>6. CASE JobDone(d) \/ JobAborted(d) \/ JobDropped(d)
    <2>1. /\ UNCHANGED <<todo, queue, renameCheck, dels, dstFiles>> /\ job' = [job EXCEPT ![d] = "done"]
      BY <1>6 DEF JobDone, JobAborted, JobDropped, pipes, renames, deletes
    <2>2. \A f \in File : Uncalled(f)' => Uncalled(f)
      BY <1>1, <2>1 DEF Uncalled
    <2>3. QED
      BY <1>2, <2>1, <2>2, Same, Staying
  <1>7. ASSUME NEW g \in File, SrcOnly(d, g) \/ Match(d, g) \/ DstOnly(d, g)
        PROVE  \E k \in Kind, n \in Name : (\A f \in File \ {g} : Stays(f)) /\ Goes(g, k, n)
    <2>1. /\ job' = job /\ job[d] = "matching" /\ g \in todo[d] /\ todo' = [todo EXCEPT ![d] = @ \ {g}]
      BY <1>7 DEF SrcOnly, Match, DstOnly, Called
    <2>2. DirOf[g] = d
      BY <2>1 DEF OnePair
    <2>3. (\A f \in File : Uncalled(f)' => Uncalled(f)) /\ Uncalled(g) /\ ~Uncalled(g)'
      BY <1>1, <2>1, <2>2 DEF Uncalled
    <2>4. At("uncalled", "", g)
      BY <2>3 DEF At
    <2>5. /\ ~Nowhere(g) /\ g \notin renameCheck /\ ~Doomed(g)
          /\ \A p \in Pipe : ~Queued(p, g)
          /\ \A t \in Transfer : ~Handled(t, g)
      BY <1>3, <1>4, <2>4, Elsewhere
    <2>6. \A t \in Transfer, f \in File : Handled(t, f)' => Handled(t, f)
      BY <1>2, Same
    <2>7. CASE UNCHANGED <<queue, dels, dstFiles>> /\ renameCheck' \subseteq renameCheck \cup {g}
      <3>1. \A f \in File \ {g} : Stays(f)
        BY <2>3, <2>6, <2>7, Same, Staying
      <3>2. Goes(g, "renames", "")
        BY <1>3, <1>4, <2>3, <2>5, <2>6, <2>7, Same, Going
      <3>3. QED
        BY <1>3, <1>4, <3>1, <3>2
    <2>8. ASSUME NEW p \in Pipe, NEW pair \in Pair, UNCHANGED <<renameCheck, dels, dstFiles>>,
                 Put(d, p, pair), pair.file = g
          PROVE  (\A f \in File \ {g} : Stays(f)) /\ Goes(g, "queue", p)
      <3>1. \A q \in Pipe, f \in File : Queued(q, f)' => Queued(q, f) \/ (q = p /\ f = g)
        BY <1>1, <2>8, PutQueues
      <3>2. \A f \in File \ {g} : Stays(f)
        BY <2>3, <2>6, <2>8, <3>1, Same, Staying
      <3>3. Goes(g, "queue", p)
        BY <1>3, <1>4, <2>3, <2>5, <2>6, <2>8, <3>1, Same, Going
      <3>4. QED
        BY <3>2, <3>3
    <2>9. CASE UNCHANGED <<queue, renameCheck>> /\ dels' \cup dstFiles' \subseteq dels \cup dstFiles \cup {g}
      <3>1. \A f \in File : Doomed(f)' => Doomed(f) \/ f = g
        BY <2>9 DEF Doomed
      <3>2. \A f \in File \ {g} : Stays(f)
        BY <2>3, <2>6, <2>9, <3>1, Same, Staying
      <3>3. Goes(g, "doomed", "")
        BY <1>3, <1>4, <2>3, <2>5, <2>6, <2>9, <3>1, Same, Going
      <3>4. QED
        BY <1>3, <1>4, <3>2, <3>3
    <2>10. CASE SrcOnly(d, g) \/ Match(d, g)
      <3>1. /\ [file |-> g, to |-> "nil"] \in Pair /\ [file |-> g, to |-> "nil"].file = g
            /\ [file |-> g, to |-> "dst"] \in Pair /\ [file |-> g, to |-> "dst"].file = g
            /\ "upload" \in Pipe /\ "check" \in Pipe
        BY DEF Pair, Pipe
      <3>2. UNCHANGED <<dels, dstFiles>>
        BY <2>10 DEF SrcOnly, Match
      <3>3. \/ queue' = queue /\ renameCheck' \subseteq renameCheck \cup {g}
            \/ renameCheck' = renameCheck /\ Put(d, "upload", [file |-> g, to |-> "nil"])
            \/ renameCheck' = renameCheck /\ Put(d, "check", [file |-> g, to |-> "dst"])
        BY <2>10 DEF SrcOnly, Match, Offer, pipes
      <3>4. QED
        BY <1>3, <1>4, <2>7, <2>8, <3>1, <3>2, <3>3
    <2>11. CASE DstOnly(d, g)
      BY <2>9, <2>11 DEF DstOnly, pipes
    <2>12. QED
      BY <1>7, <2>10, <2>11
  <1>8. QED
    BY <1>5, <1>6, <1>7 DEF Marching

\* A pair that is taken goes to the transfers, or to nothing.
LEMMA TakenPlaces ==
  ASSUME TPipes, OnePlace, OnePair, UNCHANGED <<job, todo, renameCheck, busy>>, \A f \in File : Doomed(f)' => Doomed(f),
         NEW p \in {"check", "rename"}, NEW pair \in Pair, pair \in queue[p],
         \/ Taken(p, pair)
         \/ \E w \in Producer, new \in Pair : PassedOn(w, p, pair, "upload", new) /\ new.file = pair.file
  PROVE  (\A f \in File \ {pair.file} : Stays(f)) /\ Goes(pair.file, "queue", "upload")
  <1>1. pair.file \in File /\ p \in Pipe /\ "upload" \in Pipe
    BY DEF Pair, Pipe
  <1>2. "queue" \in Kind /\ Pipe \subseteq Name
    BY DEF Kind, Name
  <1>3. At("queue", p, pair.file)
    BY <1>1 DEF At, Queued
  <1>4. /\ ~Nowhere(pair.file) /\ ~Uncalled(pair.file) /\ pair.file \notin renameCheck /\ ~Doomed(pair.file)
        /\ \A q \in Pipe \ {p} : ~Queued(q, pair.file)
        /\ \A t \in Transfer : ~Handled(t, pair.file)
    BY <1>1, <1>2, <1>3, Elsewhere
  <1>5. \A q \in Pipe, f \in File :
          Queued(q, f)' => \/ Queued(q, f) /\ ~(q = p /\ f = pair.file)
                           \/ q = "upload" /\ f = pair.file
    BY <1>1, TakenQueues, PassedQueues
  <1>6. /\ \A f \in File : Uncalled(f)' => Uncalled(f)
        /\ \A t \in Transfer, f \in File : Handled(t, f)' => Handled(t, f)
    BY Same
  <1>7. \A f \in File \ {pair.file} : Stays(f)
    BY <1>5, <1>6, Staying
  <1>8. Goes(pair.file, "queue", "upload")
    BY <1>1, <1>2, <1>4, <1>5, <1>6, Going
  <1>9. QED
    BY <1>7, <1>8

\* Where a transfer brings a file.
LEMMA TransferringPlaces ==
  ASSUME Types, OnePlace, OnePair, NEW t \in Transfer, Transferring(t)
  PROVE  \/ \A f \in File : Stays(f)
         \/ \E g \in File, k \in Kind, n \in Name : (\A f \in File \ {g} : Stays(f)) /\ Goes(g, k, n)
  <1>1. TPipes /\ busy \in [Transfer -> {{}} \cup {{pair} : pair \in Pair}]
    BY DEF Types, TWorks
  <1>2. UNCHANGED <<job, todo, renameCheck, dels, dstFiles>>
    BY FootTransferring DEF march, renames, deletes
  <1>3. /\ \A f \in File : Uncalled(f)' => Uncalled(f)
        /\ \A f \in File : Doomed(f)' => Doomed(f)
    BY <1>2, Same
  <1>4. ASSUME NEW pair \in Pair, TransferStart(t, pair)
        PROVE  (\A f \in File \ {pair.file} : Stays(f)) /\ Goes(pair.file, "busy", t)
    <2>1. pair.file \in File /\ "upload" \in Pipe /\ "upload" \in Name /\ t \in Name /\ "queue" \in Kind /\ "busy" \in Kind
      BY DEF Pair, Pipe, Name, Kind
    <2>2. Taken("upload", pair) /\ pair \in queue["upload"] /\ busy' = [busy EXCEPT ![t] = {pair}]
      BY <1>4 DEF TransferStart, Get
    <2>3. At("queue", "upload", pair.file)
      BY <2>1, <2>2 DEF At, Queued
    <2>4. /\ ~Nowhere(pair.file) /\ ~Uncalled(pair.file) /\ pair.file \notin renameCheck /\ ~Doomed(pair.file)
          /\ \A q \in Pipe \ {"upload"} : ~Queued(q, pair.file)
          /\ \A u \in Transfer : ~Handled(u, pair.file)
      BY <2>1, <2>3, Elsewhere
    <2>5. \A q \in Pipe, f \in File : Queued(q, f)' => Queued(q, f) /\ ~(q = "upload" /\ f = pair.file)
      BY <1>1, <2>1, <2>2, TakenQueues
    <2>6. busy'[t] = {pair} /\ \A u \in Transfer \ {t} : busy'[u] = busy[u]
      BY <1>1, <2>2
    <2>7. \A u \in Transfer, f \in File : Handled(u, f)' => Handled(u, f) \/ (u = t /\ f = pair.file)
      BY <2>6 DEF Handled
    <2>8. \A f \in File \ {pair.file} : Stays(f)
      BY <1>2, <1>3, <2>5, <2>7, Staying
    <2>9. Goes(pair.file, "busy", t)
      BY <1>2, <1>3, <2>1, <2>4, <2>5, <2>7, Going
    <2>10. QED
      BY <2>8, <2>9
  <1>5. CASE ~\E pair \in Pair : TransferStart(t, pair)
    <2>1. /\ queue' = queue
          /\ \/ busy' = busy \/ busy' = [busy EXCEPT ![t] = {}]
             \/ \E pair \in busy[t] : busy' = [busy EXCEPT ![t] = {[file |-> pair.file, to |-> "src"]}]
      BY <1>5 DEF Transferring, Exit, TransferCopied, TransferOK, TransferFailed, TransferLimit, Transferred, pipes
    <2>2. \A u \in Transfer : \A x \in busy'[u] : \E y \in busy[u] : x.file = y.file
      BY <1>1, <2>1
    <2>3. \A u \in Transfer, f \in File : Handled(u, f)' => Handled(u, f)
      BY <2>2 DEF Handled
    <2>4. QED
      BY <1>2, <1>3, <2>1, <2>3, Same, Staying
  <1>6. ASSUME NEW pair \in Pair
        PROVE  pair.file \in File /\ t \in Name /\ "busy" \in Kind
    BY DEF Pair, Name, Kind
  <1>7. QED
    BY <1>4, <1>5, <1>6

\* Within a pass, at most one file changes its place, and none that is
\* nowhere comes to a place.
LEMMA StepPlaces ==
  ASSUME Types, OnePlace, OnePair, [Next]_vars
  PROVE  \/ SecondPass
         \/ \A f \in File : Stays(f)
         \/ \E g \in File, k \in Kind, n \in Name : (\A f \in File \ {g} : Stays(f)) /\ Goes(g, k, n)
  <1>1. TPipes /\ "queue" \in Kind /\ "upload" \in Name /\ "rename" \in Name /\ \A pair \in Pair : pair.file \in File
    BY DEF Types, Kind, Name, Pipe, Pair
  <1>2. ASSUME UNCHANGED <<job, todo, queue, busy>>, renameCheck' = renameCheck,
               dels' \cup dstFiles' \subseteq dels \cup dstFiles
        PROVE  \A f \in File : Stays(f)
    <2>1. \A f \in File : Doomed(f)' => Doomed(f)
      BY <1>2 DEF Doomed
    <2>2. QED
      BY <1>2, <2>1, Same, Staying
  <1>3. ASSUME NEW c \in Checker, Checking(c)
        PROVE  \/ \A f \in File : Stays(f)
               \/ \E pair \in Pair :
                    (\A f \in File \ {pair.file} : Stays(f)) /\ Goes(pair.file, "queue", "upload")
    <2>1. UNCHANGED <<job, todo, renameCheck, busy, dels, dstFiles>>
      BY <1>3, FootChecking DEF march, renames, deletes
    <2>2. \A f \in File : Doomed(f)' => Doomed(f)
      BY <2>1, Same
    <2>3. CASE queue' = queue
      BY <1>2, <2>1, <2>3
    <2>4. ASSUME NEW pair \in Pair, pair \in queue["check"],
                 \/ Taken("check", pair)
                 \/ \E new \in Pair : PassedOn(c, "check", pair, "upload", new) /\ new.file = pair.file
          PROVE  (\A f \in File \ {pair.file} : Stays(f)) /\ Goes(pair.file, "queue", "upload")
      BY <1>1, <2>1, <2>2, <2>4, TakenPlaces, Distinct
    <2>5. QED
      BY <1>3, <2>3, <2>4, CheckingPipes
  <1>4. ASSUME NEW r \in Renamer, Renaming(r)
        PROVE  \/ \A f \in File : Stays(f)
               \/ \E pair \in Pair :
                    (\A f \in File \ {pair.file} : Stays(f)) /\ Goes(pair.file, "queue", "upload")
    <2>1. UNCHANGED <<job, todo, renameCheck, busy, dels>>
      BY <1>4, FootRenaming DEF march
    <2>2. dstFiles' \subseteq dstFiles
      BY <1>4 DEF Renaming, Exit, Rename, deletes
    <2>3. \A f \in File : Doomed(f)' => Doomed(f)
      BY <2>1, <2>2 DEF Doomed
    <2>4. CASE queue' = queue
      BY <1>2, <2>1, <2>2, <2>4
    <2>5. ASSUME NEW pair \in Pair, pair \in queue["rename"],
                 Taken("rename", pair) \/ PassedOn(r, "rename", pair, "upload", pair)
          PROVE  (\A f \in File \ {pair.file} : Stays(f)) /\ Goes(pair.file, "queue", "upload")
      BY <1>1, <2>1, <2>3, <2>5, TakenPlaces, Distinct
    <2>6. QED
      BY <1>4, <2>4, <2>5, RenamingPipes
  <1>5. CASE Deleting
    <2>1. UNCHANGED <<job, todo, queue, busy, renameCheck, dstFiles>>
      BY <1>5, FootDeleting DEF march, pipes, works, renames
    <2>2. dels' \subseteq dels
      BY <1>5 DEF Deleting, DeletersReturn, DeleteOne
    <2>3. QED
      BY <1>2, <2>1, <2>2
  <1>6. ASSUME NEW g \in File, OfferRename(g)
        PROVE  (\A f \in File \ {g} : Stays(f)) /\ Goes(g, "queue", "rename")
    <2>1. /\ UNCHANGED <<job, todo, busy, dels, dstFiles>> /\ g \in renameCheck /\ renameCheck' = renameCheck \ {g}
          /\ Put("main", "rename", [file |-> g, to |-> "nil"])
      BY <1>6 DEF OfferRename, march, works, deletes
    <2>2. [file |-> g, to |-> "nil"] \in Pair /\ [file |-> g, to |-> "nil"].file = g /\ "rename" \in Pipe
      BY DEF Pair, Pipe
    <2>3. \A q \in Pipe, f \in File : Queued(q, f)' => Queued(q, f) \/ (q = "rename" /\ f = g)
      BY <1>1, <2>1, <2>2, PutQueues
    <2>4. At("renames", "", g) /\ "renames" \in Kind /\ "" \in Name
      BY <2>1 DEF At, Kind, Name
    <2>5. /\ ~Nowhere(g) /\ ~Uncalled(g) /\ ~Doomed(g)
          /\ \A p \in Pipe : ~Queued(p, g)
          /\ \A t \in Transfer : ~Handled(t, g)
      BY <2>4, Elsewhere
    <2>6. /\ \A f \in File : (Uncalled(f)' => Uncalled(f)) /\ (Doomed(f)' => Doomed(f))
          /\ \A t \in Transfer, f \in File : Handled(t, f)' => Handled(t, f)
      BY <2>1, Same
    <2>7. \A f \in File \ {g} : Stays(f)
      BY <2>1, <2>3, <2>6, Staying
    <2>8. Goes(g, "queue", "rename")
      BY <1>1, <2>1, <2>3, <2>5, <2>6, Going
    <2>9. QED
      BY <2>7, <2>8
  <1>7. CASE Main
    <2>1. CASE ~SecondPass /\ \A f \in File : ~OfferRename(f)
      <3>1. UNCHANGED <<job, todo, busy>>
        BY <1>7, <2>1, FootMainFirst DEF march
      <3>2. UNCHANGED <<queue, renameCheck>> /\ dels' \cup dstFiles' \subseteq dels \cup dstFiles
        BY <1>7, <2>1 DEF Main, Marched, MakeRenameMap, RenamesSent, Checked, Renamed, TransfersDone,
             DeletersDone, PumpEnds, AfterDone, Return, Pump, pipes, renames, deletes
      <3>3. QED
        BY <1>2, <3>1, <3>2
    <2>2. QED
      BY <1>1, <1>6, <2>1
  <1>8. QED
    <2>1. CASE \/ \E w \in Producer : Putting(w)
               \/ Deadline \/ Cancel \/ UNCHANGED vars
      <3>1. UNCHANGED <<march, queue, busy, renames, deletes>>
        BY <2>1, FootPutting, FootLimits DEF vars, pipes, works
      <3>2. QED
        BY <1>2, <3>1 DEF march, renames, deletes
    <2>2. QED
      BY <1>1, <1>3, <1>4, <1>5, <1>7, <2>1, Actors, MarchingPlaces, TransferringPlaces

\* No file comes to a second place.
LEMMA NextOnePlace ==
  ASSUME Types, Modes, OnePlace, OnePair, [Next]_vars
  PROVE  OnePlace'
  <1>1. CASE SecondPass
    <2>1. TFirst /\ mode = "only"
      BY <1>1 DEF Types, SecondPass, Modes
    <2>2. ~TrackRenames /\ dstFiles = {}
      BY <2>1, OptionFacts DEF Modes
    <2>3. renameCheck' = {} /\ dels' = {} /\ dstFiles' = {}
      BY <1>1, <2>2 DEF SecondPass, Modes, renames
    <2>4. (\A p \in Pipe : queue'[p] = {}) /\ \A t \in Transfer : busy'[t] = {}
      BY <1>1 DEF SecondPass
    <2>5. \A f \in File, k \in Kind, n \in Name : At(k, n, f)' => k = "uncalled" /\ n = ""
      BY <2>3, <2>4 DEF At, Doomed, Queued, Handled
    <2>6. QED
      BY <2>5 DEF OnePlace
  <1>2. ASSUME NEW g \in File, \A f \in File \ {g} : Stays(f),
               Stays(g) \/ \E k \in Kind, n \in Name : Goes(g, k, n)
        PROVE  OnePlace'
    <2>1. SUFFICES ASSUME NEW f \in File, NEW j \in Kind, NEW k \in Kind, NEW m \in Name, NEW n \in Name,
                          At(j, m, f)', At(k, n, f)'
                   PROVE  j = k /\ m = n
      BY DEF OnePlace
    <2>2. CASE Stays(f)
      BY <2>1, <2>2 DEF Stays, OnePlace
    <2>3. CASE f = g /\ \E l \in Kind, o \in Name : Goes(g, l, o)
      BY <2>1, <2>3 DEF Goes
    <2>4. QED
      BY <1>2, <2>2, <2>3
  <1>3. CASE \A f \in File : Stays(f)
    BY <1>3 DEF OnePlace, Stays
  <1>4. QED
    BY <1>1, <1>2, <1>3, StepPlaces

\* A file that is nowhere stays so within a pass.
LEMMA NextNowhere ==
  ASSUME Types, OnePlace, OnePair, [Next]_vars, NEW f \in File, Nowhere(f)
  PROVE  SecondPass \/ Nowhere(f)'
  <1>1. ASSUME Stays(f)
        PROVE  Nowhere(f)'
    BY <1>1 DEF Stays, Nowhere
  <1>2. ASSUME NEW g \in File, NEW k \in Kind, NEW n \in Name, Goes(g, k, n)
        PROVE  f # g
    BY <1>2 DEF Goes
  <1>3. QED
    BY <1>1, <1>2, StepPlaces

\* A name that is called back for, or offered as a rename, is in no pipe.
LEMMA FreshPairs ==
  ASSUME Types, OnePlace, OnePair, NEW f \in File,
         (\E d \in Dir : Called(d, f)) \/ OfferRename(f)
  PROVE  \A p \in Pipe : ~Queued(p, f)
  <1>1. "" \in Name /\ "uncalled" \in Kind /\ "renames" \in Kind
    BY DEF Name, Kind
  <1>2. ASSUME NEW d \in Dir, Called(d, f)
        PROVE  At("uncalled", "", f)
    <2>1. f \in todo[d]
      BY <1>2 DEF Called
    <2>2. DirOf[f] = d
      BY <2>1 DEF OnePair
    <2>3. QED
      BY <2>1, <2>2 DEF At, Uncalled
  <1>3. OfferRename(f) => At("renames", "", f)
    BY DEF OfferRename, At
  <1>4. QED
    BY <1>1, <1>2, <1>3, Elsewhere

\* Pairs stay unique.
LEMMA NextOnePair ==
  ASSUME Types, OnePlace, OnePair, [Next]_vars
  PROVE  OnePair'
  <1>1. /\ TPipes /\ queue \in [Pipe -> SUBSET Pair] /\ DirOf \in [File -> Dir]
        /\ job \in [Dir -> {"waiting", "matching", "done"}] /\ todo \in [Dir -> SUBSET File]
        /\ "upload" \in Pipe /\ "check" \in Pipe /\ "rename" \in Pipe
    BY SyncAssumption DEF Types, TPipes, TMarch, Pipe
  <1>2. \A p \in Pipe : \A x, y \in queue'[p] : x.file = y.file => x = y
    <2>1. CASE queue' = queue
      BY <2>1 DEF OnePair
    <2>2. ASSUME NEW p \in Pipe, NEW pair \in Pair, ~Queued(p, pair.file), NEW who, Put(who, p, pair)
          PROVE  \A q \in Pipe : \A x, y \in queue'[q] : x.file = y.file => x = y
      <3>1. queue'[p] = queue[p] \cup {pair} /\ \A q \in Pipe \ {p} : queue'[q] = queue[q]
        BY <1>1, <2>2 DEF Put
      <3>2. QED
        BY <2>2, <3>1 DEF OnePair, Queued
    <2>3. ASSUME NEW p \in Pipe, NEW pair \in Pair, Taken(p, pair)
          PROVE  \A q \in Pipe : \A x, y \in queue'[q] : x.file = y.file => x = y
      <3>1. \A q \in Pipe : queue'[q] \subseteq queue[q]
        BY <1>1, <2>3 DEF Taken
      <3>2. QED
        BY <3>1 DEF OnePair
    <2>4. ASSUME NEW w, NEW p \in {"check", "rename"}, NEW pair \in Pair, NEW new \in Pair,
                 PassedOn(w, p, pair, "upload", new), pair \in queue[p], new.file = pair.file
          PROVE  \A q \in Pipe : \A x, y \in queue'[q] : x.file = y.file => x = y
      <3>1. /\ queue'["upload"] = queue["upload"] \cup {new}
            /\ \A q \in Pipe \ {"upload"} : queue'[q] \subseteq queue[q]
        BY <1>1, <2>4 DEF PassedOn
      <3>2. pair.file \in File /\ At("queue", p, pair.file) /\ "queue" \in Kind /\ p \in Name /\ p \in Pipe /\ p # "upload"
        BY <1>1, <2>4 DEF At, Queued, Pair, Kind, Name
      <3>3. ~Queued("upload", pair.file)
        BY <1>1, <3>2, Elsewhere
      <3>4. QED
        BY <2>4, <3>1, <3>3 DEF OnePair, Queued
    <2>5. CASE \E w \in Producer : Putting(w)
      BY <2>1, <2>5, FootPutting
    <2>6. CASE SecondPass
      <3>1. \A p \in Pipe : queue'[p] = {}
        BY <2>6 DEF SecondPass
      <3>2. QED
        BY <3>1
    <2>7. ASSUME NEW d \in Dir, NEW f \in File, NEW p \in Pipe, NEW pair \in Pair,
                 Called(d, f), pair.file = f, Put(d, p, pair)
          PROVE  \A q \in Pipe : \A x, y \in queue'[q] : x.file = y.file => x = y
      BY <2>2, <2>7, FreshPairs
    <2>8. ASSUME NEW f \in File, NEW pair \in Pair, OfferRename(f), pair.file = f, Put("main", "rename", pair)
          PROVE  \A q \in Pipe : \A x, y \in queue'[q] : x.file = y.file => x = y
      BY <1>1, <2>2, <2>8, FreshPairs
    <2>9. QED
      BY <2>1, <2>3, <2>4, <2>5, <2>6, <2>7, <2>8, PipeSteps
  <1>3. /\ \A d \in Dir : job'[d] = "waiting" => todo'[d] = {}
        /\ \A d \in Dir : \A f \in todo'[d] : DirOf[f] = d
    <2>1. CASE UNCHANGED <<job, todo>>
      BY <2>1 DEF OnePair
    <2>2. ASSUME NEW d \in Dir, Marching(d)
          PROVE  /\ \A e \in Dir : job'[e] = "waiting" => todo'[e] = {}
                 /\ \A e \in Dir : \A f \in todo'[e] : DirOf[f] = e
      <3>1. CASE List(d)
        <4>1. job' = [job EXCEPT ![d] = "matching"] /\ (\A e \in Dir \ {d} : todo'[e] = todo[e]) /\ \A f \in todo'[d] : DirOf[f] = d
          BY <1>1, <3>1 DEF List
        <4>2. job'[d] = "matching" /\ \A e \in Dir \ {d} : job'[e] = job[e]
          BY <1>1, <4>1
        <4>3. QED
          BY <4>1, <4>2 DEF OnePair
      <3>2. CASE JobDone(d) \/ JobAborted(d) \/ JobDropped(d)
        <4>1. job' = [job EXCEPT ![d] = "done"] /\ todo' = todo
          BY <3>2 DEF JobDone, JobAborted, JobDropped
        <4>2. \A e \in Dir : job'[e] = "waiting" => job[e] = "waiting"
          BY <1>1, <4>1
        <4>3. QED
          BY <4>1, <4>2 DEF OnePair
      <3>3. CASE \E f \in File : SrcOnly(d, f) \/ Match(d, f) \/ DstOnly(d, f)
        <4>1. job' = job /\ \E f \in File : todo' = [todo EXCEPT ![d] = @ \ {f}]
          BY <3>3 DEF SrcOnly, Match, DstOnly, Called
        <4>2. \A e \in Dir : todo'[e] \subseteq todo[e]
          BY <1>1, <4>1
        <4>3. QED
          BY <4>1, <4>2 DEF OnePair
      <3>4. QED
        BY <2>2, <3>1, <3>2, <3>3 DEF Marching
    <2>3. CASE SecondPass
      <3>1. \A d \in Dir : todo'[d] = {}
        BY <2>3 DEF SecondPass
      <3>2. QED
        BY <3>1
    <2>4. CASE \/ \E c \in Checker : Checking(c)
               \/ \E r \in Renamer : Renaming(r)
               \/ \E t \in Transfer : Transferring(t)
               \/ \E w \in Producer : Putting(w)
               \/ Deleting \/ Deadline \/ Cancel \/ UNCHANGED vars
      BY <2>1, <2>4, FootChecking, FootRenaming, FootTransferring, FootPutting, FootDeleting, FootLimits DEF vars, march
    <2>5. CASE Main
      BY <2>1, <2>3, <2>5, FootMainFirst DEF march
    <2>6. QED
      BY <1>1, <2>2, <2>4, <2>5, Actors
  <1>4. QED
    BY <1>2, <1>3 DEF OnePair

-----------------------------------------------------------------------------
(* Every token has its pair *)

\* Those who wait for a place in the channel have put their pair already.
Waiting(p) == {w \in Producer : blocked[w] = p}
Counted(Q, T, W) == IsFiniteSet(Q) /\ T + Cardinality(W) <= Cardinality(Q)
Counts == \A p \in Pipe : Counted(queue[p], tokens[p], Waiting(p))

\* There are finitely many producers.
LEMMA WaitingFinite ==
  ASSUME NEW S, S \subseteq Producer
  PROVE  IsFiniteSet(S) /\ Cardinality(S) \in Nat
  <1>1. IsFiniteSet(Dir) /\ IsFiniteSet(Checker) /\ IsFiniteSet(Renamer)
    BY SyncAssumption
  <1>2. IsFiniteSet({"main"})
    BY FS_Singleton
  <1>3. IsFiniteSet(Dir \cup Checker)
    BY <1>1, FS_Union
  <1>4. IsFiniteSet(Dir \cup Checker \cup Renamer)
    BY <1>1, <1>3, FS_Union
  <1>5. IsFiniteSet(Producer)
    BY <1>2, <1>4, FS_Union DEF Producer
  <1>6. IsFiniteSet(S)
    BY <1>5, FS_Subset
  <1>7. QED
    BY <1>6, FS_CardinalityType

\* A Put counts its pair and the producer.
LEMMA CountPut ==
  ASSUME NEW Q, NEW T \in Nat, NEW W, Counted(Q, T, W), IsFiniteSet(W), NEW x, x \notin Q, NEW w, w \notin W
  PROVE  Counted(Q \cup {x}, T, W \cup {w})
  <1>1. Cardinality(Q) \in Nat /\ Cardinality(W) \in Nat
    BY FS_CardinalityType DEF Counted
  <1>2. Cardinality(W \cup {w}) = Cardinality(W) + 1
    BY FS_AddElement
  <1>3. IsFiniteSet(Q \cup {x}) /\ Cardinality(Q \cup {x}) = Cardinality(Q) + 1
    BY FS_AddElement DEF Counted
  <1>4. QED
    BY <1>1, <1>2, <1>3 DEF Counted

\* A Get counts a token and a pair less.
LEMMA CountGet ==
  ASSUME NEW Q, NEW T \in Nat, T > 0, NEW W, Counted(Q, T, W), IsFiniteSet(W), NEW x \in Q
  PROVE  Counted(Q \ {x}, T - 1, W)
  <1>1. Cardinality(Q) \in Nat /\ Cardinality(W) \in Nat
    BY FS_CardinalityType DEF Counted
  <1>2. IsFiniteSet(Q \ {x}) /\ Cardinality(Q \ {x}) = Cardinality(Q) - 1
    BY FS_RemoveElement DEF Counted
  <1>3. QED
    BY <1>1, <1>2 DEF Counted

\* A producer that waited no longer does, with a token or without.
LEMMA CountSent ==
  ASSUME NEW Q, NEW T \in Nat, NEW W, Counted(Q, T, W), IsFiniteSet(W), NEW w \in W
  PROVE  Counted(Q, T, W \ {w}) /\ Counted(Q, T + 1, W \ {w})
  <1>1. Cardinality(Q) \in Nat /\ Cardinality(W) \in Nat
    BY FS_CardinalityType DEF Counted
  <1>2. Cardinality(W \ {w}) = Cardinality(W) - 1
    BY FS_RemoveElement
  <1>3. QED
    BY <1>1, <1>2 DEF Counted

\* Each step keeps the count.
LEMMA NextCounts ==
  ASSUME Types, OnePlace, OnePair, Counts, [Next]_vars
  PROVE  Counts'
  <1>1. /\ queue \in [Pipe -> SUBSET Pair] /\ tokens \in [Pipe -> Nat] /\ blocked \in [Producer -> Pipe \cup {Nobody}]
        /\ "upload" \in Pipe /\ "check" \in Pipe /\ "rename" \in Pipe /\ Nobody \notin Pipe
    BY DEF Types, TPipes, Pipe, Nobody
  <1>2. \A p \in Pipe : IsFiniteSet(Waiting(p)) /\ tokens[p] \in Nat /\ Counted(queue[p], tokens[p], Waiting(p))
    <2>1. \A p \in Pipe : Waiting(p) \subseteq Producer
      BY DEF Waiting
    <2>2. QED
      BY <1>1, <2>1, WaitingFinite DEF Counts
  <1>3. CASE UNCHANGED <<queue, tokens, blocked>>
    BY <1>3 DEF Counts, Waiting
  <1>4. ASSUME NEW who \in Producer, NEW p \in Pipe, NEW pair \in Pair, Put(who, p, pair),
               blocked[who] = Nobody, ~Queued(p, pair.file)
        PROVE  Counts'
    <2>1. /\ queue'[p] = queue[p] \cup {pair} /\ pair \notin queue[p] /\ tokens' = tokens
          /\ \A q \in Pipe \ {p} : queue'[q] = queue[q]
      BY <1>1, <1>4 DEF Put, Queued
    <2>2. blocked'[who] = p /\ \A w \in Producer \ {who} : blocked'[w] = blocked[w]
      BY <1>1, <1>4 DEF Put
    <2>3. /\ Waiting(p)' = Waiting(p) \cup {who} /\ who \notin Waiting(p)
          /\ \A q \in Pipe \ {p} : Waiting(q)' = Waiting(q)
      BY <1>1, <1>4, <2>2 DEF Waiting
    <2>4. Counted(queue'[p], tokens'[p], Waiting(p)')
      BY <1>2, <2>1, <2>3, CountPut
    <2>5. QED
      BY <1>2, <2>1, <2>3, <2>4 DEF Counts
  <1>5. ASSUME NEW p \in Pipe, NEW pair \in Pair, Taken(p, pair), tokens[p] > 0, pair \in queue[p]
        PROVE  Counts'
    <2>1. /\ queue'[p] = queue[p] \ {pair} /\ tokens'[p] = tokens[p] - 1 /\ blocked' = blocked
          /\ \A q \in Pipe \ {p} : queue'[q] = queue[q] /\ tokens'[q] = tokens[q]
      BY <1>1, <1>5 DEF Taken
    <2>2. \A q \in Pipe : Waiting(q)' = Waiting(q)
      BY <2>1 DEF Waiting
    <2>3. Counted(queue'[p], tokens'[p], Waiting(p)')
      BY <1>2, <1>5, <2>1, <2>2, CountGet
    <2>4. QED
      BY <1>2, <2>1, <2>2, <2>3 DEF Counts
  <1>6. ASSUME NEW w \in Producer, NEW p \in {"check", "rename"}, NEW pair \in Pair, NEW new \in Pair,
               PassedOn(w, p, pair, "upload", new), tokens[p] > 0, pair \in queue[p],
               new.file = pair.file, blocked[w] = Nobody
        PROVE  Counts'
    <2>1. p \in Pipe /\ p # "upload" /\ pair.file \in File /\ "queue" \in Kind /\ p \in Name
      BY DEF Pipe, Pair, Kind, Name
    <2>2. At("queue", p, pair.file)
      BY <1>6, <2>1 DEF At, Queued
    <2>3. ~Queued("upload", pair.file)
      BY <1>1, <2>1, <2>2, Elsewhere
    <2>4. new \notin queue["upload"]
      BY <1>6, <2>3 DEF Queued
    <2>5. /\ queue'[p] = queue[p] \ {pair} /\ queue'["upload"] = queue["upload"] \cup {new}
          /\ tokens'[p] = tokens[p] - 1 /\ tokens'["upload"] = tokens["upload"]
          /\ \A q \in Pipe \ {p, "upload"} : queue'[q] = queue[q] /\ tokens'[q] = tokens[q]
      BY <1>1, <1>6, <2>1 DEF PassedOn
    <2>6. blocked'[w] = "upload" /\ \A v \in Producer \ {w} : blocked'[v] = blocked[v]
      BY <1>1, <1>6 DEF PassedOn
    <2>7. /\ Waiting("upload")' = Waiting("upload") \cup {w} /\ w \notin Waiting("upload")
          /\ \A q \in Pipe \ {"upload"} : Waiting(q)' = Waiting(q)
      BY <1>1, <1>6, <2>6 DEF Waiting
    <2>8. Counted(queue'["upload"], tokens'["upload"], Waiting("upload")')
      BY <1>1, <1>2, <2>4, <2>5, <2>7, CountPut
    <2>9. Counted(queue'[p], tokens'[p], Waiting(p)')
      BY <1>2, <1>6, <2>1, <2>5, <2>7, CountGet
    <2>10. QED
      BY <1>2, <2>5, <2>7, <2>8, <2>9 DEF Counts
  <1>7. ASSUME NEW w \in Producer, Putting(w)
        PROVE  Counts'
    <2>1. PICK p \in Pipe : blocked[w] = p
      BY <1>1, <1>7 DEF Putting, Sent, Unsent
    <2>2. queue' = queue /\ blocked'[w] = Nobody /\ \A v \in Producer \ {w} : blocked'[v] = blocked[v]
      BY <1>1, <1>7 DEF Putting, Sent, Unsent
    <2>3. /\ tokens'[p] = tokens[p] \/ tokens'[p] = tokens[p] + 1
          /\ \A q \in Pipe \ {p} : tokens'[q] = tokens[q]
      BY <1>1, <1>7, <2>1 DEF Putting, Sent, Unsent
    <2>4. /\ Waiting(p)' = Waiting(p) \ {w} /\ w \in Waiting(p)
          /\ \A q \in Pipe \ {p} : Waiting(q)' = Waiting(q)
      BY <1>1, <2>1, <2>2 DEF Waiting
    <2>5. Counted(queue'[p], tokens'[p], Waiting(p)')
      BY <1>2, <2>2, <2>3, <2>4, CountSent
    <2>6. QED
      BY <1>2, <2>2, <2>3, <2>4, <2>5 DEF Counts
  <1>8. CASE SecondPass
    <2>1. \A p \in Pipe : queue'[p] = {} /\ tokens'[p] = 0
      BY <1>8 DEF SecondPass
    <2>2. \A v \in Producer : blocked'[v] = Nobody
      BY <1>8 DEF SecondPass, Unblocked
    <2>3. \A p \in Pipe : Waiting(p)' = {}
      BY <1>1, <2>2 DEF Waiting
    <2>4. QED
      BY <2>1, <2>3, FS_EmptySet DEF Counts, Counted
  <1>9. ASSUME NEW d \in Dir, NEW f \in File, NEW p \in Pipe, NEW pair \in Pair,
               Called(d, f), pair.file = f, Put(d, p, pair), blocked[d] = Nobody
        PROVE  Counts'
    BY <1>4, <1>9, FreshPairs, Distinct
  <1>10. ASSUME NEW f \in File, NEW pair \in Pair,
                OfferRename(f), pair.file = f, Put("main", "rename", pair), blocked["main"] = Nobody
         PROVE  Counts'
    BY <1>1, <1>4, <1>10, FreshPairs, Distinct
  <1>11. QED
    BY <1>3, <1>5, <1>6, <1>7, <1>8, <1>9, <1>10, PipeSteps

\* The invariant of the pipes.
PInv == Types /\ Modes /\ Stages /\ OnePlace /\ OnePair /\ Counts

\* It holds at the start.
LEMMA InitPInv ==
  ASSUME Init
  PROVE  PInv
  <1>1. Types /\ Modes /\ Stages
    BY InitTypes, InitStages
  <1>2. (\A p \in Pipe : queue[p] = {} /\ tokens[p] = 0) /\ (\A t \in Transfer : busy[t] = {}) /\ \A d \in Dir : todo[d] = {}
    BY DEF Init
  <1>3. OnePair
    BY <1>2 DEF OnePair
  <1>4. \A f \in File, k \in Kind, n \in Name : At(k, n, f) => k = "uncalled" /\ n = ""
    BY <1>2 DEF Init, At, Doomed, Queued, Handled
  <1>5. OnePlace
    BY <1>4 DEF OnePlace
  <1>6. \A p \in Pipe : Waiting(p) = {}
    BY DEF Init, Waiting, Unblocked, Pipe, Nobody
  <1>7. Counts
    BY <1>2, <1>6, FS_EmptySet DEF Counts, Counted
  <1>8. QED
    BY <1>1, <1>3, <1>5, <1>7 DEF PInv

\* Every step keeps it.
LEMMA NextPInv ==
  ASSUME PInv, [Next]_vars
  PROVE  PInv'
  BY NextTypes, NextModes, NextStages, NextOnePlace, NextOnePair, NextCounts DEF PInv

\* What the invariant says of the pipes.
LEMMA SafePipes ==
  ASSUME PInv
  PROVE  PipesSafe
  <1>1. /\ blocked \in [Producer -> Pipe \cup {Nobody}] /\ tokens \in [Pipe -> Nat] /\ open \in [Pipe -> BOOLEAN]
        /\ Pipe = {"check", "rename", "upload"} /\ TStage
    BY DEF PInv, Types, TPipes, Pipe
  <1>2. ASSUME NEW w \in Producer, blocked[w] # Nobody
        PROVE  open[blocked[w]]
    <2>1. CASE w \in Dir
      <3>1. job[w] = "matching" /\ blocked[w] \in {"check", "upload"}
        BY <1>1, <1>2, <2>1 DEF PInv, Stages, Manned
      <3>2. main = "march"
        BY <2>1, <3>1 DEF PInv, Stages, Manned
      <3>3. QED
        BY <3>1, <3>2 DEF PInv, Stages, Opened, Before, Late
    <2>2. CASE w = "main"
      BY <1>2, <2>2 DEF PInv, Stages, Opened, Manned, Before, Late
    <2>3. CASE w \in Checker \cup Renamer
      <3>1. blocked[w] = "upload" /\ work[w] = "idle"
        BY <1>2, <2>3 DEF PInv, Stages, Manned
      <3>2. main \notin Late
        BY <2>3, <3>1 DEF PInv, Stages, Manned
      <3>3. QED
        BY <3>1, <3>2 DEF PInv, Stages, Opened
    <2>4. QED
      BY <2>1, <2>2, <2>3 DEF Producer
  <1>3. ASSUME NEW p \in Pipe
        PROVE  tokens[p] <= Cardinality(queue[p])
    <2>1. Waiting(p) \subseteq Producer
      BY DEF Waiting
    <2>2. Cardinality(Waiting(p)) \in Nat /\ Cardinality(queue[p]) \in Nat
      BY <1>3, <2>1, WaitingFinite, FS_CardinalityType DEF PInv, Counts, Counted
    <2>3. QED
      BY <1>1, <1>3, <2>2 DEF PInv, Counts, Counted
  <1>4. QED
    BY <1>1, <1>2, <1>3 DEF PipesSafe

\* No goroutine writes to a channel that run has closed, which would panic, and
\* whoever takes a token from a pipe finds a pair for it, for any backlog and
\* any number of producers and consumers (pipe.Put, pipe.GetMax, run).
THEOREM PipesAreSafe == Spec => []PipesSafe
  BY SafePipes, InitPInv, NextPInv, PTL DEF Spec

-----------------------------------------------------------------------------
(* Who works on a file *)

\* A step changes what the trees have under a name.
Touched(f) == src'[f] # src[f] \/ dst'[f] # dst[f] \/ backup'[f] # backup[f]

\* A file is touched only by the goroutine that has it, and leaves its place.
LEMMA NextTouched ==
  ASSUME Types, Modes, Stages, [Next]_vars, NEW g \in File, Touched(g)
  PROVE  \/ \E c \in Checker, pair \in Pair :
              pair.file = g /\ Check(c, pair) /\ pair \in queue["check"]
         \/ \E r \in Renamer, pair \in Pair :
              pair.file = g /\ Rename(r, pair) /\ pair \in queue["rename"]
         \/ \E r \in Renamer, pair \in Pair :
              Rename(r, pair) /\ g \in dstFiles /\ g \notin dstFiles' /\ dst'[g] = Absent
         \/ \E t \in Transfer, pair \in Pair :
              /\ pair.file = g /\ busy[t] = {pair} /\ busy'[t] = {}
              /\ TransferOK(t, pair) \/ TransferFailed(t, pair) \/ TransferLimit(t, pair)
         \/ \E t \in Transfer, pair \in Pair :
              pair.file = g /\ busy[t] = {pair} /\ TransferCopied(t, pair)
         \/ DeleteOne(g) /\ g \in dels
  <1>1. /\ TPipes /\ src \in [File -> Content \cup {Absent}] /\ dst \in [File -> Content \cup {Absent}]
        /\ backup \in [File -> Content \cup {Absent}] /\ renameMap \subseteq File
        /\ busy \in [Transfer -> {{}} \cup {{pair} : pair \in Pair}] /\ \A pair \in Pair : pair.file \in File
    BY DEF Types, TTrees, TNames, TWorks, Tree, Pair
  <1>2. CASE UNCHANGED trees
    BY <1>2 DEF Touched, trees
  <1>3. ASSUME NEW c \in Checker, Checking(c)
        PROVE  \E pair \in Pair : pair.file = g /\ Check(c, pair) /\ pair \in queue["check"]
    <2>1. ~Exit(c, "check")
      BY <1>2 DEF Exit, Touched, trees
    <2>2. PICK pair \in Pair : Check(c, pair)
      BY <1>3, <2>1 DEF Checking
    <2>3. \/ UNCHANGED trees
          \/ /\ backup' = [backup EXCEPT ![pair.file] = dst[pair.file]]
             /\ dst' = [dst EXCEPT ![pair.file] = Absent] /\ src' = src
          \/ src' = [src EXCEPT ![pair.file] = Absent] /\ UNCHANGED <<dst, backup>>
      BY <2>2 DEF Check, trees
    <2>4. pair.file = g
      BY <1>1, <2>3 DEF Touched, trees
    <2>5. QED
      BY <2>2, <2>4 DEF Check, Get
  <1>4. ASSUME NEW r \in Renamer, Renaming(r)
        PROVE  \E pair \in Pair :
                 /\ Rename(r, pair)
                 /\ \/ pair.file = g /\ pair \in queue["rename"]
                    \/ g \in dstFiles /\ g \notin dstFiles' /\ dst'[g] = Absent
    <2>1. ~Exit(r, "rename")
      BY <1>2 DEF Exit, Touched, trees
    <2>2. PICK pair \in Pair : Rename(r, pair)
      BY <1>4, <2>1 DEF Renaming
    <2>3. UNCHANGED <<src, backup>> /\ pair \in queue["rename"] /\ work[r] = "idle"
      BY <2>2 DEF Rename, Get, Free
    <2>4. renameMap \subseteq dstFiles
      BY <2>3 DEF Stages, Manned, Modes
    <2>5. \/ dst' = dst
          \/ \E kept : dst' = [dst EXCEPT ![pair.file] = kept]
          \/ \E x \in renameMap : dst' = [dst EXCEPT ![pair.file] = dst[x], ![x] = Absent] /\ dstFiles' = dstFiles \ {x}
      BY <2>2 DEF Rename
    <2>6. pair.file = g \/ (g \in renameMap /\ g \notin dstFiles' /\ dst'[g] = Absent)
      BY <1>1, <2>3, <2>5 DEF Touched
    <2>7. QED
      BY <2>2, <2>3, <2>4, <2>6
  <1>5. ASSUME NEW t \in Transfer, Transferring(t)
        PROVE  \E pair \in Pair :
                 /\ pair.file = g /\ busy[t] = {pair}
                 /\ \/ TransferCopied(t, pair)
                    \/ /\ TransferOK(t, pair) \/ TransferFailed(t, pair) \/ TransferLimit(t, pair)
                       /\ busy'[t] = {}
    <2>1. ~Exit(t, "upload") /\ ~\E pair \in Pair : TransferStart(t, pair)
      BY <1>2 DEF Exit, TransferStart, Touched, trees
    <2>2. PICK pair \in Pair :
            \/ TransferCopied(t, pair) \/ TransferOK(t, pair) \/ TransferFailed(t, pair)
            \/ TransferLimit(t, pair)
      BY <1>5, <2>1 DEF Transferring
    <2>3. busy[t] = {pair} /\ (TransferCopied(t, pair) \/ busy'[t] = {})
      BY <1>1, <2>2 DEF TransferCopied, TransferOK, TransferFailed, TransferLimit, Transferred
    <2>4. backup' = backup
      BY <1>5, FootTransferring
    <2>5. src' = src \/ \E s : src' = [src EXCEPT ![pair.file] = s]
      BY <2>2 DEF TransferCopied, TransferOK, TransferFailed, TransferLimit
    <2>6. dst' = dst \/ \E s : dst' = [dst EXCEPT ![pair.file] = s]
      BY <2>2 DEF TransferCopied, TransferOK, TransferFailed, TransferLimit
    <2>7. pair.file = g
      BY <1>1, <2>4, <2>5, <2>6 DEF Touched
    <2>8. QED
      BY <2>2, <2>3, <2>7
  <1>6. CASE Deleting
    <2>1. ~DeletersReturn
      BY <1>2 DEF DeletersReturn, Touched, trees
    <2>2. PICK f \in File : DeleteOne(f)
      BY <1>6, <2>1 DEF Deleting
    <2>3. /\ src' = src /\ (dst' = dst \/ dst' = [dst EXCEPT ![f] = Absent])
          /\ backup' = backup \/ backup' = [backup EXCEPT ![f] = dst[f]]
      BY <2>2 DEF DeleteOne, Saved
    <2>4. f = g
      BY <1>1, <2>3 DEF Touched
    <2>5. QED
      BY <2>2, <2>4 DEF DeleteOne
  <1>7. QED
    <2>1. CASE \/ \E d \in Dir : Marching(d)
               \/ \E w \in Producer : Putting(w)
               \/ Main \/ Deadline \/ Cancel \/ UNCHANGED vars
      BY <1>2, <2>1, FootMarching, FootPutting, FootMain, FootLimits DEF vars
    <2>2. QED
      BY <1>1, <1>3, <1>4, <1>5, <1>6, <2>1, Actors

\* A goroutine goes on with a file that it has copied.
Continues(t, g) == \E pair \in Pair : pair.file = g /\ busy[t] = {pair} /\ TransferCopied(t, pair)

\* So a file that no goroutine has is left alone.
LEMMA TouchedPlace ==
  ASSUME Types, Modes, Stages, OnePlace, [Next]_vars, NEW g \in File, Touched(g)
  PROVE  /\ ~Nowhere(g) /\ ~Uncalled(g) /\ g \notin renameCheck /\ ~Queued("upload", g)
         /\ \A t \in Transfer : Handled(t, g) => busy'[t] = {} \/ Continues(t, g)
  <1>1. /\ {"", "check", "rename", "upload"} \subseteq Name /\ Transfer \subseteq Name
        /\ {"queue", "busy", "doomed"} \subseteq Kind /\ {"check", "rename", "upload"} \subseteq Pipe
    BY DEF Name, Kind, Pipe
  <1>2. ASSUME NEW p \in {"check", "rename"}, Queued(p, g)
        PROVE  /\ ~Nowhere(g) /\ ~Uncalled(g) /\ g \notin renameCheck /\ ~Queued("upload", g)
               /\ \A t \in Transfer : ~Handled(t, g)
    <2>1. At("queue", p, g)
      BY <1>1, <1>2 DEF At
    <2>2. QED
      BY <1>1, <1>2, <2>1, Elsewhere
  <1>3. ASSUME Doomed(g)
        PROVE  /\ ~Nowhere(g) /\ ~Uncalled(g) /\ g \notin renameCheck /\ ~Queued("upload", g)
               /\ \A t \in Transfer : ~Handled(t, g)
    <2>1. At("doomed", "", g)
      BY <1>3 DEF At
    <2>2. QED
      BY <1>1, <1>3, <2>1, Elsewhere
  <1>4. ASSUME NEW t \in Transfer, Handled(t, g)
        PROVE  /\ ~Nowhere(g) /\ ~Uncalled(g) /\ g \notin renameCheck /\ ~Queued("upload", g)
               /\ \A u \in Transfer : Handled(u, g) => u = t
    <2>1. At("busy", t, g)
      BY <1>4 DEF At
    <2>2. QED
      BY <1>1, <1>4, <2>1, Elsewhere
  <1>5. CASE \E p \in {"check", "rename"} : \E pair \in queue[p] : pair.file = g
    BY <1>2, <1>5 DEF Queued
  <1>6. CASE g \in dstFiles \/ g \in dels
    BY <1>3, <1>6 DEF Doomed
  <1>7. CASE \E t \in Transfer, pair \in Pair :
               pair.file = g /\ busy[t] = {pair} /\ (busy'[t] = {} \/ TransferCopied(t, pair))
    <2>1. PICK t \in Transfer, pair \in Pair :
            pair.file = g /\ busy[t] = {pair} /\ (busy'[t] = {} \/ TransferCopied(t, pair))
      BY <1>7
    <2>2. Handled(t, g)
      BY <2>1 DEF Handled
    <2>3. QED
      BY <1>4, <2>1, <2>2 DEF Continues
  <1>8. QED
    BY <1>5, <1>6, <1>7, NextTouched

-----------------------------------------------------------------------------
(* What the march and the checkers find at the destination *)

\* A file to delete is listed once.
Apart == dels \cap dstFiles = {}

\* A pass that only deletes gives the goroutines nothing to do.
OnlyDeletes ==
  mode = "only" => (\A p \in Pipe : queue[p] = {}) /\ \A t \in Transfer : busy[t] = {}

\* What is to be checked or deleted is there.
Present == \A f \in File : Queued("check", f) \/ Doomed(f) => dst[f] # Absent

\* A file has not been replaced.
Original(f) == dst[f] \in {dst0[f], Absent}

\* What is yet to be compared is as it was, or has been deleted.
Originals ==
  /\ mode = "only" => \A f \in File : Original(f)
  /\ \A f \in File : Uncalled(f) \/ Queued("check", f) => Original(f)

\* A pair that is taken from the first pipes and not passed on is gone.
LEMMA TakenGone ==
  ASSUME TPipes, OnePlace, OnePair, UNCHANGED <<job, todo, renameCheck, busy>>, \A f \in File : Doomed(f)' => Doomed(f),
         NEW p \in {"check", "rename"}, NEW pair \in Pair, pair \in queue[p], Taken(p, pair)
  PROVE  Nowhere(pair.file)'
  <1>1. pair.file \in File /\ p \in Pipe /\ "upload" \in Pipe /\ p # "upload" /\ "queue" \in Kind /\ p \in Name
    BY DEF Pair, Pipe, Kind, Name
  <1>2. \A l \in Kind, m \in Name : At(l, m, pair.file)' => l = "queue" /\ m = "upload"
    BY TakenPlaces DEF Goes
  <1>3. At("queue", p, pair.file)
    BY <1>1 DEF At, Queued
  <1>4. ~Queued("upload", pair.file)
    BY <1>1, <1>3, Elsewhere
  <1>5. ~Queued("upload", pair.file)'
    BY <1>1, <1>4, TakenQueues
  <1>6. ~At("queue", "upload", pair.file)'
    BY <1>5 DEF At
  <1>7. QED
    BY <1>2, <1>6 DEF Nowhere

\* A pair that a transfer is done with is gone.
LEMMA TransferredGone ==
  ASSUME Types, OnePlace, OnePair, NEW t \in Transfer, NEW pair \in Pair, busy[t] = {pair},
         TransferOK(t, pair) \/ TransferFailed(t, pair) \/ TransferLimit(t, pair)
  PROVE  Nowhere(pair.file)'
  <1>1. /\ busy \in [Transfer -> {{}} \cup {{x} : x \in Pair}] /\ pair.file \in File
        /\ "busy" \in Kind /\ t \in Name
    BY DEF Types, TWorks, Pair, Kind, Name
  <1>2. UNCHANGED <<job, todo, renameCheck, dels, dstFiles, queue>> /\ busy' = [busy EXCEPT ![t] = {}]
    BY DEF TransferOK, TransferFailed, TransferLimit, Transferred, march, pipes, renames, deletes
  <1>3. busy'[t] = {} /\ \A u \in Transfer : busy'[u] \subseteq busy[u]
    BY <1>1, <1>2
  <1>4. At("busy", t, pair.file)
    BY DEF At, Handled
  <1>5. /\ ~Uncalled(pair.file) /\ pair.file \notin renameCheck /\ ~Doomed(pair.file)
        /\ \A p \in Pipe : ~Queued(p, pair.file)
        /\ \A u \in Transfer \ {t} : ~Handled(u, pair.file)
    BY <1>1, <1>4, Elsewhere
  <1>6. /\ ~Uncalled(pair.file)' /\ pair.file \notin renameCheck' /\ ~Doomed(pair.file)'
        /\ \A p \in Pipe : ~Queued(p, pair.file)'
    BY <1>1, <1>2, <1>5, Same
  <1>7. \A u \in Transfer : ~Handled(u, pair.file)'
    BY <1>3, <1>5 DEF Handled
  <1>8. QED
    BY <1>6, <1>7 DEF Nowhere, At

\* A file is not in both lists.
LEMMA NextApart ==
  ASSUME Types, Modes, Stages, Apart, [Next]_vars
  PROVE  Apart'
  <1>1. TPipes
    BY DEF Types
  <1>2. CASE dels' \subseteq dels /\ dstFiles' \subseteq dstFiles
    BY <1>2 DEF Apart
  <1>3. ASSUME NEW d \in Dir, Marching(d)
        PROVE  Apart'
    <2>1. job[d] # "done"
      BY <1>3 DEF Marching, List, JobDone, JobAborted, JobDropped, SrcOnly, Match, DstOnly, Called
    <2>2. main = "march"
      BY <2>1 DEF Stages, Manned
    <2>3. \/ UNCHANGED <<dels, dstFiles>>
          \/ mode = "after" /\ dels' = dels
          \/ mode # "after" /\ dstFiles' = dstFiles
      BY <1>3 DEF Marching, List, JobDone, JobAborted, JobDropped, SrcOnly, Match, DstOnly, deletes
    <2>4. QED
      BY <1>2, <2>2, <2>3 DEF Modes, Apart
  <1>4. CASE Main
    <2>1. ASSUME NEW f \in File, Pump(f)
          PROVE  Apart'
      BY <2>1 DEF Pump, Apart
    <2>2. CASE \A f \in File : ~Pump(f)
      <3>1. dels' \subseteq dels /\ dstFiles' \subseteq dstFiles
        BY <1>4, <2>2 DEF Main, Marched, MakeRenameMap, RenamesSent, Checked, Renamed, TransfersDone,
             DeletersDone, PumpEnds, AfterDone, Return, SecondPass, OfferRename, deletes
      <3>2. QED
        BY <1>2, <3>1
    <2>3. QED
      BY <2>1, <2>2
  <1>5. ASSUME NEW r \in Renamer, Renaming(r)
        PROVE  dels' \subseteq dels /\ dstFiles' \subseteq dstFiles
    BY <1>5 DEF Renaming, Exit, Rename, deletes
  <1>6. CASE Deleting
    <2>1. dels' \subseteq dels /\ dstFiles' \subseteq dstFiles
      BY <1>6 DEF Deleting, DeletersReturn, DeleteOne
    <2>2. QED
      BY <1>2, <2>1
  <1>7. QED
    <2>1. CASE \/ \E c \in Checker : Checking(c)
               \/ \E t \in Transfer : Transferring(t)
               \/ \E w \in Producer : Putting(w)
               \/ Deadline \/ Cancel \/ UNCHANGED vars
      BY <1>2, <2>1, FootChecking, FootTransferring, FootPutting, FootLimits DEF vars, deletes
    <2>2. QED
      BY <1>1, <1>2, <1>3, <1>4, <1>5, <1>6, <2>1, Actors

\* A pass that only deletes puts nothing into a pipe.
LEMMA NextOnlyDeletes ==
  ASSUME Types, Modes, OnlyDeletes, [Next]_vars
  PROVE  OnlyDeletes'
  <1>1. TPipes /\ TFirst /\ {"check", "rename", "upload"} \subseteq Pipe
    BY DEF Types, Pipe
  <1>2. SUFFICES ASSUME mode' = "only"
                 PROVE  (\A p \in Pipe : queue'[p] = {}) /\ \A t \in Transfer : busy'[t] = {}
    BY DEF OnlyDeletes
  <1>3. ~SecondPass
    BY <1>2 DEF SecondPass
  <1>4. mode = "only"
    <2>1. CASE Main
      BY <1>2, <1>3, <2>1, FootMainFirst
    <2>2. CASE ~Main
      BY <1>1, <1>2, <2>2, Actors, FootMarching, FootChecking, FootRenaming, FootTransferring, FootPutting,
         FootDeleting, FootLimits DEF vars, stage
    <2>3. QED
      BY <2>1, <2>2
  <1>5. renameCheck = {} /\ (\A p \in Pipe : queue[p] = {}) /\ \A t \in Transfer : busy[t] = {}
    BY <1>1, <1>4, OptionFacts DEF Modes, OnlyDeletes
  <1>6. CASE UNCHANGED <<queue, busy>>
    BY <1>5, <1>6
  <1>7. ASSUME NEW d \in Dir, Marching(d)
        PROVE  UNCHANGED <<queue, busy>>
    BY <1>4, <1>7 DEF Marching, List, JobDone, JobAborted, JobDropped, SrcOnly, Match, DstOnly, Called, pipes, works
  <1>8. ASSUME NEW c \in Checker, Checking(c)
        PROVE  UNCHANGED <<queue, busy>>
    BY <1>1, <1>5, <1>8 DEF Checking, Exit, Check, Get, pipes
  <1>9. ASSUME NEW r \in Renamer, Renaming(r)
        PROVE  UNCHANGED <<queue, busy>>
    BY <1>1, <1>5, <1>9 DEF Renaming, Exit, Rename, Get, pipes
  <1>10. ASSUME NEW t \in Transfer, Transferring(t)
         PROVE  UNCHANGED <<queue, busy>>
    BY <1>1, <1>5, <1>10 DEF Transferring, Exit, TransferStart, TransferCopied, TransferOK, TransferFailed, TransferLimit, Get, pipes
  <1>11. CASE Main
    <2>1. \A f \in File : ~OfferRename(f)
      BY <1>5 DEF OfferRename
    <2>2. UNCHANGED <<queue, busy>>
      BY <1>3, <1>11, <2>1 DEF Main, Marched, MakeRenameMap, RenamesSent, Checked, Renamed, TransfersDone,
           DeletersDone, PumpEnds, AfterDone, Return, Pump, pipes, works
    <2>3. QED
      BY <1>6, <2>2
  <1>12. QED
    <2>1. CASE \/ \E w \in Producer : Putting(w)
               \/ Deleting \/ Deadline \/ Cancel \/ UNCHANGED vars
      BY <1>6, <2>1, FootPutting, FootDeleting, FootLimits DEF vars, pipes, works
    <2>2. QED
      BY <1>1, <1>6, <1>7, <1>8, <1>9, <1>10, <1>11, <2>1, Actors

\* A file that is touched is in the pipe of the transfers afterwards, with a
\* transfer that has copied it, or nowhere.
LEMMA TouchedGoes ==
  ASSUME PInv, Apart, [Next]_vars, NEW g \in File, Touched(g)
  PROVE  Goes(g, "queue", "upload") \/ \E t \in Transfer : Goes(g, "busy", t)
  <1>1. /\ Types /\ Modes /\ Stages /\ OnePlace /\ OnePair /\ TPipes
        /\ "" \in Name /\ "upload" \in Name /\ "doomed" \in Kind /\ "queue" \in Kind
    BY DEF PInv, Types, Name, Kind, Pipe
  <1>2. ~Nowhere(g)
    BY <1>1, TouchedPlace
  <1>3. ASSUME NEW c \in Checker, NEW pair \in Pair, pair.file = g, Check(c, pair), pair \in queue["check"]
        PROVE  Goes(g, "queue", "upload")
    <2>1. UNCHANGED <<job, todo, renameCheck, busy, dels, dstFiles>>
      BY <1>3 DEF Check, march, renames, works, deletes
    <2>2. \/ Taken("check", pair)
          \/ \E new \in Pair : PassedOn(c, "check", pair, "upload", new) /\ new.file = pair.file
      <3>1. \A to \in {"nil", "dst", "src"} :
              [file |-> pair.file, to |-> to] \in Pair /\ [file |-> pair.file, to |-> to].file = pair.file
        BY DEF Pair
      <3>2. QED
        BY <1>3, <3>1 DEF Check
    <2>3. \A f \in File : Doomed(f)' => Doomed(f)
      BY <2>1, Same
    <2>4. QED
      BY <1>1, <1>3, <2>1, <2>2, <2>3, TakenPlaces, Distinct
  <1>4. ASSUME NEW r \in Renamer, NEW pair \in Pair, Rename(r, pair)
        PROVE  /\ UNCHANGED <<job, todo, renameCheck, busy, dels>> /\ dstFiles' \subseteq dstFiles
               /\ Taken("rename", pair) \/ PassedOn(r, "rename", pair, "upload", pair)
               /\ pair \in queue["rename"]
    BY <1>4 DEF Rename, Get, march, works
  <1>5. ASSUME NEW r \in Renamer, NEW pair \in Pair, pair.file = g, Rename(r, pair), pair \in queue["rename"]
        PROVE  Goes(g, "queue", "upload")
    <2>1. \A f \in File : Doomed(f)' => Doomed(f)
      BY <1>4, <1>5 DEF Doomed
    <2>2. QED
      BY <1>1, <1>4, <1>5, <2>1, TakenPlaces, Distinct
  <1>6. ASSUME Doomed(g), g \notin dels', g \notin dstFiles', UNCHANGED <<job, todo, renameCheck, busy>>,
               \A p \in Pipe : Queued(p, g)' => Queued(p, g) \/ p = "upload"
        PROVE  Goes(g, "queue", "upload")
    <2>1. At("doomed", "", g)
      BY <1>6 DEF At
    <2>2. /\ ~Uncalled(g) /\ g \notin renameCheck
          /\ \A p \in Pipe : ~Queued(p, g)
          /\ \A t \in Transfer : ~Handled(t, g)
      BY <1>1, <2>1, Elsewhere
    <2>3. ~Uncalled(g)' /\ \A t \in Transfer : ~Handled(t, g)'
      BY <1>6, <2>2, Same
    <2>4. ~Doomed(g)'
      BY <1>6 DEF Doomed
    <2>5. QED
      BY <1>1, <1>2, <1>6, <2>2, <2>3, <2>4, Going
  <1>7. ASSUME NEW r \in Renamer, NEW pair \in Pair, Rename(r, pair), g \in dstFiles, g \notin dstFiles'
        PROVE  Goes(g, "queue", "upload")
    <2>1. Doomed(g) /\ g \notin dels'
      BY <1>4, <1>7 DEF Doomed, Apart
    <2>2. \A p \in Pipe : Queued(p, g)' => Queued(p, g) \/ p = "upload"
      <3>1. "rename" \in Pipe
        BY DEF Pipe
      <3>2. QED
        BY <1>1, <1>4, <1>7, <3>1, TakenQueues, PassedQueues
    <2>3. QED
      BY <1>4, <1>6, <1>7, <2>1, <2>2
  <1>8. ASSUME NEW t \in Transfer, NEW pair \in Pair, pair.file = g, busy[t] = {pair},
               TransferOK(t, pair) \/ TransferFailed(t, pair) \/ TransferLimit(t, pair)
        PROVE  Goes(g, "queue", "upload")
    BY <1>1, <1>2, <1>8, TransferredGone DEF Nowhere, Goes
  <1>9. ASSUME DeleteOne(g), g \in dels
        PROVE  Goes(g, "queue", "upload")
    <2>1. /\ UNCHANGED <<job, todo, renameCheck, busy, queue, dstFiles>> /\ dels' = dels \ {g}
      BY <1>9 DEF DeleteOne, march, renames, works, pipes
    <2>2. g \notin dstFiles' /\ g \notin dels' /\ Doomed(g)
      BY <1>9, <2>1 DEF Apart, Doomed
    <2>3. QED
      BY <1>6, <2>1, <2>2, Same
  <1>10. ASSUME NEW t \in Transfer, NEW pair \in Pair, pair.file = g, busy[t] = {pair}, TransferCopied(t, pair)
         PROVE  Goes(g, "busy", t)
    <2>1. /\ UNCHANGED <<job, todo, renameCheck, dels, dstFiles, queue>>
          /\ busy' = [busy EXCEPT ![t] = {[file |-> pair.file, to |-> "src"]}]
      BY <1>10 DEF TransferCopied, march, renames, deletes, pipes
    <2>2. At("busy", t, g) /\ "busy" \in Kind /\ t \in Name
      BY <1>10 DEF At, Handled, Kind, Name
    <2>3. /\ ~Uncalled(g) /\ g \notin renameCheck /\ ~Doomed(g)
          /\ \A p \in Pipe : ~Queued(p, g)
          /\ \A u \in Transfer \ {t} : ~Handled(u, g)
      BY <1>1, <2>2, Elsewhere
    <2>4. \A u \in Transfer \ {t} : busy'[u] = busy[u]
      BY <1>1, <2>1 DEF Types, TWorks
    <2>5. /\ ~Uncalled(g)' /\ g \notin renameCheck' /\ ~Doomed(g)'
          /\ \A p \in Pipe : ~Queued(p, g)'
          /\ \A u \in Transfer \ {t} : ~Handled(u, g)'
      BY <2>1, <2>3, <2>4 DEF Uncalled, Doomed, Queued, Handled
    <2>6. QED
      BY <1>2, <2>2, <2>5, Going
  <1>11. QED
    BY <1>1, <1>3, <1>5, <1>7, <1>8, <1>9, <1>10, NextTouched

\* Where a pair or a name comes from.
LEMMA NewPlaces ==
  ASSUME Types, [Next]_vars, ~SecondPass
  PROVE  /\ \A f \in File : Uncalled(f)' => Uncalled(f)
         /\ \A f \in renameCheck' : f \in renameCheck \/ \E d \in Dir : SrcOnly(d, f)
         /\ \A f \in File : Doomed(f)' => Doomed(f) \/ \E d \in Dir : DstOnly(d, f)
         /\ \A x \in queue'["check"] : x \in queue["check"] \/ \E d \in Dir : Match(d, x.file)
         /\ \A x \in queue'["rename"] : x \in queue["rename"] \/ OfferRename(x.file)
         /\ \A x \in queue'["upload"] :
              \/ x \in queue["upload"] \/ \E d \in Dir : SrcOnly(d, x.file)
              \/ \E c \in Checker, pair \in queue["check"] :
                   /\ Check(c, pair) /\ pair.file = x.file
                   /\ x.to = "src" \/ ~BackupDir \/ backup' = [backup EXCEPT ![x.file] = dst[x.file]]
              \/ x \in queue["rename"] /\ backup' = backup
         /\ \A t \in Transfer : \A x \in busy'[t] :
              x \in busy[t] \/ x \in queue["upload"] \/ (x.to = "src" /\ \E y \in busy[t] : x.file = y.file)
  <1>1. /\ TPipes /\ queue \in [Pipe -> SUBSET Pair] /\ Pipe = {"check", "rename", "upload"}
        /\ busy \in [Transfer -> {{}} \cup {{pair} : pair \in Pair}]
        /\ job \in [Dir -> {"waiting", "matching", "done"}] /\ todo \in [Dir -> SUBSET File] /\ DirOf \in [File -> Dir]
    BY SyncAssumption DEF Types, TPipes, TWorks, TMarch, Pipe
  <1>2. \A f \in File : Uncalled(f)' => Uncalled(f)
    <2>1. ASSUME NEW d \in Dir, Marching(d)
          PROVE  \A f \in File : Uncalled(f)' => Uncalled(f)
      <3>1. CASE List(d)
        <4>1. job[d] = "waiting" /\ job' = [job EXCEPT ![d] = "matching"] /\ \A e \in Dir \ {d} : todo'[e] = todo[e]
          BY <1>1, <3>1 DEF List
        <4>2. QED
          BY <1>1, <4>1 DEF Uncalled
      <3>2. CASE ~List(d)
        <4>1. /\ job' = job \/ job' = [job EXCEPT ![d] = "done"]
              /\ todo' = todo \/ \E f \in File : todo' = [todo EXCEPT ![d] = @ \ {f}]
          BY <2>1, <3>2 DEF Marching, JobDone, JobAborted, JobDropped, SrcOnly, Match, DstOnly, Called
        <4>2. \A e \in Dir : (job'[e] = "waiting" => job[e] = "waiting") /\ todo'[e] \subseteq todo[e]
          BY <1>1, <4>1
        <4>3. QED
          BY <1>1, <4>2 DEF Uncalled
      <3>3. QED
        BY <3>1, <3>2
    <2>2. CASE Main
      BY <2>2, FootMainFirst, Same DEF march
    <2>3. CASE \/ \E c \in Checker : Checking(c)
               \/ \E r \in Renamer : Renaming(r)
               \/ \E t \in Transfer : Transferring(t)
               \/ \E w \in Producer : Putting(w)
               \/ Deleting \/ Deadline \/ Cancel \/ UNCHANGED vars
      BY <2>3, FootChecking, FootRenaming, FootTransferring, FootPutting, FootDeleting, FootLimits, Same DEF vars, march
    <2>4. QED
      BY <1>1, <2>1, <2>2, <2>3, Actors
  <1>3. ASSUME NEW d \in Dir, Marching(d)
        PROVE  /\ \A f \in renameCheck' : f \in renameCheck \/ SrcOnly(d, f)
               /\ \A f \in File : Doomed(f)' => Doomed(f) \/ DstOnly(d, f)
               /\ \A x \in queue'["check"] : x \in queue["check"] \/ Match(d, x.file)
               /\ queue'["rename"] = queue["rename"]
               /\ \A x \in queue'["upload"] : x \in queue["upload"] \/ SrcOnly(d, x.file)
               /\ busy' = busy
    <2>1. busy' = busy
      BY <1>3, FootMarching DEF works
    <2>2. CASE List(d) \/ JobDone(d) \/ JobAborted(d) \/ JobDropped(d)
      <3>1. UNCHANGED <<renameCheck, dels, dstFiles, queue>>
        BY <2>2 DEF List, JobDone, JobAborted, JobDropped, renames, deletes, pipes
      <3>2. QED
        BY <2>1, <3>1, Same
    <2>3. ASSUME NEW f \in File, SrcOnly(d, f)
          PROVE  /\ UNCHANGED <<dels, dstFiles>> /\ renameCheck' \subseteq renameCheck \cup {f}
                 /\ queue' = queue \/ queue' = [queue EXCEPT !["upload"] = @ \cup {[file |-> f, to |-> "nil"]}]
      BY <2>3 DEF SrcOnly, Offer, Put, pipes
    <2>4. ASSUME NEW f \in File, Match(d, f)
          PROVE  /\ UNCHANGED <<dels, dstFiles, renameCheck>>
                 /\ queue' = queue \/ queue' = [queue EXCEPT !["check"] = @ \cup {[file |-> f, to |-> "dst"]}]
      BY <2>4 DEF Match, Offer, Put, pipes
    <2>5. ASSUME NEW f \in File, DstOnly(d, f)
          PROVE  UNCHANGED <<queue, renameCheck>> /\ dels' \cup dstFiles' \subseteq dels \cup dstFiles \cup {f}
      BY <2>5 DEF DstOnly, pipes
    <2>6. CASE \E f \in File : SrcOnly(d, f)
      <3>1. PICK f \in File : SrcOnly(d, f)
        BY <2>6
      <3>2. /\ queue'["check"] = queue["check"] /\ queue'["rename"] = queue["rename"]
            /\ \A x \in queue'["upload"] : x \in queue["upload"] \/ x.file = f
        BY <1>1, <2>3, <3>1
      <3>3. QED
        BY <2>1, <2>3, <3>1, <3>2, Same
    <2>7. CASE \E f \in File : Match(d, f)
      <3>1. PICK f \in File : Match(d, f)
        BY <2>7
      <3>2. /\ queue'["upload"] = queue["upload"] /\ queue'["rename"] = queue["rename"]
            /\ \A x \in queue'["check"] : x \in queue["check"] \/ x.file = f
        BY <1>1, <2>4, <3>1
      <3>3. QED
        BY <2>1, <2>4, <3>1, <3>2, Same
    <2>8. CASE \E f \in File : DstOnly(d, f)
      <3>1. PICK f \in File : DstOnly(d, f)
        BY <2>8
      <3>2. QED
        BY <2>1, <2>5, <3>1 DEF Doomed
    <2>9. QED
      BY <1>3, <2>2, <2>6, <2>7, <2>8 DEF Marching
  <1>4. ASSUME NEW c \in Checker, Checking(c)
        PROVE  /\ UNCHANGED <<renameCheck, dels, dstFiles, busy>>
               /\ queue'["check"] \subseteq queue["check"] /\ queue'["rename"] = queue["rename"]
               /\ \A x \in queue'["upload"] :
                    \/ x \in queue["upload"]
                    \/ \E pair \in queue["check"] :
                         /\ Check(c, pair) /\ pair.file = x.file
                         /\ x.to = "src" \/ ~BackupDir \/ backup' = [backup EXCEPT ![x.file] = dst[x.file]]
    <2>1. UNCHANGED <<renameCheck, dels, dstFiles, busy>>
      BY <1>4, FootChecking DEF renames, deletes
    <2>2. CASE Exit(c, "check")
      BY <2>1, <2>2 DEF Exit, pipes
    <2>3. ASSUME NEW pair \in Pair, Check(c, pair)
          PROVE  /\ pair \in queue["check"]
                 /\ queue'["check"] \subseteq queue["check"] /\ queue'["rename"] = queue["rename"]
                 /\ \A x \in queue'["upload"] :
                      \/ x \in queue["upload"]
                      \/ /\ pair.file = x.file
                         /\ x.to = "src" \/ ~BackupDir \/ backup' = [backup EXCEPT ![x.file] = dst[x.file]]
      <3>1. pair \in queue["check"]
        BY <2>3 DEF Check, Get
      <3>2. \/ Taken("check", pair)
            \/ \E to \in {"nil", "dst", "src"} :
                 /\ PassedOn(c, "check", pair, "upload", [file |-> pair.file, to |-> to])
                 /\ to = "src" \/ ~BackupDir \/ backup' = [backup EXCEPT ![pair.file] = dst[pair.file]]
        BY <2>3 DEF Check
      <3>3. CASE Taken("check", pair)
        <4>1. queue'["check"] \subseteq queue["check"] /\ queue'["rename"] = queue["rename"] /\ queue'["upload"] = queue["upload"]
          BY <1>1, <3>3 DEF Taken
        <4>2. QED
          BY <3>1, <4>1
      <3>4. ASSUME NEW to \in {"nil", "dst", "src"},
                   PassedOn(c, "check", pair, "upload", [file |-> pair.file, to |-> to]),
                   to = "src" \/ ~BackupDir \/ backup' = [backup EXCEPT ![pair.file] = dst[pair.file]]
            PROVE  /\ queue'["check"] \subseteq queue["check"] /\ queue'["rename"] = queue["rename"]
                   /\ \A x \in queue'["upload"] :
                        \/ x \in queue["upload"]
                        \/ /\ pair.file = x.file
                           /\ x.to = "src" \/ ~BackupDir \/ backup' = [backup EXCEPT ![x.file] = dst[x.file]]
        <4>1. /\ queue'["check"] = queue["check"] \ {pair} /\ queue'["rename"] = queue["rename"]
              /\ queue'["upload"] = queue["upload"] \cup {[file |-> pair.file, to |-> to]}
          BY <1>1, <3>4 DEF PassedOn
        <4>2. QED
          BY <3>4, <4>1
      <3>5. QED
        BY <3>1, <3>2, <3>3, <3>4
    <2>4. QED
      BY <1>4, <2>1, <2>2, <2>3 DEF Checking
  <1>5. ASSUME NEW r \in Renamer, Renaming(r)
        PROVE  /\ UNCHANGED <<renameCheck, dels, backup, busy>> /\ dstFiles' \subseteq dstFiles
               /\ queue'["check"] = queue["check"] /\ queue'["rename"] \subseteq queue["rename"]
               /\ queue'["upload"] \subseteq queue["upload"] \cup queue["rename"]
    <2>1. UNCHANGED <<renameCheck, dels, backup, busy>>
      BY <1>5, FootRenaming
    <2>2. dstFiles' \subseteq dstFiles
      BY <1>5 DEF Renaming, Exit, Rename, deletes
    <2>3. \/ queue' = queue
          \/ \E pair \in Pair :
               pair \in queue["rename"] /\ (Taken("rename", pair) \/ PassedOn(r, "rename", pair, "upload", pair))
      BY <1>5, RenamingPipes
    <2>4. /\ queue'["check"] = queue["check"] /\ queue'["rename"] \subseteq queue["rename"]
          /\ queue'["upload"] \subseteq queue["upload"] \cup queue["rename"]
      BY <1>1, <2>3 DEF Taken, PassedOn
    <2>5. QED
      BY <2>1, <2>2, <2>4
  <1>6. ASSUME NEW t \in Transfer, Transferring(t)
        PROVE  /\ UNCHANGED <<renameCheck, dels, dstFiles>>
               /\ queue'["check"] = queue["check"] /\ queue'["rename"] = queue["rename"]
               /\ queue'["upload"] \subseteq queue["upload"]
               /\ \A u \in Transfer : \A x \in busy'[u] :
                    x \in busy[u] \/ x \in queue["upload"] \/ (x.to = "src" /\ \E y \in busy[u] : x.file = y.file)
    <2>1. UNCHANGED <<renameCheck, dels, dstFiles>>
      BY <1>6, FootTransferring DEF renames, deletes
    <2>2. \/ queue' = queue /\ (busy' = busy \/ busy' = [busy EXCEPT ![t] = {}])
          \/ /\ queue' = queue
             /\ \E y \in busy[t] : busy' = [busy EXCEPT ![t] = {[file |-> y.file, to |-> "src"]}]
          \/ \E pair \in queue["upload"] : Taken("upload", pair) /\ busy' = [busy EXCEPT ![t] = {pair}]
      BY <1>6 DEF Transferring, Exit, TransferStart, TransferCopied, TransferOK, TransferFailed, TransferLimit, Transferred, Get, pipes
    <2>3. /\ queue'["check"] = queue["check"] /\ queue'["rename"] = queue["rename"]
          /\ queue'["upload"] \subseteq queue["upload"]
      BY <1>1, <2>2 DEF Taken
    <2>4. \A u \in Transfer : \A x \in busy'[u] :
            x \in busy[u] \/ x \in queue["upload"] \/ (x.to = "src" /\ \E y \in busy[u] : x.file = y.file)
      BY <1>1, <2>2
    <2>5. QED
      BY <2>1, <2>3, <2>4
  <1>7. ASSUME Main
        PROVE  /\ renameCheck' \subseteq renameCheck /\ dels' \cup dstFiles' \subseteq dels \cup dstFiles /\ busy' = busy
               /\ queue'["check"] = queue["check"] /\ queue'["upload"] = queue["upload"]
               /\ \A x \in queue'["rename"] : x \in queue["rename"] \/ OfferRename(x.file)
    <2>1. busy' = busy
      BY <1>7, FootMainFirst
    <2>2. renameCheck' \subseteq renameCheck /\ dels' \cup dstFiles' \subseteq dels \cup dstFiles
      BY <1>7 DEF Main, Marched, MakeRenameMap, RenamesSent, Checked, Renamed, TransfersDone,
           DeletersDone, PumpEnds, AfterDone, Return, Pump, OfferRename, renames, deletes
    <2>3. \/ queue' = queue
          \/ \E f \in File : OfferRename(f) /\ queue' = [queue EXCEPT !["rename"] = @ \cup {[file |-> f, to |-> "nil"]}]
      BY <1>7 DEF Main, Marched, MakeRenameMap, RenamesSent, Checked, Renamed, TransfersDone,
           DeletersDone, PumpEnds, AfterDone, Return, Pump, OfferRename, Put, pipes
    <2>4. CASE queue' = queue
      BY <2>1, <2>2, <2>4
    <2>5. ASSUME NEW f \in File, OfferRename(f), queue' = [queue EXCEPT !["rename"] = @ \cup {[file |-> f, to |-> "nil"]}]
          PROVE  /\ queue'["check"] = queue["check"] /\ queue'["upload"] = queue["upload"]
                 /\ \A x \in queue'["rename"] : x \in queue["rename"] \/ OfferRename(x.file)
      <3>1. /\ queue'["check"] = queue["check"] /\ queue'["upload"] = queue["upload"]
            /\ queue'["rename"] = queue["rename"] \cup {[file |-> f, to |-> "nil"]}
        BY <1>1, <2>5
      <3>2. [file |-> f, to |-> "nil"].file = f
        OBVIOUS
      <3>3. QED
        BY <2>5, <3>1, <3>2
    <2>6. QED
      BY <2>1, <2>2, <2>3, <2>4, <2>5
  <1>8. ASSUME \/ \E w \in Producer : Putting(w)
               \/ Deleting \/ Deadline \/ Cancel \/ UNCHANGED vars
        PROVE  UNCHANGED <<renameCheck, queue, busy, dstFiles>> /\ dels' \subseteq dels
    <2>1. CASE \/ \E w \in Producer : Putting(w)
               \/ Deadline \/ Cancel \/ UNCHANGED vars
      BY <2>1, FootPutting, FootLimits DEF vars, renames, pipes, works, deletes
    <2>2. CASE Deleting
      BY <2>2, FootDeleting DEF Deleting, DeletersReturn, DeleteOne, renames, pipes, works
    <2>3. QED
      BY <1>8, <2>1, <2>2
  <1>9. CASE \E d \in Dir : Marching(d)
    BY <1>2, <1>3, <1>9
  <1>10. CASE \E c \in Checker : Checking(c)
    BY <1>2, <1>4, <1>10, Same
  <1>11. CASE \E r \in Renamer : Renaming(r)
    BY <1>2, <1>5, <1>11 DEF Doomed
  <1>12. CASE \E t \in Transfer : Transferring(t)
    BY <1>2, <1>6, <1>12, Same
  <1>13. CASE Main
    BY <1>2, <1>7, <1>13 DEF Doomed
  <1>14. CASE \/ \E w \in Producer : Putting(w)
              \/ Deleting \/ Deadline \/ Cancel \/ UNCHANGED vars
    BY <1>2, <1>8, <1>14 DEF Doomed
  <1>15. QED
    BY <1>1, <1>9, <1>10, <1>11, <1>12, <1>13, <1>14, Actors

\* A file that is called back for is with the march.
LEMMA CalledPlace ==
  ASSUME Types, Modes, Stages, OnePlace, OnePair, [Next]_vars, NEW f \in File, NEW d \in Dir,
         SrcOnly(d, f) \/ Match(d, f) \/ DstOnly(d, f)
  PROVE  Uncalled(f) /\ ~Touched(f)
  <1>1. Called(d, f)
    BY DEF SrcOnly, Match, DstOnly
  <1>2. f \in todo[d] /\ DirOf[f] = d
    BY <1>1 DEF Called, OnePair
  <1>3. Uncalled(f)
    BY <1>2 DEF Uncalled
  <1>4. QED
    BY <1>3, TouchedPlace

\* What is touched is no longer to be checked, renamed or deleted.
LEMMA TouchedNot ==
  ASSUME PInv, Apart, [Next]_vars, NEW f \in File, Touched(f)
  PROVE  /\ ~Uncalled(f)' /\ f \notin renameCheck' /\ ~Doomed(f)'
         /\ ~Queued("check", f)' /\ ~Queued("rename", f)'
  <1>1. \A l \in Kind, m \in Name : At(l, m, f)' => (l = "queue" /\ m = "upload") \/ l = "busy"
    BY TouchedGoes DEF Goes
  <1>2. /\ {"uncalled", "renames", "doomed", "queue"} \subseteq Kind /\ {"", "check", "rename"} \subseteq Name
        /\ {"check", "rename"} \subseteq Pipe
    BY DEF Kind, Name, Pipe
  <1>3. ~At("uncalled", "", f)' /\ ~At("renames", "", f)' /\ ~At("doomed", "", f)'
    BY <1>1, <1>2
  <1>4. ~At("queue", "check", f)' /\ ~At("queue", "rename", f)'
    BY <1>1, <1>2
  <1>5. ~Uncalled(f)'
    BY <1>3 DEF At
  <1>6. f \notin renameCheck' /\ ~Doomed(f)'
    BY <1>3 DEF At
  <1>7. ~Queued("check", f)' /\ ~Queued("rename", f)'
    BY <1>2, <1>4 DEF At
  <1>8. QED
    BY <1>5, <1>6, <1>7

\* What is to be checked or deleted stays there.
LEMMA NextPresent ==
  ASSUME PInv, Apart, OnlyDeletes, Present, [Next]_vars
  PROVE  Present'
  <1>1. Types /\ Modes /\ Stages /\ OnePlace /\ OnePair /\ TPipes /\ TFirst
    BY DEF PInv, Types
  <1>2. SUFFICES ASSUME NEW f \in File, Queued("check", f)' \/ Doomed(f)'
                 PROVE  dst'[f] # Absent
    BY DEF Present
  <1>3. ~Touched(f)
    BY <1>2, TouchedNot
  <1>4. CASE SecondPass
    <2>1. queue'["check"] = {} /\ dels' = {} /\ dstFiles' = dstFiles /\ mode = "only"
      BY <1>1, <1>4 DEF SecondPass, Pipe, Modes
    <2>2. dstFiles = {}
      BY <2>1 DEF PInv, Modes
    <2>3. QED
      BY <1>2, <2>1, <2>2 DEF Queued, Doomed
  <1>5. CASE ~SecondPass
    <2>1. CASE Queued("check", f) \/ Doomed(f)
      BY <1>3, <2>1 DEF Touched, Present
    <2>2. CASE \E d \in Dir : Match(d, f) \/ DstOnly(d, f)
      BY <1>3, <2>2 DEF Match, DstOnly, InDst, Touched
    <2>3. Queued("check", f)' => Queued("check", f) \/ \E d \in Dir : Match(d, f)
      BY <1>1, <1>5, NewPlaces DEF Queued
    <2>4. QED
      BY <1>1, <1>2, <1>5, <2>1, <2>2, <2>3, NewPlaces
  <1>6. QED
    BY <1>4, <1>5

\* Nobody replaces a file before it has been compared.
LEMMA NextOriginals ==
  ASSUME PInv, Apart, OnlyDeletes, Originals, [Next]_vars
  PROVE  Originals'
  <1>1. /\ Types /\ Modes /\ Stages /\ OnePlace /\ OnePair /\ TPipes /\ TFirst
        /\ dst \in [File -> Content \cup {Absent}] /\ {"check", "rename", "upload"} \subseteq Pipe
    BY DEF PInv, Types, TTrees, Tree, Pipe
  <1>2. dst0' = dst0
    BY <1>1, SameFirst
  <1>3. ASSUME NEW f \in File, ~Touched(f), Original(f)
        PROVE  Original(f)'
    BY <1>2, <1>3 DEF Original, Touched
  <1>4. CASE SecondPass
    <2>1. mode = "only" /\ mode' = "off" /\ dst' = dst
      BY <1>1, <1>4 DEF SecondPass, Modes, trees
    <2>2. QED
      BY <1>2, <2>1 DEF Originals, Original
  <1>5. CASE ~SecondPass
    <2>1. ASSUME mode' = "only", NEW f \in File
          PROVE  Original(f)'
      <3>1. mode = "only"
        <4>1. CASE Main
          BY <1>5, <2>1, <4>1, FootMainFirst
        <4>2. CASE ~Main
          BY <1>1, <2>1, <4>2, Actors, FootMarching, FootChecking, FootRenaming, FootTransferring, FootPutting,
             FootDeleting, FootLimits DEF vars, stage
        <4>3. QED
          BY <4>1, <4>2
      <3>2. Original(f) /\ (\A p \in Pipe : queue[p] = {}) /\ (\A t \in Transfer : busy[t] = {})
        BY <3>1 DEF Originals, OnlyDeletes
      <3>3. \A r \in Renamer, pair \in Pair : Rename(r, pair) => pair \in queue["rename"]
        BY DEF Rename, Get
      <3>4. Touched(f) => DeleteOne(f)
        BY <1>1, <3>2, <3>3, NextTouched
      <3>5. DeleteOne(f) => dst'[f] \in {dst[f], Absent}
        BY <1>1 DEF DeleteOne
      <3>6. QED
        BY <1>2, <1>3, <3>2, <3>4, <3>5 DEF Original
    <2>2. ASSUME NEW f \in File, Uncalled(f)' \/ Queued("check", f)'
          PROVE  Original(f)'
      <3>1. ~Touched(f)
        BY <2>2, TouchedNot
      <3>2. Queued("check", f)' => Queued("check", f) \/ \E d \in Dir : Match(d, f)
        BY <1>1, <1>5, NewPlaces DEF Queued
      <3>3. Uncalled(f) \/ Queued("check", f)
        BY <1>1, <1>5, <2>2, <3>2, NewPlaces, CalledPlace
      <3>4. QED
        BY <1>3, <3>1, <3>3 DEF Originals
    <2>3. QED
      BY <2>1, <2>2 DEF Originals
  <1>6. QED
    BY <1>4, <1>5

\* The invariant of what is found.
QInv == PInv /\ Apart /\ OnlyDeletes /\ Present /\ Originals

\* It holds at the start.
LEMMA InitQInv ==
  ASSUME Init
  PROVE  QInv
  <1>1. PInv
    BY InitPInv
  <1>2. /\ (\A p \in Pipe : queue[p] = {}) /\ (\A t \in Transfer : busy[t] = {})
        /\ dels = {} /\ dstFiles = {} /\ dst = dst0
    BY DEF Init
  <1>3. Apart /\ OnlyDeletes
    BY <1>2 DEF Apart, OnlyDeletes
  <1>4. Present
    BY <1>2 DEF Present, Queued, Doomed, Pipe
  <1>5. Originals
    BY <1>2 DEF Originals, Original
  <1>6. QED
    BY <1>1, <1>3, <1>4, <1>5 DEF QInv

\* Every step keeps it.
LEMMA NextQInv ==
  ASSUME QInv, [Next]_vars
  PROVE  QInv'
  BY NextPInv, NextApart, NextOnlyDeletes, NextPresent, NextOriginals DEF QInv, PInv

\* What a checker compares is what was there at the start.
LEMMA CheckedOriginal ==
  ASSUME QInv, NEW f \in File, Queued("check", f)
  PROVE  dst[f] = dst0[f] /\ dst0[f] # Absent
  BY DEF QInv, Present, Originals, Original

-----------------------------------------------------------------------------
(* Nothing is lost *)

\* With --update the destination may have a file that is newer.
Newer(f) == UpdateOlder /\ Skipped(f)

\* A pair asks for the source to be deleted only in a move, and if the
\* destination has the file, or a newer one.
SrcPair(x) == x.to = "src" => DoMove /\ (dst[x.file] = src[x.file] \/ Newer(x.file))

Tagged ==
  /\ \A x \in queue["rename"] : x.to = "nil"
  /\ \A x \in queue["upload"] : SrcPair(x)
  /\ \A t \in Transfer : \A x \in busy[t] : SrcPair(x)

\* A file that is no longer on the source has been moved, and all is done with it.
Moved(f) == DoMove /\ src[f] = Absent /\ (dst[f] = src0[f] \/ Newer(f))
SrcKept == \A f \in File : src[f] = src0[f] \/ (Moved(f) /\ Nowhere(f))

\* What was left as it was stays so.
LEMMA SkippedStays ==
  ASSUME TPipes, [Next]_vars, NEW f \in File, dst'[f] = dst[f]
  PROVE  (Skipped(f) => Skipped(f)') /\ (Newer(f) => Newer(f)')
  BY SameFirst DEF Skipped, Newer, IgnoreExisting, UpdateOlder

\* What a checker finds not to be needed is the same, or is left as it was.
LEMMA NoNeedFacts ==
  ASSUME QInv, NEW f \in File, Queued("check", f), NoNeed(f)
  PROVE  /\ dst[f] = src[f] \/ Skipped(f)
         /\ ~IgnoreExisting => dst[f] = src[f] \/ Newer(f)
         /\ IgnoreExisting => Skipped(f)
  BY CheckedOriginal DEF NoNeed, Skipped, Newer

\* Pairs stay true.
LEMMA NextTagged ==
  ASSUME QInv, Tagged, [Next]_vars
  PROVE  Tagged'
  <1>1. /\ Types /\ Modes /\ Stages /\ OnePlace /\ OnePair /\ TPipes /\ queue \in [Pipe -> SUBSET Pair]
        /\ busy \in [Transfer -> {{}} \cup {{pair} : pair \in Pair}] /\ \A pair \in Pair : pair.file \in File
        /\ Pipe = {"check", "rename", "upload"}
    BY DEF QInv, PInv, Types, TPipes, TWorks, Pair, Pipe
  <1>2. opt' = opt /\ (DoMove' <=> DoMove)
    BY <1>1, SameFirst DEF DoMove
  <1>3. ASSUME NEW x \in queue["upload"]
        PROVE  SrcPair(x)'
    <2>1. x \in Pair /\ x.file \in File /\ Queued("upload", x.file)
      BY <1>1, <1>3 DEF Queued
    <2>2. ~Touched(x.file)
      BY <1>1, <2>1, TouchedPlace
    <2>3. QED
      BY <1>1, <1>2, <1>3, <2>1, <2>2, SkippedStays DEF Touched, Tagged, SrcPair
  <1>4. ASSUME NEW t \in Transfer, NEW x \in busy[t], busy'[t] # {}, ~Continues(t, x.file)
        PROVE  SrcPair(x)'
    <2>1. x.file \in File /\ Handled(t, x.file)
      BY <1>1, <1>4 DEF Handled
    <2>2. ~Touched(x.file)
      BY <1>1, <1>4, <2>1, TouchedPlace
    <2>3. QED
      BY <1>1, <1>2, <1>4, <2>1, <2>2, SkippedStays DEF Touched, Tagged, SrcPair
  <1>5. ASSUME UNCHANGED busy, queue'["rename"] \subseteq queue["rename"],
               \A x \in queue'["upload"] : x \in queue["upload"] \/ SrcPair(x)'
        PROVE  Tagged'
    <2>1. ASSUME NEW t \in Transfer, NEW x \in busy[t]
          PROVE  ~Continues(t, x.file)
      BY <1>1, <1>5, <2>1 DEF Continues, TransferCopied
    <2>2. QED
      BY <1>3, <1>4, <1>5, <2>1 DEF Tagged
  <1>6. ASSUME NEW d \in Dir, Marching(d)
        PROVE  Tagged'
    <2>1. busy' = busy
      BY <1>6, FootMarching DEF works
    <2>2. \/ queue' = queue
          \/ \E f \in File : queue' = [queue EXCEPT !["upload"] = @ \cup {[file |-> f, to |-> "nil"]}]
          \/ \E f \in File : queue' = [queue EXCEPT !["check"] = @ \cup {[file |-> f, to |-> "dst"]}]
      BY <1>6 DEF Marching, List, JobDone, JobAborted, JobDropped, SrcOnly, Match, DstOnly, Offer, Put, pipes
    <2>3. /\ queue'["rename"] = queue["rename"]
          /\ \A x \in queue'["upload"] : x \in queue["upload"] \/ x.to = "nil"
      BY <1>1, <2>2
    <2>4. QED
      BY <1>5, <2>1, <2>3 DEF SrcPair
  <1>7. ASSUME NEW c \in Checker, Checking(c)
        PROVE  Tagged'
    <2>1. busy' = busy
      BY <1>7, FootChecking
    <2>2. CASE Exit(c, "check")
      BY <1>5, <2>1, <2>2 DEF Exit, pipes
    <2>3. ASSUME NEW pair \in Pair, Check(c, pair)
          PROVE  Tagged'
      <3>1. \/ Taken("check", pair)
            \/ \E to \in {"nil", "dst", "src"} :
                 /\ PassedOn(c, "check", pair, "upload", [file |-> pair.file, to |-> to])
                 /\ to = "src" => DoMove /\ UNCHANGED trees /\ NoNeed(pair.file) /\ ~IgnoreExisting
        BY <2>3 DEF Check
      <3>2. CASE Taken("check", pair)
        <4>1. queue' = [queue EXCEPT !["check"] = @ \ {pair}]
          BY <3>2 DEF Taken
        <4>2. QED
          BY <1>1, <1>5, <2>1, <4>1
      <3>3. ASSUME NEW to \in {"nil", "dst", "src"},
                   PassedOn(c, "check", pair, "upload", [file |-> pair.file, to |-> to]),
                   to = "src" => DoMove /\ UNCHANGED trees /\ NoNeed(pair.file) /\ ~IgnoreExisting
            PROVE  Tagged'
        <4>1. queue' = [queue EXCEPT !["check"] = @ \ {pair}, !["upload"] = @ \cup {[file |-> pair.file, to |-> to]}]
          BY <3>3 DEF PassedOn
        <4>2. queue'["rename"] = queue["rename"] /\ queue'["upload"] = queue["upload"] \cup {[file |-> pair.file, to |-> to]}
          BY <1>1, <4>1
        <4>3. SrcPair([file |-> pair.file, to |-> to])'
          <5>1. pair.file \in File /\ Queued("check", pair.file)
            BY <1>1, <2>3 DEF Check, Get, Queued
          <5>2. QED
            BY <1>1, <1>2, <3>3, <5>1, NoNeedFacts, SkippedStays DEF SrcPair, trees
        <4>4. QED
          BY <1>5, <2>1, <4>2, <4>3
      <3>4. QED
        BY <3>1, <3>2, <3>3
    <2>4. QED
      BY <1>7, <2>2, <2>3 DEF Checking
  <1>8. ASSUME NEW r \in Renamer, Renaming(r)
        PROVE  Tagged'
    <2>1. busy' = busy
      BY <1>8, FootRenaming
    <2>2. CASE queue' = queue
      BY <1>5, <2>1, <2>2
    <2>3. ASSUME NEW pair \in Pair, pair \in queue["rename"],
                 Taken("rename", pair) \/ PassedOn(r, "rename", pair, "upload", pair)
          PROVE  Tagged'
      <3>1. /\ queue'["rename"] \subseteq queue["rename"]
            /\ queue'["upload"] \subseteq queue["upload"] \cup {pair}
        BY <1>1, <2>3 DEF Taken, PassedOn
      <3>2. pair.to = "nil"
        BY <2>3 DEF Tagged
      <3>3. QED
        BY <1>5, <2>1, <3>1, <3>2 DEF SrcPair
    <2>4. QED
      BY <1>1, <1>8, <2>2, <2>3, RenamingPipes
  <1>9. ASSUME NEW t \in Transfer, Transferring(t)
        PROVE  Tagged'
    <2>1. CASE \E pair \in Pair : TransferCopied(t, pair)
      <3>1. PICK pair \in Pair : TransferCopied(t, pair)
        BY <2>1
      <3>2. queue' = queue /\ busy' = [busy EXCEPT ![t] = {[file |-> pair.file, to |-> "src"]}]
        BY <3>1 DEF TransferCopied, pipes
      <3>3. busy'[t] = {[file |-> pair.file, to |-> "src"]} /\ \A u \in Transfer \ {t} : busy'[u] = busy[u]
        BY <1>1, <3>2
      <3>4. dst \in [File -> Content \cup {Absent}] /\ pair.file \in File
        BY <1>1 DEF Types, TTrees, Tree
      <3>5. SrcPair([file |-> pair.file, to |-> "src"])'
        BY <1>2, <3>1, <3>4 DEF TransferCopied, SrcPair
      <3>6. ASSUME NEW u \in Transfer \ {t}, NEW x \in busy[u]
            PROVE  ~Continues(u, x.file)
        <4>1. SUFFICES ASSUME NEW y \in Pair, busy[u] = {y}, TransferCopied(u, y)
                       PROVE  FALSE
          BY DEF Continues
        <4>2. busy'[u] = {[file |-> y.file, to |-> "src"]} /\ y.to # "src"
          BY <1>1, <4>1 DEF TransferCopied
        <4>3. QED
          BY <3>3, <4>1, <4>2
      <3>7. QED
        BY <1>3, <1>4, <3>2, <3>3, <3>5, <3>6 DEF Tagged
    <2>2. CASE ~\E pair \in Pair : TransferCopied(t, pair)
      <3>1. \/ queue' = queue /\ (busy' = busy \/ busy' = [busy EXCEPT ![t] = {}])
            \/ \E pair \in queue["upload"] : busy[t] = {} /\ Taken("upload", pair) /\ busy' = [busy EXCEPT ![t] = {pair}]
        BY <1>9, <2>2 DEF Transferring, Exit, TransferStart, TransferOK, TransferFailed, TransferLimit, Transferred, Get, pipes
      <3>2. queue'["rename"] = queue["rename"] /\ queue'["upload"] \subseteq queue["upload"]
        BY <1>1, <3>1 DEF Taken
      <3>3. \A u \in Transfer : \A x \in busy'[u] : (x \in busy[u] /\ busy'[u] = busy[u]) \/ x \in queue["upload"]
        BY <1>1, <3>1
      <3>4. ASSUME NEW u \in Transfer, busy'[u] = busy[u], NEW x \in busy[u]
            PROVE  ~Continues(u, x.file)
        BY <1>1, <3>4 DEF Continues, TransferCopied
      <3>5. QED
        BY <1>3, <1>4, <3>2, <3>3, <3>4 DEF Tagged
    <2>3. QED
      BY <2>1, <2>2
  <1>10. CASE Main
    <2>1. CASE SecondPass
      <3>1. (\A p \in Pipe : queue'[p] = {}) /\ \A t \in Transfer : busy'[t] = {}
        BY <2>1 DEF SecondPass
      <3>2. QED
        BY <1>1, <3>1 DEF Tagged
    <2>2. CASE ~SecondPass
      <3>1. busy' = busy
        BY <1>10, <2>2, FootMainFirst
      <3>2. \/ queue' = queue
            \/ \E f \in File : queue' = [queue EXCEPT !["rename"] = @ \cup {[file |-> f, to |-> "nil"]}]
        BY <1>10, <2>2 DEF Main, Marched, MakeRenameMap, RenamesSent, Checked, Renamed, TransfersDone,
             DeletersDone, PumpEnds, AfterDone, Return, Pump, OfferRename, Put, pipes
      <3>3. queue'["upload"] = queue["upload"] /\ \A x \in queue'["rename"] : x \in queue["rename"] \/ x.to = "nil"
        BY <1>1, <3>2
      <3>4. ASSUME NEW t \in Transfer, NEW x \in busy[t]
            PROVE  ~Continues(t, x.file)
        BY <1>1, <3>1, <3>4 DEF Continues, TransferCopied
      <3>5. QED
        BY <1>3, <1>4, <3>1, <3>3, <3>4 DEF Tagged
    <2>3. QED
      BY <2>1, <2>2
  <1>11. QED
    <2>1. CASE \/ \E w \in Producer : Putting(w)
               \/ Deleting \/ Deadline \/ Cancel \/ UNCHANGED vars
      <3>1. UNCHANGED <<queue, busy>>
        BY <2>1, FootPutting, FootDeleting, FootLimits DEF vars, pipes, works
      <3>2. QED
        BY <1>5, <3>1
    <2>2. QED
      BY <1>1, <1>6, <1>7, <1>8, <1>9, <1>10, <2>1, Actors

\* A file leaves the source only when it has been moved.
LEMMA NextSource ==
  ASSUME QInv, Tagged, [Next]_vars, NEW f \in File, src'[f] # src[f]
  PROVE  DoMove /\ src'[f] = Absent /\ (dst'[f] = src[f] \/ Newer(f)') /\ Nowhere(f)'
  <1>1. /\ Types /\ Modes /\ Stages /\ OnePlace /\ OnePair /\ TPipes
        /\ src \in [File -> Content \cup {Absent}] /\ dst \in [File -> Content \cup {Absent}]
    BY DEF QInv, PInv, Types, TTrees, Tree
  <1>2. Touched(f)
    BY DEF Touched
  <1>3. ASSUME NEW c \in Checker, NEW pair \in Pair, pair.file = f, Check(c, pair), pair \in queue["check"]
        PROVE  DoMove /\ src'[f] = Absent /\ (dst'[f] = src[f] \/ Newer(f)') /\ Nowhere(f)'
    <2>1. /\ NoNeed(f) /\ ~IgnoreExisting /\ DoMove /\ dst' = dst /\ src' = [src EXCEPT ![f] = Absent]
          /\ Taken("check", pair)
      BY <1>3 DEF Check, trees
    <2>2. UNCHANGED <<job, todo, renameCheck, busy, dels, dstFiles>>
      BY <1>3 DEF Check, march, renames, works, deletes
    <2>3. Nowhere(f)'
      BY <1>1, <1>3, <2>1, <2>2, Same, TakenGone
    <2>4. QED
      BY <1>1, <1>3, <2>1, <2>3, NoNeedFacts, SkippedStays DEF Queued
  <1>4. ASSUME NEW t \in Transfer, NEW pair \in Pair, pair.file = f, busy[t] = {pair},
               TransferOK(t, pair) \/ TransferFailed(t, pair) \/ TransferLimit(t, pair)
        PROVE  DoMove /\ src'[f] = Absent /\ (dst'[f] = src[f] \/ Newer(f)') /\ Nowhere(f)'
    <2>1. Nowhere(f)'
      BY <1>1, <1>4, TransferredGone
    <2>2. TransferOK(t, pair)
      BY <1>1, <1>4 DEF TransferFailed, TransferLimit
    <2>3. DoMove /\ src' = [src EXCEPT ![f] = Absent]
      BY <1>4, <2>2 DEF TransferOK
    <2>4. dst'[f] = src[f] \/ Newer(f)'
      <3>1. CASE pair.to = "src"
        BY <1>1, <1>4, <2>2, <3>1, SkippedStays DEF TransferOK, Tagged, SrcPair
      <3>2. CASE pair.to # "src"
        BY <1>1, <1>4, <2>2, <3>2 DEF TransferOK
      <3>3. QED
        BY <3>1, <3>2
    <2>5. QED
      BY <1>1, <2>1, <2>3, <2>4
  <1>5. ASSUME NEW r \in Renamer, NEW pair \in Pair, Rename(r, pair)
        PROVE  FALSE
    BY <1>5 DEF Rename
  <1>6. ~DeleteOne(f) /\ \A t \in Transfer, pair \in Pair : ~TransferCopied(t, pair)
    BY DEF DeleteOne, TransferCopied
  <1>7. QED
    BY <1>1, <1>2, <1>3, <1>4, <1>5, <1>6, NextTouched

\* What is gone from the source is at the destination and stays there.
LEMMA NextSrcKept ==
  ASSUME QInv, Tagged, SrcKept, [Next]_vars
  PROVE  SrcKept'
  <1>1. Types /\ Modes /\ Stages /\ OnePlace /\ OnePair /\ TPipes /\ TFirst
    BY DEF QInv, PInv, Types
  <1>2. UNCHANGED <<opt, src0>> /\ (DoMove' <=> DoMove)
    BY <1>1, SameFirst DEF DoMove
  <1>3. DoMove => ~SecondPass
    BY <1>1, OptionFacts DEF Modes, SecondPass
  <1>4. SUFFICES ASSUME NEW f \in File
                 PROVE  src'[f] = src0[f] \/ (Moved(f)' /\ Nowhere(f)')
    BY <1>2 DEF SrcKept
  <1>5. CASE Moved(f) /\ Nowhere(f)
    <2>1. ~Touched(f)
      BY <1>1, <1>5, TouchedPlace
    <2>2. Nowhere(f)'
      BY <1>1, <1>3, <1>5, NextNowhere DEF Moved
    <2>3. QED
      BY <1>1, <1>2, <1>5, <2>1, <2>2, SkippedStays DEF Touched, Moved
  <1>6. CASE src[f] = src0[f] /\ src'[f] # src[f]
    BY <1>2, <1>6, NextSource DEF Moved
  <1>7. QED
    BY <1>2, <1>5, <1>6 DEF SrcKept

\* The invariant of the source.
LInv == QInv /\ Tagged /\ SrcKept

\* It holds at the start.
LEMMA InitLInv ==
  ASSUME Init
  PROVE  LInv
  <1>1. QInv
    BY InitQInv
  <1>2. Tagged
    BY DEF Init, Tagged, Pipe
  <1>3. SrcKept
    BY DEF Init, SrcKept
  <1>4. QED
    BY <1>1, <1>2, <1>3 DEF LInv

\* Every step keeps it.
LEMMA NextLInv ==
  ASSUME LInv, [Next]_vars
  PROVE  LInv'
  BY NextQInv, NextTagged, NextSrcKept DEF LInv

\* Whatever fails and whoever cancels, the content of a source file is on the
\* source, or a move has brought it to the destination, where nothing in the
\* same run takes it away again; or a move with --update has deleted it for a
\* newer file at the destination, which is still there.
THEOREM NothingIsLost == Spec => []NothingLost
  <1>1. LInv => NothingLost
    BY DEF LInv, SrcKept, Moved, Newer, NothingLost
  <1>2. QED
    BY <1>1, InitLInv, NextLInv, PTL DEF Spec

-----------------------------------------------------------------------------
(* The backup *)

\* What was at the destination is there, or in the backup.
Untouched(f) == dst[f] = dst0[f] \/ (dst[f] = Absent /\ backup[f] = dst0[f])

\* What was at the destination may be overwritten: its directory could not be
\* listed, there was nothing, or it is in the backup.
Safe(f) == "dst" \in failed[DirOf[f]] \/ dst0[f] = Absent \/ backup[f] = dst0[f]

\* It has another name, and all is done with that name.
RenamedTo(f) == TrackRenames /\ \E g \in File : dst[g] = dst0[f] /\ Nowhere(g)

Backups ==
  BackupDir =>
    /\ mode = "only" => \A f \in File : Untouched(f)
    /\ \A f \in File : Uncalled(f) \/ Queued("check", f) \/ Doomed(f) => Untouched(f)
    /\ \A f \in renameCheck : Safe(f)
    /\ \A x \in queue["rename"] : Safe(x.file)
    /\ \A x \in queue["upload"] : x.to # "src" => Safe(x.file)
    /\ \A t \in Transfer : \A x \in busy[t] : x.to # "src" => Safe(x.file)
    /\ \A f \in File : Untouched(f) \/ Safe(f) \/ RenamedTo(f)

\* A listing that failed stays so within a pass.
LEMMA FailedStays ==
  ASSUME Types, Sound, [Next]_vars, ~SecondPass
  PROVE  \A d \in Dir : failed[d] \subseteq failed'[d]
  <1>1. TPipes /\ failed \in [Dir -> SUBSET {"src", "dst"}]
    BY DEF Types, TMarch
  <1>2. ASSUME NEW d \in Dir, Marching(d)
        PROVE  \A e \in Dir : failed[e] \subseteq failed'[e]
    <2>1. CASE List(d)
      <3>1. failed[d] = {} /\ \A e \in Dir \ {d} : failed'[e] = failed[e]
        BY <1>1, <2>1 DEF List, Sound
      <3>2. QED
        BY <3>1
    <2>2. CASE ~List(d)
      BY <1>2, <2>2 DEF Marching, JobDone, JobAborted, JobDropped, SrcOnly, Match, DstOnly, Called
    <2>3. QED
      BY <2>1, <2>2
  <1>3. CASE Main
    BY <1>3, FootMainFirst DEF march
  <1>4. CASE \/ \E c \in Checker : Checking(c)
             \/ \E r \in Renamer : Renaming(r)
             \/ \E t \in Transfer : Transferring(t)
             \/ \E w \in Producer : Putting(w)
             \/ Deleting \/ Deadline \/ Cancel \/ UNCHANGED vars
    BY <1>4, FootChecking, FootRenaming, FootTransferring, FootPutting, FootDeleting, FootLimits DEF vars, march
  <1>5. QED
    BY <1>1, <1>2, <1>3, <1>4, Actors

\* What is true of a file that a step does not touch stays true.
LEMMA UntouchedStays ==
  ASSUME Types, Modes, Stages, Sound, OnePlace, OnePair, [Next]_vars, ~SecondPass, NEW f \in File
  PROVE  /\ ~Touched(f) /\ Untouched(f) => Untouched(f)'
         /\ backup'[f] = backup[f] /\ Safe(f) => Safe(f)'
         /\ RenamedTo(f) => RenamedTo(f)'
  <1>1. TPipes /\ DirOf \in [File -> Dir]
    BY SyncAssumption DEF Types
  <1>2. UNCHANGED <<opt, dst0>>
    BY <1>1, SameFirst
  <1>3. ~Touched(f) /\ Untouched(f) => Untouched(f)'
    BY <1>2 DEF Untouched, Touched
  <1>4. backup'[f] = backup[f] /\ Safe(f) => Safe(f)'
    <2>1. "dst" \in failed[DirOf[f]] => "dst" \in failed'[DirOf[f]]
      BY <1>1, FailedStays
    <2>2. QED
      BY <1>2, <2>1 DEF Safe
  <1>5. ASSUME RenamedTo(f)
        PROVE  RenamedTo(f)'
    <2>1. PICK g \in File : dst[g] = dst0[f] /\ Nowhere(g)
      BY <1>5 DEF RenamedTo
    <2>2. ~Touched(g) /\ Nowhere(g)'
      BY <2>1, TouchedPlace, NextNowhere
    <2>3. dst'[g] = dst0'[f]
      BY <1>2, <2>1, <2>2 DEF Touched
    <2>4. TrackRenames'
      BY <1>2, <1>5 DEF RenamedTo, TrackRenames
    <2>5. QED
      BY <2>2, <2>3, <2>4 DEF RenamedTo
  <1>6. QED
    BY <1>3, <1>4, <1>5

\* Every step keeps what was at the destination.
LEMMA NextBackups ==
  ASSUME PInv, Sound, Apart, OnlyDeletes, Present, Backups, [Next]_vars
  PROVE  Backups'
  <1>1. /\ Types /\ Modes /\ Stages /\ OnePlace /\ OnePair /\ TPipes /\ TNames /\ TFirst
        /\ dst \in [File -> Content \cup {Absent}] /\ backup \in [File -> Content \cup {Absent}]
        /\ queue \in [Pipe -> SUBSET Pair] /\ busy \in [Transfer -> {{}} \cup {{pair} : pair \in Pair}]
        /\ \A pair \in Pair : pair.file \in File
        /\ {"check", "rename", "upload"} \subseteq Pipe
    BY DEF PInv, Types, TTrees, Tree, TPipes, TWorks, Pair, Pipe
  <1>2. UNCHANGED <<opt, dst0>> /\ (BackupDir' <=> BackupDir)
    BY <1>1, SameFirst DEF BackupDir
  <1>3. SUFFICES ASSUME BackupDir
                 PROVE  Backups'
    BY <1>2 DEF Backups
  <1>4. CASE SecondPass
    <2>1. mode = "only" /\ mode' = "off"
      BY <1>1, <1>4 DEF SecondPass, Modes
    <2>2. UNCHANGED <<dst, backup>>
      BY <1>4 DEF SecondPass, trees
    <2>3. \A f \in File : Untouched(f)'
      BY <1>2, <1>3, <2>1, <2>2 DEF Backups, Untouched
    <2>4. renameCheck' = {} /\ (\A p \in Pipe : queue'[p] = {}) /\ \A t \in Transfer : busy'[t] = {}
      BY <1>1, <1>4, <2>1, OptionFacts DEF SecondPass, Modes, renames
    <2>5. QED
      BY <1>1, <2>1, <2>3, <2>4 DEF Backups
  <1>5. CASE ~SecondPass
    <2>1. ASSUME NEW f \in File
          PROVE  /\ ~Touched(f) /\ Untouched(f) => Untouched(f)'
                 /\ backup'[f] = backup[f] /\ Safe(f) => Safe(f)'
                 /\ RenamedTo(f) => RenamedTo(f)'
      BY <1>1, <1>5, UntouchedStays
    <2>2. ASSUME NEW f \in File, ~Touched(f)
          PROVE  backup'[f] = backup[f] /\ dst'[f] = dst[f]
      BY <2>2 DEF Touched
    <2>3. ASSUME NEW f \in File, Queued("check", f) \/ Doomed(f)
          PROVE  dst[f] = dst0[f] /\ Untouched(f)
      BY <1>3, <2>3 DEF Present, Backups, Untouched
    <2>4. ASSUME NEW f \in File, NEW d \in Dir, SrcOnly(d, f)
          PROVE  Safe(f) /\ ~Touched(f)
      <3>1. Untouched(f) /\ ~Touched(f)
        BY <1>1, <1>3, <2>4, CalledPlace DEF Backups
      <3>2. dst[f] = Absent \/ "dst" \in failed[DirOf[f]]
        BY <2>4 DEF SrcOnly, InDst
      <3>3. QED
        BY <3>1, <3>2 DEF Untouched, Safe
    <2>5. ASSUME NEW f \in File, DeleteOne(f), Touched(f), f \in dels
          PROVE  Untouched(f)'
      <3>1. dst[f] = dst0[f]
        BY <2>3, <2>5 DEF Doomed
      <3>2. dst' = [dst EXCEPT ![f] = Absent] /\ backup' = [backup EXCEPT ![f] = dst[f]]
        BY <1>3, <2>5 DEF DeleteOne, Saved, Touched
      <3>3. QED
        BY <1>1, <1>2, <3>1, <3>2 DEF Untouched
    <2>6. mode' = "only" => \A f \in File : Untouched(f)'
      <3>1. SUFFICES ASSUME mode' = "only", NEW f \in File
                     PROVE  Untouched(f)'
        OBVIOUS
      <3>2. mode = "only"
        <4>1. CASE Main
          BY <1>5, <3>1, <4>1, FootMainFirst
        <4>2. CASE ~Main
          BY <1>1, <3>1, <4>2, Actors, FootMarching, FootChecking, FootRenaming, FootTransferring, FootPutting,
             FootDeleting, FootLimits DEF vars, stage
        <4>3. QED
          BY <4>1, <4>2
      <3>3. Untouched(f) /\ (\A p \in Pipe : queue[p] = {}) /\ (\A t \in Transfer : busy[t] = {})
        BY <1>3, <3>1, <3>2 DEF Backups, OnlyDeletes
      <3>4. ASSUME NEW r \in Renamer, NEW pair \in Pair, Rename(r, pair)
            PROVE  pair \in queue["rename"]
        BY <3>4 DEF Rename, Get
      <3>5. Touched(f) => DeleteOne(f) /\ f \in dels
        BY <1>1, <3>3, <3>4, NextTouched
      <3>6. QED
        BY <2>1, <2>5, <3>3, <3>5
    <2>7. \A f \in File : (Uncalled(f)' \/ Queued("check", f)' \/ Doomed(f)') => Untouched(f)'
      <3>1. SUFFICES ASSUME NEW f \in File, Uncalled(f)' \/ Queued("check", f)' \/ Doomed(f)'
                     PROVE  Untouched(f)'
        OBVIOUS
      <3>2. ~Touched(f)
        BY <3>1, TouchedNot
      <3>3. Queued("check", f)' => Queued("check", f) \/ \E d \in Dir : Match(d, f)
        BY <1>1, <1>5, NewPlaces DEF Queued
      <3>4. Uncalled(f) \/ Queued("check", f) \/ Doomed(f)
        BY <1>1, <1>5, <3>1, <3>3, NewPlaces, CalledPlace
      <3>5. QED
        BY <1>3, <2>1, <3>2, <3>4 DEF Backups
    <2>8. \A f \in renameCheck' : Safe(f)'
      <3>1. SUFFICES ASSUME NEW f \in renameCheck'
                     PROVE  Safe(f)'
        OBVIOUS
      <3>2. f \in renameCheck \/ \E d \in Dir : SrcOnly(d, f)
        BY <1>1, <1>5, <3>1, NewPlaces
      <3>3. f \in File
        <4>1. TNames'
          BY <1>1, NextTypes DEF Types
        <4>2. QED
          BY <3>1, <4>1 DEF TNames
      <3>4. Safe(f) /\ ~Touched(f)
        BY <1>3, <2>4, <3>1, <3>2, <3>3, TouchedNot DEF Backups
      <3>5. QED
        BY <2>1, <2>2, <3>3, <3>4
    <2>9. \A x \in queue'["rename"] : Safe(x.file)'
      <3>1. SUFFICES ASSUME NEW x \in queue'["rename"]
                     PROVE  Safe(x.file)'
        OBVIOUS
      <3>2. x \in Pair /\ x.file \in File
        <4>1. TPipes'
          BY <1>1, NextTypes DEF Types
        <4>2. QED
          BY <1>1, <3>1, <4>1 DEF TPipes
      <3>3. ~Touched(x.file)
        <4>1. Queued("rename", x.file)'
          BY <3>1 DEF Queued
        <4>2. QED
          BY <3>2, <4>1, TouchedNot
      <3>4. x \in queue["rename"] \/ x.file \in renameCheck
        BY <1>1, <1>5, <3>1, NewPlaces DEF OfferRename
      <3>5. Safe(x.file)
        BY <1>3, <3>4 DEF Backups
      <3>6. QED
        BY <2>1, <2>2, <3>2, <3>3, <3>5
    <2>10. \A x \in queue'["upload"] : x.to # "src" => Safe(x.file)'
      <3>1. SUFFICES ASSUME NEW x \in queue'["upload"], x.to # "src"
                     PROVE  Safe(x.file)'
        OBVIOUS
      <3>2. x \in Pair /\ x.file \in File
        <4>1. TPipes'
          BY <1>1, NextTypes DEF Types
        <4>2. QED
          BY <1>1, <3>1, <4>1 DEF TPipes
      <3>3. CASE x \in queue["upload"]
        <4>1. Safe(x.file) /\ Queued("upload", x.file)
          BY <1>3, <3>1, <3>3 DEF Backups, Queued
        <4>2. ~Touched(x.file)
          BY <1>1, <3>2, <4>1, TouchedPlace
        <4>3. QED
          BY <2>1, <2>2, <3>2, <4>1, <4>2
      <3>4. CASE \E d \in Dir : SrcOnly(d, x.file)
        BY <2>1, <2>2, <2>4, <3>2, <3>4
      <3>5. CASE x \in queue["rename"] /\ backup' = backup
        BY <1>3, <2>1, <3>2, <3>5 DEF Backups
      <3>6. CASE \E pair \in queue["check"] : pair.file = x.file /\ backup' = [backup EXCEPT ![x.file] = dst[x.file]]
        <4>1. Queued("check", x.file)
          BY <3>6 DEF Queued
        <4>2. dst[x.file] = dst0[x.file]
          BY <2>3, <3>2, <4>1
        <4>3. backup'[x.file] = dst0[x.file]
          BY <1>1, <3>2, <3>6, <4>2
        <4>4. QED
          BY <1>2, <4>3 DEF Safe
      <3>7. QED
        BY <1>1, <1>3, <1>5, <3>1, <3>3, <3>4, <3>5, <3>6, NewPlaces
    <2>11. \A t \in Transfer : \A x \in busy'[t] : x.to # "src" => Safe(x.file)'
      <3>1. SUFFICES ASSUME NEW t \in Transfer, NEW x \in busy'[t], x.to # "src"
                     PROVE  Safe(x.file)'
        OBVIOUS
      <3>2. x \in Pair /\ x.file \in File
        <4>1. TWorks'
          BY <1>1, NextTypes DEF Types
        <4>2. QED
          BY <1>1, <3>1, <4>1 DEF TWorks
      <3>3. x \in busy[t] \/ x \in queue["upload"]
        BY <1>1, <1>5, <3>1, NewPlaces
      <3>4. Safe(x.file)
        BY <1>3, <3>1, <3>3 DEF Backups
      <3>5. Handled(t, x.file) \/ Queued("upload", x.file)
        BY <3>3 DEF Handled, Queued
      <3>6. ~Continues(t, x.file)
        BY <1>1, <3>1 DEF Continues, TransferCopied
      <3>7. ~Touched(x.file)
        BY <1>1, <3>1, <3>2, <3>5, <3>6, TouchedPlace
      <3>8. QED
        BY <2>1, <2>2, <3>2, <3>4, <3>7
    <2>12. \A f \in File : Untouched(f)' \/ Safe(f)' \/ RenamedTo(f)'
      <3>1. SUFFICES ASSUME NEW f \in File
                     PROVE  Untouched(f)' \/ Safe(f)' \/ RenamedTo(f)'
        OBVIOUS
      <3>2. Untouched(f) \/ Safe(f) \/ RenamedTo(f)
        BY <1>3 DEF Backups
      <3>3. CASE dst'[f] = dst[f] /\ backup'[f] = backup[f]
        BY <1>2, <2>1, <3>2, <3>3 DEF Untouched
      <3>4. ASSUME NEW c \in Checker, NEW pair \in Pair, pair.file = f, Check(c, pair), pair \in queue["check"]
            PROVE  Untouched(f)' \/ Safe(f)' \/ RenamedTo(f)'
        <4>1. dst[f] = dst0[f]
          BY <2>3, <3>4 DEF Queued
        <4>2. UNCHANGED <<dst, backup>> \/ backup' = [backup EXCEPT ![f] = dst[f]]
          BY <3>4 DEF Check, trees
        <4>3. CASE backup' = [backup EXCEPT ![f] = dst[f]]
          BY <1>1, <1>2, <4>1, <4>3 DEF Safe
        <4>4. QED
          BY <3>3, <4>2, <4>3
      <3>5. ASSUME NEW r \in Renamer, NEW pair \in Pair, pair.file = f, Rename(r, pair), pair \in queue["rename"]
            PROVE  Untouched(f)' \/ Safe(f)' \/ RenamedTo(f)'
        <4>1. backup' = backup
          BY <3>5 DEF Rename
        <4>2. Safe(f)
          BY <1>3, <3>5 DEF Backups
        <4>3. QED
          BY <2>1, <4>1, <4>2
      <3>6. ASSUME NEW r \in Renamer, NEW pair \in Pair, Rename(r, pair), f \in dstFiles, f \notin dstFiles'
            PROVE  Untouched(f)' \/ Safe(f)' \/ RenamedTo(f)'
        <4>1. dst[f] = dst0[f]
          BY <2>3, <3>6 DEF Doomed
        <4>2. PICK x \in renameMap : /\ dst' = [dst EXCEPT ![pair.file] = dst[x], ![x] = Absent]
                                     /\ dstFiles' = dstFiles \ {x} /\ Taken("rename", pair)
          BY <3>6 DEF Rename
        <4>3. x = f
          BY <3>6, <4>2
        <4>4. pair \in queue["rename"] /\ work[r] = "idle"
          BY <3>6 DEF Rename, Get, Free
        <4>5. TrackRenames
          BY <1>1, <4>4 DEF Stages, Manned
        <4>6. UNCHANGED <<job, todo, renameCheck, busy, dels>> /\ dstFiles' \subseteq dstFiles
          BY <3>6 DEF Rename, march, works
        <4>7. \A g \in File : Doomed(g)' => Doomed(g)
          BY <4>6 DEF Doomed
        <4>8. Nowhere(pair.file)'
          BY <1>1, <4>2, <4>4, <4>6, <4>7, TakenGone
        <4>9. pair.file # f
          <5>1. At("queue", "rename", pair.file) /\ "queue" \in Kind /\ "rename" \in Name /\ pair.file \in File
            BY <1>1, <4>4 DEF At, Queued, Kind, Name
          <5>2. ~Doomed(pair.file)
            BY <1>1, <5>1, Elsewhere
          <5>3. QED
            BY <3>6, <5>2 DEF Doomed
        <4>10. dst'[pair.file] = dst0'[f]
          BY <1>1, <1>2, <4>1, <4>2, <4>3, <4>9
        <4>11. TrackRenames'
          BY <1>2, <4>5 DEF TrackRenames
        <4>12. QED
          BY <1>1, <4>8, <4>10, <4>11 DEF RenamedTo
      <3>7. ASSUME NEW t \in Transfer, NEW pair \in Pair, pair.file = f, busy[t] = {pair},
                   \/ TransferCopied(t, pair) \/ TransferOK(t, pair) \/ TransferFailed(t, pair)
                   \/ TransferLimit(t, pair)
            PROVE  Untouched(f)' \/ Safe(f)' \/ RenamedTo(f)'
        <4>1. backup' = backup /\ (pair.to = "src" => dst' = dst)
          BY <3>7 DEF TransferCopied, TransferOK, TransferFailed, TransferLimit
        <4>2. pair.to # "src" => Safe(f)
          BY <1>3, <3>7 DEF Backups
        <4>3. QED
          BY <2>1, <3>3, <4>1, <4>2
      <3>8. QED
        BY <1>1, <2>5, <3>3, <3>4, <3>5, <3>6, <3>7, NextTouched, <2>2
    <2>13. QED
      BY <2>6, <2>7, <2>8, <2>9, <2>10, <2>11, <2>12 DEF Backups
  <1>6. QED
    BY <1>4, <1>5

\* The invariant of the backup.
BInv == QInv /\ Sound /\ Backups

\* It holds at the start.
LEMMA InitBInv ==
  ASSUME Init
  PROVE  BInv
  <1>1. QInv /\ Sound
    BY InitQInv, InitDInv DEF DInv
  <1>2. /\ (\A p \in Pipe : queue[p] = {}) /\ (\A t \in Transfer : busy[t] = {}) /\ renameCheck = {} /\ dst = dst0
    BY DEF Init
  <1>3. \A f \in File : Untouched(f)
    BY <1>2 DEF Untouched
  <1>4. Backups
    BY <1>2, <1>3 DEF Backups, Pipe
  <1>5. QED
    BY <1>1, <1>4 DEF BInv

\* Every step keeps it.
LEMMA NextBInv ==
  ASSUME BInv, [Next]_vars
  PROVE  BInv'
  BY NextQInv, NextSound, NextBackups DEF BInv, QInv, PInv

\* With --backup-dir no file of the destination is lost: whatever overwrites or
\* deletes it, and whatever fails, it is at its name, in the backup, or has the
\* name that --track-renames gave it.
THEOREM BackupsAreKept == Spec => []BackedUp
  <1>1. BInv => BackedUp
    BY DEF BInv, Backups, BackedUp, Untouched, Safe, RenamedTo
  <1>2. QED
    BY <1>1, InitBInv, NextBInv, PTL DEF Spec

-----------------------------------------------------------------------------
(***************************************************************************)
(* What a run that reports success has done, and what it has done when     *)
(* --delete-after begins to delete.  While no context is done, a goroutine *)
(* ends only when its pipe is closed and drained, so a file that is at no  *)
(* place of the run any more has been dealt with.                          *)
(***************************************************************************)


-----------------------------------------------------------------------------
(* The parts of the invariant: the stages *)

\* Where run has waited for the transfers.
Finish == {"deletes", "after", "end", "returned"}

\* No goroutine of a stage is left behind with a pair.
Left ==
  /\ \A t \in Transfer : work[t] # "idle" => busy[t] = {}
  /\ main \in Finish => \A t \in Transfer : work[t] = "exited"
  /\ TrackRenames => \A r \in Renamer : work[r] # "none"
  /\ ~TrackRenames => queue["rename"] = {}

\* A stage that has ended has done all of its work, unless the context is done.
Spent ==
  inCtx = "live" =>
    /\ \A d \in Dir : job[d] = "done" => todo[d] = {}
    /\ main \notin Before => renameCheck = {}
    /\ \A c \in Checker : work[c] = "exited" => Drained("check")
    /\ \A r \in Renamer : work[r] = "exited" => Drained("rename")
    /\ \A t \in Transfer : work[t] = "exited" => Drained("upload")

\* Unless the context is done, each pair has its token or its producer waits.
Covered(Q, T, W) == Cardinality(Q) <= T + Cardinality(W)
Covers == inCtx = "live" => \A p \in Pipe : Covered(queue[p], tokens[p], Waiting(p))

\* A listing that failed is an error of the march.
Known == \A d \in Dir : job[d] = "done" /\ failed[d] # {} => jobErr # "none" \/ inCtx # "live"

\* A deadline that is not soft ends the context of the transfers as well.
Hard == inCtx = "deadline" => opt.cutoff = "soft" \/ ctx # "live"

\* A step of the only process of a stage keeps who has ended.
LEMMA NextLeft ==
  ASSUME Types, Modes, Left, [Next]_vars
  PROVE  Left'
  <1>1. /\ TPipes /\ work \in [Worker -> {"none", "idle", "exited"}] /\ TFirst
        /\ busy \in [Transfer -> {{}} \cup {{pair} : pair \in Pair}] /\ "rename" \in Pipe
    BY DEF Types, TWorks, Pipe
  <1>2. opt' = opt /\ (TrackRenames' <=> TrackRenames)
    BY <1>1, SameFirst DEF TrackRenames
  <1>3. CASE SecondPass
    <2>1. ~TrackRenames
      BY <1>1, <1>3, OptionFacts DEF SecondPass, Modes
    <2>2. main' = "march" /\ queue'["rename"] = {} /\ \A t \in Transfer : busy'[t] = {}
      BY <1>1, <1>3 DEF SecondPass
    <2>3. QED
      BY <1>2, <2>1, <2>2 DEF Left, Finish
  <1>4. CASE ~SecondPass
    <2>1. ~TrackRenames' => queue'["rename"] = {}
      <3>1. \A x \in queue'["rename"] : x \in queue["rename"] \/ OfferRename(x.file)
        BY <1>4, NewPlaces
      <3>2. \A f : OfferRename(f) => TrackRenames
        BY DEF OfferRename, Modes
      <3>3. QED
        BY <1>2, <3>1, <3>2 DEF Left
    <2>2. ASSUME UNCHANGED <<work, busy, main>>
          PROVE  Left'
      BY <1>2, <2>1, <2>2 DEF Left
    <2>3. ASSUME NEW w \in Worker, NEW s \in {"idle", "exited"}, work' = [work EXCEPT ![w] = s],
                 UNCHANGED <<busy, main>>, w \in Transfer => (s = "exited" /\ busy[w] = {})
          PROVE  Left'
      <3>1. work'[w] = s /\ \A v \in Worker \ {w} : work'[v] = work[v]
        BY <1>1, <2>3
      <3>2. QED
        BY <1>2, <2>1, <2>3, <3>1, Distinct DEF Left
    <2>4. ASSUME NEW c \in Checker, Checking(c)
          PROVE  Left'
      <3>1. UNCHANGED <<busy, main>>
        BY <2>4, FootChecking DEF stage
      <3>2. UNCHANGED work \/ work' = [work EXCEPT ![c] = "exited"]
        BY <2>4 DEF Checking, Exit, Check, works
      <3>3. QED
        BY <2>2, <2>3, <3>1, <3>2, Distinct
    <2>5. ASSUME NEW r \in Renamer, Renaming(r)
          PROVE  Left'
      <3>1. UNCHANGED <<busy, main>>
        BY <2>5, FootRenaming DEF stage
      <3>2. UNCHANGED work \/ work' = [work EXCEPT ![r] = "exited"]
        BY <2>5 DEF Renaming, Exit, Rename, works
      <3>3. QED
        BY <2>2, <2>3, <3>1, <3>2, Distinct
    <2>6. ASSUME NEW t \in Transfer, Transferring(t)
          PROVE  Left'
      <3>1. main' = main
        BY <2>6, FootTransferring DEF stage
      <3>2. CASE Exit(t, "upload")
        <4>1. work' = [work EXCEPT ![t] = "exited"] /\ busy' = busy /\ busy[t] = {}
          BY <3>2 DEF Exit
        <4>2. QED
          BY <2>3, <3>1, <4>1, Distinct
      <3>3. ASSUME NEW pair \in Pair, TransferStart(t, pair)
            PROVE  Left'
        <4>1. work' = work /\ work[t] = "idle" /\ \A u \in Transfer \ {t} : busy'[u] = busy[u]
          BY <1>1, <3>3 DEF TransferStart, Get, Free
        <4>2. QED
          BY <1>2, <2>1, <3>1, <4>1 DEF Left
      <3>4. ASSUME NEW pair \in Pair, TransferOK(t, pair) \/ TransferFailed(t, pair) \/ TransferLimit(t, pair)
            PROVE  Left'
        <4>1. work' = work /\ busy'[t] = {} /\ \A u \in Transfer \ {t} : busy'[u] = busy[u]
          BY <1>1, <3>4 DEF TransferOK, TransferFailed, TransferLimit, Transferred
        <4>2. QED
          BY <1>2, <2>1, <3>1, <4>1 DEF Left
      <3>5. ASSUME NEW pair \in Pair, TransferCopied(t, pair)
            PROVE  Left'
        <4>1. work' = work /\ busy[t] # {} /\ \A u \in Transfer \ {t} : busy'[u] = busy[u]
          BY <1>1, <3>5 DEF TransferCopied
        <4>2. QED
          BY <1>2, <2>1, <3>1, <4>1 DEF Left
      <3>6. QED
        BY <2>6, <3>2, <3>3, <3>4, <3>5 DEF Transferring
    <2>7. ASSUME NEW w \in Producer, Putting(w)
          PROVE  Left'
      <3>1. UNCHANGED <<busy, main>>
        BY <2>7, FootPutting DEF stage
      <3>2. UNCHANGED work \/ work' = [v \in Worker |-> IF v = w THEN "exited" ELSE work[v]]
        BY <1>1, <2>7 DEF Putting, Sent, Unsent, works
      <3>3. \A v \in Worker : work'[v] = work[v] \/ (v = w /\ work'[v] = "exited")
        BY <3>2
      <3>4. QED
        BY <1>2, <2>1, <3>1, <3>3, Distinct DEF Left
    <2>8. CASE Main
      <3>1. busy' = busy
        BY <1>4, <2>8, FootMainFirst
      <3>2. CASE Checked
        <4>1. \A w \in Worker : work'[w] = work[w] \/ (w \in Transfer /\ work'[w] = "idle")
          BY <1>1, <3>2 DEF Checked
        <4>2. main' = "renames"
          BY <3>2 DEF Checked
        <4>3. QED
          BY <1>2, <2>1, <3>1, <4>1, <4>2, Distinct DEF Left, Finish
      <3>3. CASE ~Checked
        <4>1. work' = work
          BY <1>4, <2>8, <3>3 DEF Main, Marched, MakeRenameMap, RenamesSent, Renamed, TransfersDone, DeletersDone,
               PumpEnds, AfterDone, Return, OfferRename, Pump, works
        <4>2. main' \in Finish => main \in Finish \/ TransfersOver
          BY <1>4, <2>8, <3>3 DEF Main, Marched, MakeRenameMap, RenamesSent, Renamed, TransfersDone, DeletersDone,
               PumpEnds, AfterDone, Return, OfferRename, Pump, stage, Finish
        <4>3. QED
          BY <1>2, <2>1, <3>1, <4>1, <4>2 DEF Left, TransfersOver, Over
      <3>4. QED
        BY <3>2, <3>3
    <2>9. CASE (\E d \in Dir : Marching(d)) \/ Deleting \/ Deadline \/ Cancel \/ UNCHANGED vars
      BY <2>2, <2>9, FootMarching, FootDeleting, FootLimits DEF vars, works, stage
    <2>10. QED
      BY <1>1, <2>4, <2>5, <2>6, <2>7, <2>8, <2>9, Actors
  <1>5. QED
    BY <1>3, <1>4

\* A context that is live was live, but for the second pass.
LEMMA WasLive ==
  ASSUME TPipes, [Next]_vars, ~SecondPass
  PROVE  /\ inCtx' = "live" => inCtx = "live"
         /\ ctx' = "live" => ctx = "live"
         /\ errs' = {} => errs = {}
  BY NextErrors DEF ErrorsGrow

\* A pipe that is closed and drained stays so.
LEMMA DrainedStays ==
  ASSUME PInv, [Next]_vars, ~SecondPass, NEW p \in Pipe, Drained(p)
  PROVE  Drained(p)'
  <1>1. /\ Types /\ TPipes /\ Opened /\ tokens \in [Pipe -> Nat] /\ open \in [Pipe -> BOOLEAN]
        /\ blocked \in [Producer -> Pipe \cup {Nobody}] /\ Pipe = {"check", "rename", "upload"}
        /\ ~open[p] /\ tokens[p] = 0
    BY DEF PInv, Types, TPipes, Pipe, Stages, Drained
  <1>2. ~open'[p]
    <2>1. CASE Main
      BY <1>1, <2>1 DEF Main, Marched, MakeRenameMap, RenamesSent, Checked, Renamed, TransfersDone, DeletersDone,
           PumpEnds, AfterDone, Return, OfferRename, Put, Pump, pipes, Opened, Before
    <2>2. CASE \/ \E d \in Dir : Marching(d)
               \/ \E t \in Transfer : Transferring(t)
               \/ \E w \in Producer : Putting(w)
               \/ Deleting \/ Deadline \/ Cancel \/ UNCHANGED vars
      BY <1>1, <2>2, FootMarching, FootTransferring, FootPutting, FootDeleting, FootLimits DEF vars, pipes
    <2>3. CASE (\E c \in Checker : Checking(c)) \/ (\E r \in Renamer : Renaming(r))
      BY <1>1, <2>3 DEF Checking, Renaming, Exit, Check, Rename, Taken, PassedOn, pipes
    <2>4. QED
      BY <1>1, <2>1, <2>2, <2>3, Actors
  <1>3. tokens'[p] = 0
    <2>1. CASE UNCHANGED tokens
      BY <1>1, <2>1
    <2>2. ASSUME NEW q \in Pipe, tokens[q] > 0, tokens' = [tokens EXCEPT ![q] = @ - 1]
          PROVE  tokens'[p] = 0
      <3>1. p # q
        BY <1>1, <2>2
      <3>2. QED
        BY <1>1, <2>2, <3>1
    <2>3. ASSUME NEW w \in Producer, Putting(w)
          PROVE  tokens'[p] = 0
      <3>1. CASE Sent(w)
        <4>1. open[blocked[w]] /\ blocked[w] \in Pipe
          BY <1>1, <3>1, SafePipes DEF Sent, PipesSafe
        <4>2. p # blocked[w]
          BY <1>1, <4>1
        <4>3. QED
          BY <1>1, <3>1, <4>1, <4>2 DEF Sent
      <3>2. QED
        BY <1>1, <2>3, <3>1 DEF Putting, Unsent
    <2>4. QED
      BY <1>1, <2>1, <2>2, <2>3, PipeSteps DEF Put, Taken, PassedOn
  <1>4. QED
    BY <1>2, <1>3 DEF Drained

\* A stage ends only when it has no more to do, unless the context is done.
LEMMA NextSpent ==
  ASSUME PInv, Spent, [Next]_vars
  PROVE  Spent'
  <1>1. /\ Types /\ TPipes /\ TFirst /\ Manned /\ work \in [Worker -> {"none", "idle", "exited"}]
        /\ job \in [Dir -> {"waiting", "matching", "done"}] /\ todo \in [Dir -> SUBSET File]
        /\ "check" \in Pipe /\ "rename" \in Pipe /\ "upload" \in Pipe
    BY DEF PInv, Types, TWorks, TMarch, Stages, Pipe
  <1>2. SUFFICES ASSUME inCtx' = "live"
                 PROVE  Spent'
    BY DEF Spent
  <1>3. CASE SecondPass
    <2>1. main' = "march" /\ (\A d \in Dir : job'[d] = "waiting") /\ \A w \in Worker : work'[w] # "exited"
      BY <1>3 DEF SecondPass, Started
    <2>2. QED
      BY <2>1, Distinct DEF Spent, Before
  <1>4. CASE ~SecondPass
    <2>1. inCtx = "live"
      BY <1>1, <1>2, <1>4, WasLive
    <2>2. \A d \in Dir : job'[d] = "done" => todo'[d] = {}
      <3>1. CASE UNCHANGED march
        BY <2>1, <3>1 DEF Spent, march
      <3>2. ASSUME NEW e \in Dir, Marching(e)
            PROVE  \A d \in Dir : job'[d] = "done" => todo'[d] = {}
        <4>1. CASE List(e)
          BY <1>1, <2>1, <4>1 DEF List, Spent
        <4>2. CASE JobDone(e)
          BY <1>1, <2>1, <4>2 DEF JobDone, Spent
        <4>3. ASSUME NEW f \in File, Called(e, f)
              PROVE  \A d \in Dir : job'[d] = "done" => todo'[d] = {}
          BY <1>1, <2>1, <4>3 DEF Called, Spent
        <4>4. QED
          BY <2>1, <3>2, <4>1, <4>2, <4>3 DEF Marching, JobAborted, JobDropped, SrcOnly, Match, DstOnly
      <3>3. QED
        BY <1>1, <1>4, <3>1, <3>2, Actors, FootChecking, FootRenaming, FootTransferring, FootPutting, FootDeleting,
           FootLimits, FootMainFirst DEF vars
    <2>3. main' \notin Before => renameCheck' = {}
      <3>1. SUFFICES ASSUME main' \notin Before
                     PROVE  renameCheck' = {}
        OBVIOUS
      <3>2. ASSUME NEW d \in Dir, NEW f \in File, SrcOnly(d, f)
            PROVE  FALSE
        <4>1. job[d] = "matching" /\ main' = main
          BY <3>2 DEF SrcOnly, Called, stage
        <4>2. main = "march"
          BY <1>1, <4>1 DEF Manned
        <4>3. QED
          BY <3>1, <4>1, <4>2 DEF Before
      <3>3. renameCheck' \subseteq renameCheck
        <4>1. renameCheck' \subseteq File
          BY <1>1, NextTNames DEF TNames
        <4>2. QED
          BY <1>1, <1>4, <3>2, <4>1, NewPlaces
      <3>4. CASE main \notin Before
        BY <2>1, <3>3, <3>4 DEF Spent
      <3>5. CASE main \in Before
        <4>1. Marched \/ RenamesSent
          <5>1. main' # main
            BY <3>1, <3>5
          <5>2. Main
            BY <1>1, <5>1, Actors, FootMarching, FootChecking, FootRenaming, FootTransferring, FootPutting, FootDeleting,
               FootLimits DEF vars, stage
          <5>3. QED
            BY <1>4, <3>1, <3>5, <5>1, <5>2 DEF Main, Marched, MakeRenameMap, RenamesSent, Checked, Renamed, TransfersDone,
                 DeletersDone, PumpEnds, AfterDone, Return, OfferRename, Pump, stage, Before
        <4>2. renameCheck = {}
          <5>1. CASE Marched
            BY <3>1, <5>1 DEF Marched, PInv, Modes, Before
          <5>2. QED
            BY <2>1, <4>1, <5>1 DEF RenamesSent
        <4>3. QED
          BY <3>3, <4>2
      <3>6. QED
        BY <3>4, <3>5
    <2>4. /\ Drained("check") => Drained("check")'
          /\ Drained("rename") => Drained("rename")'
          /\ Drained("upload") => Drained("upload")'
      BY <1>1, <1>4, DrainedStays
    <2>5. \A w \in Worker : work'[w] = "exited" =>
             \/ work[w] = "exited"
             \/ w \in Checker /\ Drained("check")
             \/ w \in Renamer /\ Drained("rename")
             \/ w \in Transfer /\ Drained("upload")
      <3>1. CASE UNCHANGED work
        BY <3>1
      <3>2. ASSUME NEW w \in Worker, NEW p \in Pipe, Exit(w, p)
            PROVE  Drained(p) /\ \A v \in Worker \ {w} : work'[v] = work[v]
        BY <1>1, <2>1, <3>2 DEF Exit
      <3>3. ASSUME NEW c \in Checker, Checking(c)
            PROVE  UNCHANGED work \/ Exit(c, "check")
        BY <3>3 DEF Checking, Check, works
      <3>4. ASSUME NEW r \in Renamer, Renaming(r)
            PROVE  UNCHANGED work \/ Exit(r, "rename")
        BY <3>4 DEF Renaming, Rename, works
      <3>5. ASSUME NEW t \in Transfer, Transferring(t)
            PROVE  UNCHANGED work \/ Exit(t, "upload")
        BY <3>5 DEF Transferring, TransferStart, TransferCopied, TransferOK, TransferFailed, TransferLimit
      <3>6. ASSUME NEW w \in Producer, Putting(w)
            PROVE  UNCHANGED work
        BY <2>1, <3>6 DEF Putting, Sent, Unsent, GivesUp, works
      <3>7. CASE Main
        <4>1. CASE Checked
          <5>1. \A w \in Worker : work'[w] = work[w] \/ work'[w] = "idle"
            BY <1>1, <4>1 DEF Checked
          <5>2. QED
            BY <5>1
        <4>2. CASE ~Checked
          BY <1>4, <3>1, <3>7, <4>2 DEF Main, Marched, MakeRenameMap, RenamesSent, Renamed, TransfersDone, DeletersDone,
               PumpEnds, AfterDone, Return, OfferRename, Pump, works
        <4>3. QED
          BY <4>1, <4>2
      <3>8. CASE (\E d \in Dir : Marching(d)) \/ Deleting \/ Deadline \/ Cancel \/ UNCHANGED vars
        BY <3>1, <3>8, FootMarching, FootDeleting, FootLimits DEF vars, works
      <3>9. QED
        BY <1>1, <3>1, <3>2, <3>3, <3>4, <3>5, <3>6, <3>7, <3>8, Actors, Distinct
    <2>6. QED
      BY <2>1, <2>2, <2>3, <2>4, <2>5, Distinct DEF Spent
  <1>5. QED
    BY <1>3, <1>4

\* A Put counts its pair and the producer.
LEMMA CoverPut ==
  ASSUME NEW Q, IsFiniteSet(Q), NEW T \in Nat, NEW W, Covered(Q, T, W), IsFiniteSet(W), NEW x, NEW w, w \notin W
  PROVE  Covered(Q \cup {x}, T, W \cup {w})
  <1>1. Cardinality(Q) \in Nat /\ Cardinality(W) \in Nat
    BY FS_CardinalityType
  <1>2. Cardinality(W \cup {w}) = Cardinality(W) + 1
    BY FS_AddElement
  <1>3. Cardinality(Q \cup {x}) \in {Cardinality(Q), Cardinality(Q) + 1}
    BY FS_AddElement
  <1>4. Cardinality(Q \cup {x}) \in Nat
    BY FS_AddElement, FS_CardinalityType
  <1>5. QED
    BY <1>1, <1>2, <1>3, <1>4 DEF Covered

\* A Get counts a token and a pair less.
LEMMA CoverGet ==
  ASSUME NEW Q, IsFiniteSet(Q), NEW T \in Nat, T > 0, NEW W, Covered(Q, T, W), IsFiniteSet(W), NEW x \in Q
  PROVE  Covered(Q \ {x}, T - 1, W)
  <1>1. Cardinality(Q) \in Nat /\ Cardinality(W) \in Nat
    BY FS_CardinalityType
  <1>2. Cardinality(Q \ {x}) = Cardinality(Q) - 1
    BY FS_RemoveElement
  <1>3. QED
    BY <1>1, <1>2 DEF Covered

\* A producer that waited has sent its token.
LEMMA CoverSent ==
  ASSUME NEW Q, IsFiniteSet(Q), NEW T \in Nat, NEW W, Covered(Q, T, W), IsFiniteSet(W), NEW w \in W
  PROVE  Covered(Q, T + 1, W \ {w})
  <1>1. Cardinality(Q) \in Nat /\ Cardinality(W) \in Nat
    BY FS_CardinalityType
  <1>2. Cardinality(W \ {w}) = Cardinality(W) - 1
    BY FS_RemoveElement
  <1>3. QED
    BY <1>1, <1>2 DEF Covered

\* Each step keeps the pairs covered.
LEMMA NextCovers ==
  ASSUME PInv, Covers, [Next]_vars
  PROVE  Covers'
  <1>1. /\ queue \in [Pipe -> SUBSET Pair] /\ tokens \in [Pipe -> Nat] /\ blocked \in [Producer -> Pipe \cup {Nobody}]
        /\ "upload" \in Pipe /\ "check" \in Pipe /\ "rename" \in Pipe /\ Nobody \notin Pipe /\ Types /\ TPipes
    BY DEF PInv, Types, TPipes, Pipe, Nobody
  <1>2. SUFFICES ASSUME inCtx' = "live"
                 PROVE  \A p \in Pipe : Covered(queue'[p], tokens'[p], Waiting(p)')
    BY DEF Covers
  <1>3. CASE SecondPass
    <2>1. \A p \in Pipe : queue'[p] = {} /\ tokens'[p] = 0
      BY <1>3 DEF SecondPass
    <2>2. \A v \in Producer : blocked'[v] = Nobody
      BY <1>3 DEF SecondPass, Unblocked
    <2>3. \A p \in Pipe : Waiting(p)' = {}
      BY <1>1, <2>2 DEF Waiting
    <2>4. QED
      BY <2>1, <2>3, FS_EmptySet DEF Covered
  <1>4. CASE ~SecondPass
    <2>1. inCtx = "live"
      BY <1>1, <1>2, <1>4, WasLive
    <2>2. \A p \in Pipe : /\ IsFiniteSet(Waiting(p)) /\ IsFiniteSet(queue[p]) /\ tokens[p] \in Nat
                          /\ Covered(queue[p], tokens[p], Waiting(p))
      <3>1. \A p \in Pipe : Waiting(p) \subseteq Producer
        BY DEF Waiting
      <3>2. QED
        BY <1>1, <2>1, <3>1, WaitingFinite DEF Covers, PInv, Counts, Counted
    <2>3. CASE UNCHANGED <<queue, tokens, blocked>>
      BY <2>2, <2>3 DEF Waiting
    <2>4. ASSUME NEW who \in Producer, NEW p \in Pipe, NEW pair \in Pair, Put(who, p, pair), blocked[who] = Nobody
          PROVE  \A q \in Pipe : Covered(queue'[q], tokens'[q], Waiting(q)')
      <3>1. /\ queue'[p] = queue[p] \cup {pair} /\ tokens' = tokens
            /\ \A q \in Pipe \ {p} : queue'[q] = queue[q]
        BY <1>1, <2>4 DEF Put
      <3>2. blocked'[who] = p /\ \A w \in Producer \ {who} : blocked'[w] = blocked[w]
        BY <1>1, <2>4 DEF Put
      <3>3. /\ Waiting(p)' = Waiting(p) \cup {who} /\ who \notin Waiting(p)
            /\ \A q \in Pipe \ {p} : Waiting(q)' = Waiting(q)
        BY <1>1, <2>4, <3>2 DEF Waiting
      <3>4. Covered(queue[p] \cup {pair}, tokens[p], Waiting(p) \cup {who})
        BY <2>2, <3>3, CoverPut
      <3>5. QED
        BY <2>2, <3>1, <3>3, <3>4
    <2>5. ASSUME NEW p \in Pipe, NEW pair \in Pair, Taken(p, pair), tokens[p] > 0, pair \in queue[p]
          PROVE  \A q \in Pipe : Covered(queue'[q], tokens'[q], Waiting(q)')
      <3>1. /\ queue'[p] = queue[p] \ {pair} /\ tokens'[p] = tokens[p] - 1 /\ blocked' = blocked
            /\ \A q \in Pipe \ {p} : queue'[q] = queue[q] /\ tokens'[q] = tokens[q]
        BY <1>1, <2>5 DEF Taken
      <3>2. \A q \in Pipe : Waiting(q)' = Waiting(q)
        BY <3>1 DEF Waiting
      <3>3. Covered(queue'[p], tokens'[p], Waiting(p)')
        BY <2>2, <2>5, <3>1, <3>2, CoverGet
      <3>4. QED
        BY <2>2, <3>1, <3>2, <3>3
    <2>6. ASSUME NEW w \in Producer, NEW p \in {"check", "rename"}, NEW pair \in Pair, NEW new \in Pair,
                 PassedOn(w, p, pair, "upload", new), tokens[p] > 0, pair \in queue[p], blocked[w] = Nobody
          PROVE  \A q \in Pipe : Covered(queue'[q], tokens'[q], Waiting(q)')
      <3>1. p \in Pipe /\ p # "upload"
        BY DEF Pipe
      <3>2. /\ queue'[p] = queue[p] \ {pair} /\ queue'["upload"] = queue["upload"] \cup {new}
            /\ tokens'[p] = tokens[p] - 1 /\ tokens'["upload"] = tokens["upload"]
            /\ \A q \in Pipe \ {p, "upload"} : queue'[q] = queue[q] /\ tokens'[q] = tokens[q]
        BY <1>1, <2>6, <3>1 DEF PassedOn
      <3>3. blocked'[w] = "upload" /\ \A v \in Producer \ {w} : blocked'[v] = blocked[v]
        BY <1>1, <2>6 DEF PassedOn
      <3>4. /\ Waiting("upload")' = Waiting("upload") \cup {w} /\ w \notin Waiting("upload")
            /\ \A q \in Pipe \ {"upload"} : Waiting(q)' = Waiting(q)
        BY <1>1, <2>6, <3>3 DEF Waiting
      <3>5. Covered(queue["upload"] \cup {new}, tokens["upload"], Waiting("upload") \cup {w})
        BY <1>1, <2>2, <3>4, CoverPut
      <3>6. Covered(queue'[p], tokens'[p], Waiting(p)')
        BY <2>2, <2>6, <3>1, <3>2, <3>4, CoverGet
      <3>7. QED
        BY <2>2, <3>2, <3>4, <3>5, <3>6
    <2>7. ASSUME NEW w \in Producer, Putting(w)
          PROVE  \A q \in Pipe : Covered(queue'[q], tokens'[q], Waiting(q)')
      <3>1. Sent(w)
        BY <2>1, <2>7 DEF Putting, Unsent, GivesUp
      <3>2. PICK p \in Pipe : blocked[w] = p
        BY <1>1, <3>1 DEF Sent
      <3>3. queue' = queue /\ blocked'[w] = Nobody /\ \A v \in Producer \ {w} : blocked'[v] = blocked[v]
        BY <1>1, <3>1 DEF Sent
      <3>4. tokens'[p] = tokens[p] + 1 /\ \A q \in Pipe \ {p} : tokens'[q] = tokens[q]
        BY <1>1, <3>1, <3>2 DEF Sent
      <3>5. /\ Waiting(p)' = Waiting(p) \ {w} /\ w \in Waiting(p)
            /\ \A q \in Pipe \ {p} : Waiting(q)' = Waiting(q)
        BY <1>1, <3>2, <3>3 DEF Waiting
      <3>6. Covered(queue'[p], tokens'[p], Waiting(p)')
        BY <2>2, <3>3, <3>4, <3>5, CoverSent
      <3>7. QED
        BY <2>2, <3>3, <3>4, <3>5, <3>6
    <2>8. QED
      BY <1>1, <1>4, <2>3, <2>4, <2>5, <2>6, <2>7, PipeSteps, Distinct
  <1>5. QED
    BY <1>3, <1>4

\* A job that ends returns the error of its listing, unless the context is done.
LEMMA NextKnown ==
  ASSUME Types, Sound, Known, [Next]_vars
  PROVE  Known'
  <1>1. /\ TPipes /\ job \in [Dir -> {"waiting", "matching", "done"}] /\ failed \in [Dir -> SUBSET {"src", "dst"}]
        /\ jobErr \in {"none", "err", "canceled", "deadline"}
    BY DEF Types, TMarch
  <1>2. CASE SecondPass
    BY <1>2 DEF SecondPass, Known
  <1>3. CASE ~SecondPass
    <2>1. inCtx' = "live" => inCtx = "live"
      BY <1>1, <1>3, WasLive
    <2>2. CASE UNCHANGED march
      BY <2>1, <2>2 DEF Known, march
    <2>3. ASSUME NEW d \in Dir, Marching(d)
          PROVE  Known'
      <3>1. CASE List(d)
        BY <1>1, <2>1, <3>1 DEF List, Known
      <3>2. CASE JobDone(d)
        <4>1. jobErr # "none" => jobErr' # "none"
          BY <1>1, <3>2 DEF JobDone, Joined, JobError
        <4>2. failed[d] # {} /\ inCtx = "live" => jobErr' # "none"
          BY <1>1, <3>2 DEF JobDone, Joined, JobError
        <4>3. QED
          BY <1>1, <2>1, <3>2, <4>1, <4>2 DEF JobDone, Known
      <3>3. CASE JobAborted(d) \/ JobDropped(d)
        <4>1. inCtx' # "live"
          BY <2>1, <3>3 DEF JobAborted, JobDropped
        <4>2. QED
          BY <4>1 DEF Known
      <3>4. ASSUME NEW f \in File, Called(d, f)
            PROVE  Known'
        BY <2>1, <3>4 DEF Called, Known
      <3>5. QED
        BY <2>3, <3>1, <3>2, <3>3, <3>4 DEF Marching, SrcOnly, Match, DstOnly
    <2>4. QED
      BY <1>1, <1>3, <2>2, <2>3, Actors, FootChecking, FootRenaming, FootTransferring, FootPutting, FootDeleting,
         FootLimits, FootMainFirst DEF vars
  <1>4. QED
    BY <1>2, <1>3

\* Only --max-duration makes a deadline, and a hard one is one for everybody.
LEMMA NextHard ==
  ASSUME Types, Hard, [Next]_vars
  PROVE  Hard'
  <1>1. TPipes /\ opt' = opt
    BY SameFirst DEF Types
  <1>2. CASE SecondPass
    BY <1>2 DEF SecondPass, Hard
  <1>3. CASE ~SecondPass
    <2>1. ctx' = "live" => ctx = "live"
      BY <1>1, <1>3, WasLive
    <2>2. CASE Deadline
      <3>1. opt.cutoff \in {"off", "soft", "hard"}
        BY SyncAssumption DEF Types, TFirst, Option
      <3>2. QED
        BY <1>1, <2>2, <3>1 DEF Deadline, Hard
    <2>3. CASE ~Deadline
      <3>1. inCtx' # "deadline" \/ inCtx' = inCtx
        <4>1. ASSUME NEW err, NEW count, Report(err, count)
              PROVE  inCtx' # "deadline" \/ inCtx' = inCtx
          BY <4>1 DEF Report
        <4>2. CASE \/ \E d \in Dir : Marching(d)
                   \/ \E r \in Renamer : Renaming(r)
                   \/ \E w \in Producer : Putting(w)
                   \/ UNCHANGED vars
          BY <4>2, FootMarching, FootPutting DEF vars, errors, Renaming, Exit, Rename, NoError
        <4>3. ASSUME NEW c \in Checker, Checking(c)
              PROVE  inCtx' # "deadline" \/ inCtx' = inCtx
          BY <4>1, <4>3 DEF Checking, Exit, Check, NoError, errors
        <4>4. ASSUME NEW t \in Transfer, Transferring(t)
              PROVE  inCtx' # "deadline" \/ inCtx' = inCtx
          BY <4>1, <4>4 DEF Transferring, Exit, TransferStart, TransferCopied, TransferOK, TransferFailed, TransferLimit, errors
        <4>5. CASE Deleting
          BY <4>1, <4>5 DEF Deleting, DeletersReturn, DeleteOne
        <4>6. CASE Main
          BY <1>3, <4>1, <4>6 DEF Main, Marched, MakeRenameMap, RenamesSent, Checked, Renamed, TransfersDone,
               DeletersDone, PumpEnds, AfterDone, Return, OfferRename, Pump, errors
        <4>7. CASE Cancel
          BY <4>7 DEF Cancel
        <4>8. QED
          BY <1>1, <2>3, <4>2, <4>3, <4>4, <4>5, <4>6, <4>7, Actors
      <3>2. QED
        BY <1>1, <2>1, <3>1 DEF Hard
    <2>4. QED
      BY <2>2, <2>3
  <1>4. QED
    BY <1>2, <1>3

-----------------------------------------------------------------------------
(* The parts of the invariant: the files in the stages *)

\* What is to be checked, renamed or transferred is on the source.
Sourced ==
  \A f \in File :
    f \in renameCheck \/ (\E p \in Pipe : Queued(p, f)) \/ (\E t \in Transfer : Handled(t, f)) => src0[f] # Absent

\* What is to be deleted is not, unless the listing of the source failed.
Extras == \A f \in File : Doomed(f) => src0[f] = Absent \/ "src" \in failed[DirOf[f]]

\* A name that the march calls back for has not been worked on.
LEMMA UncalledKept ==
  ASSUME SrcKept, NEW f \in File, Uncalled(f)
  PROVE  src[f] = src0[f] /\ ~Nowhere(f)
  <1>1. "uncalled" \in Kind /\ "" \in Name /\ At("uncalled", "", f)
    BY DEF Kind, Name, At
  <1>2. QED
    BY <1>1 DEF SrcKept, Nowhere

\* Only files of the source get into the stages.
LEMMA NextSourced ==
  ASSUME LInv, Sourced, [Next]_vars
  PROVE  Sourced'
  <1>1. Types /\ TPipes /\ Modes /\ SrcKept /\ Pipe = {"check", "rename", "upload"}
    BY DEF LInv, QInv, PInv, Types, Pipe
  <1>2. src0' = src0
    BY <1>1, SameFirst
  <1>3. CASE SecondPass
    <2>1. /\ \A p \in Pipe : queue'[p] = {}
          /\ \A t \in Transfer : busy'[t] = {}
          /\ renameCheck' = renameCheck
      BY <1>3 DEF SecondPass, renames
    <2>2. QED
      BY <1>2, <2>1 DEF Sourced, Queued, Handled
  <1>4. CASE ~SecondPass
    <2>1. \A f \in File, d \in Dir : SrcOnly(d, f) \/ Match(d, f) => src0[f] # Absent
      BY <1>1 DEF SrcOnly, Match, InSrc, SrcKept, Moved
    <2>2. \A f \in File : f \in renameCheck' => src0[f] # Absent
      BY <1>1, <1>4, <2>1, NewPlaces DEF Sourced
    <2>3. \A f \in File : Queued("check", f)' => src0[f] # Absent
      <3>1. \A f \in File : Queued("check", f)' => Queued("check", f) \/ \E d \in Dir : Match(d, f)
        BY <1>1, <1>4, NewPlaces DEF Queued
      <3>2. QED
        BY <1>1, <2>1, <3>1 DEF Sourced
    <2>4. \A f \in File : Queued("rename", f)' => src0[f] # Absent
      <3>1. \A f \in File : Queued("rename", f)' => Queued("rename", f) \/ OfferRename(f)
        BY <1>1, <1>4, NewPlaces DEF Queued
      <3>2. \A f \in File : OfferRename(f) => f \in renameCheck
        BY DEF OfferRename
      <3>3. QED
        BY <1>1, <3>1, <3>2 DEF Sourced
    <2>5. \A f \in File : Queued("upload", f)' => src0[f] # Absent
      <3>1. \A f \in File :
              Queued("upload", f)' =>
                \/ Queued("upload", f) \/ Queued("check", f) \/ Queued("rename", f)
                \/ \E d \in Dir : SrcOnly(d, f)
        BY <1>1, <1>4, NewPlaces DEF Queued
      <3>2. QED
        BY <1>1, <2>1, <3>1 DEF Sourced
    <2>6. \A f \in File, t \in Transfer : Handled(t, f)' => src0[f] # Absent
      <3>1. \A f \in File, t \in Transfer : Handled(t, f)' => Handled(t, f) \/ Queued("upload", f)
        BY <1>1, <1>4, NewPlaces DEF Handled, Queued
      <3>2. QED
        BY <1>1, <3>1 DEF Sourced
    <2>7. \A f \in File, p \in Pipe : Queued(p, f)' => src0[f] # Absent
      BY <1>1, <2>3, <2>4, <2>5
    <2>8. QED
      BY <1>2, <2>2, <2>6, <2>7 DEF Sourced
  <1>5. QED
    BY <1>3, <1>4

\* Only files that the source does not seem to have are to be deleted.
LEMMA NextExtras ==
  ASSUME LInv, Sound, Extras, [Next]_vars
  PROVE  Extras'
  <1>1. Types /\ TPipes /\ Modes /\ Stages /\ OnePlace /\ OnePair /\ SrcKept /\ DirOf \in [File -> Dir]
    BY SyncAssumption DEF LInv, QInv, PInv, Types
  <1>2. src0' = src0
    BY <1>1, SameFirst
  <1>3. CASE SecondPass
    <2>1. dels' = {} /\ dstFiles' = dstFiles /\ dstFiles = {}
      BY <1>1, <1>3 DEF SecondPass, Modes
    <2>2. QED
      BY <2>1 DEF Extras, Doomed
  <1>4. CASE ~SecondPass
    <2>1. \A f \in File, d \in Dir : DstOnly(d, f) => src0[f] = Absent \/ "src" \in failed[DirOf[f]]
      <3>1. \A f \in File, d \in Dir : DstOnly(d, f) => Uncalled(f)
        BY <1>1, CalledPlace
      <3>2. \A f \in File, d \in Dir : DstOnly(d, f) => src[f] = Absent \/ "src" \in failed[DirOf[f]]
        BY DEF DstOnly, InSrc
      <3>3. QED
        BY <1>1, <3>1, <3>2, UncalledKept
    <2>2. \A f \in File : Doomed(f)' => src0[f] = Absent \/ "src" \in failed[DirOf[f]]
      BY <1>1, <1>4, <2>1, NewPlaces DEF Extras
    <2>3. \A f \in File : "src" \in failed[DirOf[f]] => "src" \in failed'[DirOf[f]]
      BY <1>1, <1>4, FailedStays
    <2>4. QED
      BY <1>2, <2>2, <2>3 DEF Extras
  <1>5. QED
    BY <1>3, <1>4

-----------------------------------------------------------------------------
(* The parts of the invariant: the deleters *)

\* Where the deleters are, what they have left, and that their error is known
\* when they have returned.
Deletion ==
  /\ deleters = "open" => (mode \in {"during", "only"} /\ main \notin Finish) \/ (mode = "after" /\ main = "after")
  /\ deleters = "closed" => main \in {"deletes", "after"}
  /\ mode \in {"during", "only"} => deleters # "off"
  /\ deleters = "returned" /\ delErr # "fatal" => dels = {} /\ main \in Finish
  /\ mode = "after" /\ deleters \in {"closed", "returned"} /\ ctx = "live" /\ delErr # "fatal" => dstFiles = {}
  /\ mode = "after" /\ main \in {"end", "returned"} /\ errs = {} => deleters = "returned"
  /\ dead > 0 => delErr = "fatal"
  /\ deleters = "returned" /\ delErr # "none" => errs # {}

\* Each step keeps this.
LEMMA NextDeletion ==
  ASSUME Types, Modes, Stages, Deletion, [Next]_vars
  PROVE  Deletion'
  <1>1. /\ TPipes /\ Manned /\ TStage /\ deleters \in {"off", "open", "closed", "returned"}
        /\ dead \in 0 .. Cardinality(Checker) /\ delErr \in {"none", "err", "fatal"}
    BY DEF Types, TDeletes, Stages
  <1>2. CASE SecondPass
    BY <1>2 DEF SecondPass, Deletion
  <1>3. CASE ~SecondPass
    <2>1. (ctx' = "live" => ctx = "live") /\ (errs' = {} => errs = {})
      BY <1>1, <1>3, WasLive
    <2>2. ASSUME UNCHANGED <<mode, main, deleters, delErr, dead>>, dels' \subseteq dels, dstFiles' \subseteq dstFiles
          PROVE  Deletion'
      BY <2>1, <2>2 DEF Deletion
    <2>3. ASSUME NEW d \in Dir, Marching(d)
          PROVE  Deletion'
      <3>1. UNCHANGED <<mode, main, deleters, delErr, dead>>
        BY <2>3, FootMarching DEF stage
      <3>2. CASE \E f \in File : DstOnly(d, f)
        <4>1. job[d] = "matching"
          BY <3>2 DEF DstOnly, Called
        <4>2. main = "march"
          BY <1>1, <4>1 DEF Manned
        <4>3. mode = "after" => deleters = "off"
          BY <4>2 DEF Modes
        <4>4. QED
          BY <2>1, <3>1, <4>2, <4>3 DEF Deletion, Finish
      <3>3. CASE ~ \E f \in File : DstOnly(d, f)
        <4>1. UNCHANGED <<dels, dstFiles>>
          BY <2>3, <3>3 DEF Marching, List, JobDone, JobAborted, JobDropped, SrcOnly, Match, deletes
        <4>2. QED
          BY <2>2, <3>1, <4>1
      <3>4. QED
        BY <3>2, <3>3
    <2>4. ASSUME NEW r \in Renamer, Renaming(r)
          PROVE  Deletion'
      <3>1. UNCHANGED <<mode, main, deleters, delErr, dead, dels>>
        BY <2>4, FootRenaming DEF stage
      <3>2. dstFiles' \subseteq dstFiles
        BY <2>4 DEF Renaming, Exit, Rename, deletes
      <3>3. QED
        BY <2>2, <3>1, <3>2
    <2>5. CASE \/ \E c \in Checker : Checking(c)
               \/ \E t \in Transfer : Transferring(t)
               \/ \E w \in Producer : Putting(w)
               \/ Deadline \/ Cancel \/ UNCHANGED vars
      <3>1. UNCHANGED <<mode, main, deleters, delErr, dead, dels, dstFiles>>
        BY <2>5, FootChecking, FootTransferring, FootPutting, FootLimits DEF vars, stage, deletes
      <3>2. QED
        BY <2>2, <3>1
    <2>6. ASSUME NEW f \in File, DeleteOne(f)
          PROVE  Deletion'
      <3>1. UNCHANGED <<mode, main, deleters, dstFiles>> /\ deleters \in {"open", "closed"}
        BY <2>6 DEF DeleteOne, stage
      <3>2. (delErr = "fatal" => delErr' = "fatal") /\ (dead' > 0 => dead > 0 \/ delErr' = "fatal")
        BY <2>6 DEF DeleteOne
      <3>3. QED
        BY <2>1, <3>1, <3>2 DEF Deletion
    <2>7. CASE DeletersReturn
      <3>1. UNCHANGED <<mode, main, delErr, dead, dels, dstFiles>> /\ deleters' = "returned"
        BY <2>7 DEF DeletersReturn, stage
      <3>2. AllDead => delErr = "fatal"
        <4>1. Cardinality(Checker) \in Nat /\ Cardinality(Checker) # 0
          BY SyncAssumption, FS_CardinalityType, FS_EmptySet
        <4>2. QED
          BY <1>1, <4>1 DEF AllDead, Deletion
      <3>3. delErr # "fatal" => deleters = "closed" /\ dels = {}
        BY <2>7, <3>2 DEF DeletersReturn, AllRead
      <3>4. delErr # "none" => errs' # {}
        <4>1. delErr # "none" => Class(delErr) # {}
          BY <1>1, ClassFacts
        <4>2. QED
          BY <2>7, <4>1 DEF DeletersReturn, Report
      <3>5. QED
        BY <2>1, <3>1, <3>3, <3>4 DEF Deletion, Finish
    <2>8. CASE Main
      <3>1. UNCHANGED <<mode, dead, delErr>>
        BY <1>3, <2>8, FootMainFirst
      <3>2. CASE Marched \/ MakeRenameMap \/ RenamesSent \/ Checked \/ Renamed
        <4>1. UNCHANGED <<deleters, dels, dstFiles>> /\ main \notin Finish /\ main' \notin Finish
          BY <3>2 DEF Marched, MakeRenameMap, RenamesSent, Checked, Renamed, deletes, Finish
        <4>2. QED
          BY <2>1, <3>1, <4>1 DEF Deletion, Finish
      <3>3. CASE TransfersDone
        <4>1. /\ UNCHANGED <<dels, dstFiles>> /\ main = "transfers" /\ main' = "deletes"
              /\ deleters' = IF deleters = "open" THEN "closed" ELSE deleters
          BY <3>3 DEF TransfersDone
        <4>2. mode = "after" => deleters = "off"
          BY <4>1 DEF Modes
        <4>3. QED
          BY <2>1, <3>1, <4>1, <4>2 DEF Deletion, Finish
      <3>4. CASE DeletersDone
        <4>1. UNCHANGED <<dels, dstFiles>> /\ main = "deletes" /\ deleters \in {"off", "returned"}
          BY <3>4 DEF DeletersDone
        <4>2. CASE mode # "after"
          <5>1. main' = "end" /\ deleters' = deleters
            BY <3>4, <4>2 DEF DeletersDone
          <5>2. QED
            BY <2>1, <3>1, <4>1, <4>2, <5>1 DEF Deletion, Finish
        <4>3. CASE mode = "after" /\ ~MayDelete
          <5>1. main' = "end" /\ deleters' = deleters /\ Report(IF errs = {} THEN "err" ELSE "none", FALSE)
            BY <3>4, <4>3 DEF DeletersDone
          <5>2. Class("err") # {}
            BY ClassFacts
          <5>3. errs' # {}
            BY <5>1, <5>2 DEF Report
          <5>4. QED
            BY <2>1, <3>1, <4>1, <4>3, <5>1, <5>3 DEF Deletion, Finish
        <4>4. CASE mode = "after" /\ MayDelete
          <5>1. main' = "after" /\ deleters' = "open"
            BY <3>4, <4>4 DEF DeletersDone
          <5>2. QED
            BY <2>1, <3>1, <4>1, <4>4, <5>1 DEF Deletion, Finish
        <4>5. QED
          BY <4>2, <4>3, <4>4
      <3>5. ASSUME NEW f \in File, Pump(f)
            PROVE  Deletion'
        <4>1. main' = main /\ deleters' = deleters /\ deleters = "open"
          BY <3>5 DEF Pump, stage
        <4>2. QED
          BY <2>1, <3>1, <4>1 DEF Deletion
      <3>6. CASE PumpEnds
        <4>1. /\ main' = main /\ main = "after" /\ deleters' = "closed" /\ dstFiles' = dstFiles
              /\ dstFiles = {} \/ ctx # "live"
          BY <3>6 DEF PumpEnds, stage
        <4>2. QED
          BY <2>1, <3>1, <4>1 DEF Deletion, Finish
      <3>7. CASE AfterDone
        <4>1. UNCHANGED <<deleters, dels, dstFiles>> /\ main = "after" /\ main' = "end" /\ deleters = "returned"
          BY <3>7 DEF AfterDone, deletes
        <4>2. QED
          BY <2>1, <3>1, <4>1 DEF Deletion, Finish
      <3>8. CASE Return
        <4>1. UNCHANGED <<deleters, dels, dstFiles>> /\ main = "end" /\ main' = "returned"
          BY <3>8 DEF Return, deletes
        <4>2. QED
          BY <2>1, <3>1, <4>1 DEF Deletion, Finish
      <3>9. ASSUME NEW f \in File, OfferRename(f)
            PROVE  Deletion'
        <4>1. UNCHANGED <<main, deleters, dels, dstFiles>>
          BY <3>9 DEF OfferRename, deletes, stage
        <4>2. QED
          BY <2>2, <3>1, <4>1
      <3>10. QED
        BY <1>3, <2>8, <3>2, <3>3, <3>4, <3>5, <3>6, <3>7, <3>8, <3>9 DEF Main
    <2>9. QED
      BY <1>1, <2>3, <2>4, <2>5, <2>6, <2>7, <2>8, Actors DEF Deleting
  <1>4. QED
    BY <1>2, <1>3

-----------------------------------------------------------------------------
(* How a file leaves the run *)

\* The places, one by one.
LEMMA Places ==
  ASSUME NEW f \in File
  PROVE  Nowhere(f) <=> /\ ~Uncalled(f) /\ f \notin renameCheck /\ ~Doomed(f)
                        /\ \A p \in Pipe : ~Queued(p, f)
                        /\ \A t \in Transfer : ~Handled(t, f)
  <1>1. ASSUME Nowhere(f)
        PROVE  /\ ~Uncalled(f) /\ f \notin renameCheck /\ ~Doomed(f)
               /\ \A p \in Pipe : ~Queued(p, f)
               /\ \A t \in Transfer : ~Handled(t, f)
    BY <1>1 DEF Nowhere, At, Kind, Name
  <1>2. ASSUME ~Uncalled(f), f \notin renameCheck, ~Doomed(f),
               \A p \in Pipe : ~Queued(p, f), \A t \in Transfer : ~Handled(t, f)
        PROVE  Nowhere(f)
    BY <1>2 DEF Nowhere, At
  <1>3. QED
    BY <1>1, <1>2

\* The same after a step.
LEMMA PlacesNext ==
  ASSUME NEW f \in File
  PROVE  Nowhere(f)' <=> /\ ~Uncalled(f)' /\ f \notin renameCheck' /\ ~Doomed(f)'
                         /\ \A p \in Pipe : ~Queued(p, f)'
                         /\ \A t \in Transfer : ~Handled(t, f)'
  <1>1. ASSUME Nowhere(f)'
        PROVE  /\ ~Uncalled(f)' /\ f \notin renameCheck' /\ ~Doomed(f)'
               /\ \A p \in Pipe : ~Queued(p, f)'
               /\ \A t \in Transfer : ~Handled(t, f)'
    BY <1>1 DEF Nowhere, At, Kind, Name
  <1>2. ASSUME ~Uncalled(f)', f \notin renameCheck', ~Doomed(f)',
               \A p \in Pipe : ~Queued(p, f)', \A t \in Transfer : ~Handled(t, f)'
        PROVE  Nowhere(f)'
    BY <1>2 DEF Nowhere, At
  <1>3. QED
    BY <1>1, <1>2

\* A name leaves the march when its directory is listed without it, or with the
\* callback, which puts it somewhere else if it was on the source.
LEMMA MarchingVanish ==
  ASSUME Types, OnePair, NEW d \in Dir, Marching(d), inCtx = "live", ctx = "live",
         NEW f \in File, ~Nowhere(f), Nowhere(f)'
  PROVE  /\ Uncalled(f)
         /\ \/ List(d) /\ DirOf[f] = d /\ f \notin todo'[d]
            \/ (SrcOnly(d, f) \/ Match(d, f)) /\ mode = "only"
            \/ DstOnly(d, f)
  <1>1. /\ queue \in [Pipe -> SUBSET Pair] /\ Pipe = {"check", "rename", "upload"} /\ DirOf \in [File -> Dir]
        /\ job \in [Dir -> {"waiting", "matching", "done"}] /\ todo \in [Dir -> SUBSET File]
    BY SyncAssumption DEF Types, TPipes, TMarch, Pipe
  <1>2. UNCHANGED busy
    BY FootMarching DEF works
  <1>3. /\ renameCheck \subseteq renameCheck' /\ dels \cup dstFiles \subseteq dels' \cup dstFiles'
    BY DEF Marching, List, JobDone, JobAborted, JobDropped, SrcOnly, Match, DstOnly, renames, deletes
  <1>4. \A p \in Pipe : queue[p] \subseteq queue'[p]
    BY <1>1, MarchingPipes DEF Put
  <1>5. Uncalled(f) /\ ~Uncalled(f)'
    BY <1>2, <1>3, <1>4, Places, PlacesNext DEF Doomed, Queued, Handled
  <1>6. CASE List(d)
    <2>1. \A e \in Dir \ {d} : job'[e] = job[e] /\ todo'[e] = todo[e]
      BY <1>1, <1>6 DEF List
    <2>2. DirOf[f] = d
      BY <1>1, <1>5, <2>1 DEF Uncalled
    <2>3. QED
      BY <1>5, <1>6, <2>2 DEF Uncalled
  <1>7. CASE JobDone(d) \/ JobAborted(d) \/ JobDropped(d)
    <2>1. todo' = todo /\ job' = [job EXCEPT ![d] = "done"] /\ job[d] = "matching"
      BY <1>7 DEF JobDone, JobAborted, JobDropped
    <2>2. QED
      BY <1>1, <1>5, <2>1 DEF Uncalled
  <1>8. ASSUME NEW g \in File, SrcOnly(d, g) \/ Match(d, g) \/ DstOnly(d, g)
        PROVE  /\ f = g
               /\ \/ (SrcOnly(d, f) \/ Match(d, f)) /\ mode = "only"
                  \/ DstOnly(d, f)
    <2>1. job' = job /\ todo' = [todo EXCEPT ![d] = @ \ {g}]
      BY <1>8 DEF SrcOnly, Match, DstOnly, Called
    <2>2. f = g
      BY <1>1, <1>5, <2>1 DEF Uncalled
    <2>3. \A p \in Pipe : \A x \in queue'[p] : x.file # f
      BY PlacesNext DEF Queued
    <2>4. f \notin renameCheck'
      BY PlacesNext
    <2>5. ASSUME SrcOnly(d, f)
          PROVE  mode = "only"
      <3>1. ASSUME queue' = [queue EXCEPT !["upload"] = @ \cup {[file |-> f, to |-> "nil"]}]
            PROVE  FALSE
        <4>1. [file |-> f, to |-> "nil"] \in queue'["upload"] /\ "upload" \in Pipe
          BY <1>1, <3>1
        <4>2. QED
          BY <2>3, <4>1
      <3>2. \/ mode = "only" \/ f \in renameCheck'
            \/ queue' = [queue EXCEPT !["upload"] = @ \cup {[file |-> f, to |-> "nil"]}]
        BY <2>5 DEF SrcOnly, Offer, Put
      <3>3. QED
        BY <2>4, <3>1, <3>2
    <2>6. ASSUME Match(d, f)
          PROVE  mode = "only"
      <3>1. ASSUME queue' = [queue EXCEPT !["check"] = @ \cup {[file |-> f, to |-> "dst"]}]
            PROVE  FALSE
        <4>1. [file |-> f, to |-> "dst"] \in queue'["check"] /\ "check" \in Pipe
          BY <1>1, <3>1
        <4>2. QED
          BY <2>3, <4>1
      <3>2. mode = "only" \/ queue' = [queue EXCEPT !["check"] = @ \cup {[file |-> f, to |-> "dst"]}]
        BY <2>6 DEF Match, Offer, Put
      <3>3. QED
        BY <3>1, <3>2
    <2>7. QED
      BY <1>8, <2>2, <2>5, <2>6
  <1>9. QED
    BY <1>5, <1>6, <1>7, <1>8 DEF Marching

\* A file leaves the run with a callback, the end of a check, a rename or a
\* transfer, or as one that is not wanted any more.
LEMMA Vanishing ==
  ASSUME Types, OnePair, [Next]_vars, ~SecondPass, inCtx = "live", ctx = "live",
         NEW f \in File, ~Nowhere(f), Nowhere(f)'
  PROVE  \/ \E d \in Dir :
              /\ Uncalled(f)
              /\ \/ List(d) /\ DirOf[f] = d /\ f \notin todo'[d]
                 \/ (SrcOnly(d, f) \/ Match(d, f)) /\ mode = "only"
                 \/ DstOnly(d, f)
         \/ \E c \in Checker, pair \in Pair :
              Check(c, pair) /\ pair.file = f /\ pair \in queue["check"] /\ ~Queued("upload", f)'
         \/ \E r \in Renamer, pair \in Pair :
              Rename(r, pair) /\ pair.file = f /\ pair \in queue["rename"] /\ ~Queued("upload", f)'
         \/ Doomed(f)
         \/ \E t \in Transfer, pair \in Pair :
              /\ pair.file = f /\ busy[t] = {pair}
              /\ TransferOK(t, pair) \/ TransferFailed(t, pair) \/ TransferLimit(t, pair)
  <1>1. /\ queue \in [Pipe -> SUBSET Pair] /\ Pipe = {"check", "rename", "upload"} /\ TPipes
        /\ busy \in [Transfer -> {{}} \cup {{pair} : pair \in Pair}]
    BY DEF Types, TPipes, TWorks, Pipe
  <1>2. /\ ~Uncalled(f)' /\ f \notin renameCheck' /\ ~Doomed(f)'
        /\ \A p \in Pipe : ~Queued(p, f)'
        /\ \A t \in Transfer : ~Handled(t, f)'
    BY PlacesNext
  <1>3. \/ Uncalled(f) \/ f \in renameCheck \/ Doomed(f)
        \/ \E p \in Pipe : Queued(p, f)
        \/ \E t \in Transfer : Handled(t, f)
    BY Places
  <1>4. ASSUME UNCHANGED <<job, todo, renameCheck, queue, busy>>
        PROVE  Doomed(f)
    BY <1>2, <1>3, <1>4 DEF Uncalled, Queued, Handled
  <1>5. ASSUME NEW c \in Checker, Checking(c), ~Doomed(f)
        PROVE  \E pair \in Pair : Check(c, pair) /\ pair.file = f /\ pair \in queue["check"] /\ ~Queued("upload", f)'
    <2>1. UNCHANGED <<job, todo, renameCheck, busy>>
      BY <1>5, FootChecking DEF march, renames
    <2>2. queue' # queue
      BY <1>4, <1>5, <2>1
    <2>3. PICK pair \in Pair : Check(c, pair)
      BY <1>5, <2>2 DEF Checking, Exit, pipes
    <2>4. pair \in queue["check"] /\ \A p \in Pipe : queue[p] \ {pair} \subseteq queue'[p]
      BY <1>1, <2>3 DEF Check, Get, Taken, PassedOn
    <2>5. pair.file = f
      BY <1>2, <1>3, <1>5, <2>1, <2>4 DEF Uncalled, Queued, Handled
    <2>6. QED
      BY <1>1, <1>2, <2>3, <2>4, <2>5
  <1>6. ASSUME NEW r \in Renamer, Renaming(r), ~Doomed(f)
        PROVE  \E pair \in Pair : Rename(r, pair) /\ pair.file = f /\ pair \in queue["rename"] /\ ~Queued("upload", f)'
    <2>1. UNCHANGED <<job, todo, renameCheck, busy>>
      BY <1>6, FootRenaming DEF march
    <2>2. queue' # queue
      BY <1>4, <1>6, <2>1
    <2>3. PICK pair \in Pair : Rename(r, pair)
      BY <1>6, <2>2 DEF Renaming, Exit, pipes
    <2>4. pair \in queue["rename"] /\ \A p \in Pipe : queue[p] \ {pair} \subseteq queue'[p]
      BY <1>1, <2>3 DEF Rename, Get, Taken, PassedOn
    <2>5. pair.file = f
      BY <1>2, <1>3, <1>6, <2>1, <2>4 DEF Uncalled, Queued, Handled
    <2>6. QED
      BY <1>1, <1>2, <2>3, <2>4, <2>5
  <1>7. ASSUME NEW t \in Transfer, Transferring(t), ~Doomed(f)
        PROVE  \E pair \in Pair :
                 /\ pair.file = f /\ busy[t] = {pair}
                 /\ TransferOK(t, pair) \/ TransferFailed(t, pair) \/ TransferLimit(t, pair)
    <2>1. UNCHANGED <<job, todo, renameCheck>>
      BY <1>7, FootTransferring DEF march, renames
    <2>2. CASE Exit(t, "upload")
      BY <1>4, <1>7, <2>1, <2>2 DEF Exit, pipes
    <2>3. ASSUME NEW pair \in Pair, TransferStart(t, pair)
          PROVE  FALSE
      <3>1. /\ \A p \in Pipe : queue[p] \ {pair} \subseteq queue'[p]
            /\ busy[t] = {} /\ busy'[t] = {pair} /\ \A u \in Transfer \ {t} : busy'[u] = busy[u]
        BY <1>1, <2>3 DEF TransferStart, Taken
      <3>2. pair.file # f
        BY <1>2, <3>1 DEF Handled
      <3>3. QED
        BY <1>2, <1>3, <1>7, <2>1, <3>1, <3>2 DEF Uncalled, Queued, Handled
    <2>4. ASSUME NEW pair \in Pair, TransferOK(t, pair) \/ TransferFailed(t, pair) \/ TransferLimit(t, pair)
          PROVE  pair.file = f /\ busy[t] = {pair}
      <3>1. UNCHANGED queue /\ busy[t] = {pair} /\ \A u \in Transfer \ {t} : busy'[u] = busy[u]
        BY <1>1, <2>4 DEF TransferOK, TransferFailed, TransferLimit, Transferred, pipes
      <3>2. QED
        BY <1>2, <1>3, <1>7, <2>1, <3>1 DEF Uncalled, Queued, Handled
    <2>5. ASSUME NEW pair \in Pair, TransferCopied(t, pair)
          PROVE  FALSE
      <3>1. /\ UNCHANGED queue /\ busy[t] = {pair} /\ \A u \in Transfer \ {t} : busy'[u] = busy[u]
            /\ \E x \in busy'[t] : x.file = pair.file
        BY <1>1, <2>5 DEF TransferCopied, pipes
      <3>2. ASSUME NEW u \in Transfer, Handled(u, f)
            PROVE  Handled(u, f)'
        BY <3>1, <3>2 DEF Handled
      <3>3. QED
        BY <1>2, <1>3, <1>7, <2>1, <3>1, <3>2 DEF Uncalled, Queued
    <2>6. QED
      BY <1>7, <2>2, <2>3, <2>4, <2>5 DEF Transferring
  <1>8. ASSUME Main, ~Doomed(f)
        PROVE  FALSE
    <2>1. UNCHANGED <<job, todo, busy>>
      BY <1>8, FootMainFirst DEF march
    <2>2. CASE UNCHANGED <<queue, renameCheck>>
      BY <1>4, <1>8, <2>1, <2>2
    <2>3. ASSUME NEW g \in File, OfferRename(g)
          PROVE  FALSE
      <3>1. /\ renameCheck' = renameCheck \ {g}
            /\ \A p \in Pipe : queue[p] \subseteq queue'[p]
            /\ [file |-> g, to |-> "nil"] \in queue'["rename"]
        BY <1>1, <2>3 DEF OfferRename, Put
      <3>2. f # g
        BY <1>1, <1>2, <3>1 DEF Queued
      <3>3. QED
        BY <1>2, <1>3, <1>8, <2>1, <3>1, <3>2 DEF Uncalled, Queued, Handled
    <2>4. QED
      BY <1>8, <2>2, <2>3 DEF Main, Marched, MakeRenameMap, RenamesSent, Checked, Renamed, TransfersDone, DeletersDone,
           PumpEnds, AfterDone, Return, Pump, pipes, renames
  <1>9. CASE (\E w \in Producer : Putting(w)) \/ Deleting \/ Deadline \/ Cancel \/ UNCHANGED vars
    BY <1>4, <1>9, FootPutting, FootDeleting, FootLimits DEF vars, march, pipes, works, renames
  <1>10. ASSUME NEW d \in Dir, Marching(d)
         PROVE  /\ Uncalled(f)
                /\ \/ List(d) /\ DirOf[f] = d /\ f \notin todo'[d]
                   \/ (SrcOnly(d, f) \/ Match(d, f)) /\ mode = "only"
                   \/ DstOnly(d, f)
    BY <1>10, MarchingVanish
  <1>11. QED
    BY <1>1, <1>5, <1>6, <1>7, <1>8, <1>9, <1>10, Actors

-----------------------------------------------------------------------------
(* The invariant *)

\* Nothing has gone wrong so far, and nobody has cancelled.
Well == errs = {} /\ ctx = "live" /\ inCtx = "live"

Copied(f) ==
  \/ (dst[f] = src0[f] \/ Skipped(f)) /\ src[f] = IF DoMove THEN Absent ELSE src0[f]
  \/ IgnoreExisting /\ Skipped(f) /\ src[f] = src0[f]

\* A file of the source that is at no place any more has been copied, moved or
\* skipped.
Settled ==
  mode # "only" /\ Well =>
    \A f \in File : src0[f] # Absent /\ failed[DirOf[f]] = {} => ~Nowhere(f) \/ Copied(f)

\* A file that the source does not have is yet to be deleted, or has been.
Purged ==
  mode # "off" /\ Well /\ delErr = "none" =>
    \A f \in File : src0[f] = Absent /\ failed[DirOf[f]] = {} => Uncalled(f) \/ Doomed(f) \/ dst[f] = Absent

\* A copy or a move leaves it alone; the second pass of --delete-before finds
\* that it is gone.
Spared ==
  \A f \in File :
    src0[f] = Absent =>
      /\ opt.delete = "off" => dst[f] = dst0[f]
      /\ opt.delete = "before" /\ ctx = "live" /\ (mode = "off" \/ (main = "returned" /\ result = "running"))
           => dst[f] = Absent

\* Success is reported when nothing has gone wrong, and nothing does later.
Ended == result = "ok" => mode # "only" /\ (ctx = "live" => errs = {} /\ inCtx = "live")

\* The parts about the stages.
Staged == Left /\ Spent /\ Covers /\ Known /\ Hard /\ Sourced /\ Extras /\ Deletion

\* When --delete-after begins to delete, every file of the source has been copied.
Finished ==
  (/\ opt.delete = "after" /\ opt.cutoff # "soft" /\ ~IgnoreErrors /\ main \in {"after", "end", "returned"}
   /\ dels \cup deleted # {} \/ (main = "after" /\ ctx = "live"))
    => \A f \in File : src0[f] # Absent => (dst[f] = src0[f] \/ Skipped(f)) /\ Nowhere(f)

EInv == LInv /\ Sound /\ Staged /\ Settled /\ Purged /\ Spared /\ Ended /\ Finished

\* When all goes well, every listing has succeeded when the march is over.
LEMMA Listed ==
  ASSUME Types, Stages, Sound, Known, Well, main # "march", NEW d \in Dir
  PROVE  failed[d] = {} /\ job[d] = "done"
  <1>1. job[d] = "done"
    BY DEF Stages, Manned
  <1>2. jobErr = "none"
    BY DEF Sound, Well
  <1>3. QED
    BY <1>1, <1>2 DEF Known, Well

\* When all goes well, the stages are empty when run has waited for them.
LEMMA Emptied ==
  ASSUME PInv, Sound, Staged, Well, main \in Finish, NEW f \in File
  PROVE  /\ ~Uncalled(f) /\ f \notin renameCheck
         /\ \A p \in Pipe : ~Queued(p, f)
         /\ \A t \in Transfer : ~Handled(t, f)
  <1>1. /\ Types /\ Stages /\ Modes /\ Pipe = {"check", "rename", "upload"} /\ DirOf \in [File -> Dir]
        /\ tokens \in [Pipe -> Nat] /\ queue \in [Pipe -> SUBSET Pair] /\ inCtx = "live"
        /\ blocked \in [Producer -> Pipe \cup {Nobody}] /\ work \in [Worker -> {"none", "idle", "exited"}]
    BY SyncAssumption DEF PInv, Types, TPipes, TWorks, Pipe, Well
  <1>2. main # "march" /\ main \notin Before /\ main \in Late
    BY DEF Finish, Before, Late
  <1>3. ~Uncalled(f)
    <2>1. job[DirOf[f]] = "done"
      BY <1>1, <1>2, Listed DEF Staged
    <2>2. QED
      BY <1>1, <2>1 DEF Staged, Spent, Uncalled
  <1>4. f \notin renameCheck
    BY <1>1, <1>2 DEF Staged, Spent
  <1>5. ASSUME NEW p \in Pipe, Drained(p)
        PROVE  queue[p] = {}
    <2>1. ~open[p] /\ tokens[p] = 0
      BY <1>5 DEF Drained
    <2>2. Waiting(p) = {}
      BY <1>1, <2>1, SafePipes DEF Waiting, PipesSafe, Nobody
    <2>3. IsFiniteSet(queue[p]) /\ Covered(queue[p], tokens[p], Waiting(p))
      BY <1>1 DEF Staged, Covers, PInv, Counts, Counted
    <2>4. Cardinality(queue[p]) = 0
      <3>1. Cardinality(queue[p]) \in Nat /\ Cardinality({}) = 0
        BY <2>3, FS_CardinalityType, FS_EmptySet
      <3>2. QED
        BY <2>1, <2>2, <2>3, <3>1 DEF Covered
    <2>5. QED
      BY <2>3, <2>4, FS_EmptySet
  <1>6. Drained("check")
    <2>1. PICK c \in Checker : TRUE
      BY SyncAssumption
    <2>2. work[c] = "exited"
      BY <1>1, <1>2 DEF Stages, Manned
    <2>3. QED
      BY <1>1, <2>2 DEF Staged, Spent
  <1>7. Drained("upload")
    <2>1. PICK t \in Transfer : TRUE
      BY SyncAssumption
    <2>2. work[t] = "exited"
      BY DEF Staged, Left
    <2>3. QED
      BY <1>1, <2>2 DEF Staged, Spent
  <1>8. queue["rename"] = {}
    <2>1. CASE TrackRenames
      <3>1. PICK r \in Renamer : TRUE
        BY SyncAssumption
      <3>2. work[r] = "exited"
        BY <1>1, <1>2, <2>1, Distinct DEF Stages, Manned, Staged, Left
      <3>3. QED
        BY <1>1, <1>5, <3>2 DEF Staged, Spent
    <2>2. QED
      BY <2>1 DEF Staged, Left
  <1>9. \A p \in Pipe : ~Queued(p, f)
    BY <1>1, <1>5, <1>6, <1>7, <1>8 DEF Queued
  <1>10. \A t \in Transfer : ~Handled(t, f)
    BY DEF Staged, Left, Handled
  <1>11. QED
    BY <1>3, <1>4, <1>9, <1>10

\* The stages of the invariant are kept.
LEMMA NextStaged ==
  ASSUME LInv, Sound, Staged, [Next]_vars
  PROVE  Staged'
  BY NextLeft, NextSpent, NextCovers, NextKnown, NextHard, NextSourced, NextExtras, NextDeletion
     DEF Staged, LInv, QInv, PInv

\* A check that goes well and passes nothing on has found the same content, or
\* leaves the file as it is.
LEMMA CheckEnds ==
  ASSUME QInv, NEW c \in Checker, NEW pair \in Pair, Check(c, pair), ~Queued("upload", pair.file)', errs' = {}
  PROVE  /\ dst[pair.file] = src[pair.file] \/ Skipped(pair.file)
         /\ dst' = dst
         /\ \/ src' = IF DoMove THEN [src EXCEPT ![pair.file] = Absent] ELSE src
            \/ IgnoreExisting /\ Skipped(pair.file) /\ src' = src
  <1>1. /\ queue \in [Pipe -> SUBSET Pair] /\ Pipe = {"check", "rename", "upload"}
        /\ pair.file \in File /\ Queued("check", pair.file)
    BY DEF QInv, PInv, Types, TPipes, Pipe, Pair, Check, Get, Queued
  <1>2. ASSUME NEW to, PassedOn(c, "check", pair, "upload", [file |-> pair.file, to |-> to])
        PROVE  FALSE
    <2>1. [file |-> pair.file, to |-> to] \in queue'["upload"]
      BY <1>1, <1>2 DEF PassedOn
    <2>2. QED
      BY <2>1 DEF Queued
  <1>3. ASSUME NEW err \in {"noretry", "err"}, NEW count, Report(err, count)
        PROVE  FALSE
    <2>1. Class(err) # {}
      BY ClassFacts
    <2>2. QED
      BY <1>3, <2>1 DEF Report
  <1>4. /\ NoNeed(pair.file) /\ dst' = dst
        /\ \/ src' = IF DoMove THEN [src EXCEPT ![pair.file] = Absent] ELSE src
           \/ IgnoreExisting /\ src' = src
    BY <1>2, <1>3 DEF Check, trees
  <1>5. QED
    BY <1>1, <1>4, NoNeedFacts

\* A rename that passes nothing on has given the file its content.
LEMMA RenameEnds ==
  ASSUME PInv, Left, NEW r \in Renamer, NEW pair \in Pair, Rename(r, pair), pair \in queue["rename"],
         ~Queued("upload", pair.file)'
  PROVE  ~DoMove /\ src' = src /\ dst'[pair.file] = src[pair.file]
  <1>1. /\ queue \in [Pipe -> SUBSET Pair] /\ Pipe = {"check", "rename", "upload"} /\ pair.file \in File
        /\ Types /\ Modes /\ Manned /\ OnePlace /\ dst \in [File -> Content \cup {Absent}] /\ TFirst
    BY DEF PInv, Types, TPipes, TTrees, Tree, Pipe, Pair, Stages
  <1>2. ~PassedOn(r, "rename", pair, "upload", pair)
    <2>1. ASSUME PassedOn(r, "rename", pair, "upload", pair)
          PROVE  FALSE
      <3>1. pair \in queue'["upload"]
        BY <1>1, <2>1 DEF PassedOn
      <3>2. QED
        BY <3>1 DEF Queued
    <2>2. QED
      BY <2>1
  <1>3. PICK x \in renameMap : dst[x] = src[pair.file] /\ dst' = [dst EXCEPT ![pair.file] = dst[x], ![x] = Absent]
    BY <1>2 DEF Rename
  <1>4. x # pair.file
    <2>1. main \notin Late
      BY <1>1 DEF Rename, Get, Free, Manned
    <2>2. x \in dstFiles
      BY <1>1, <2>1 DEF Modes
    <2>3. "queue" \in Kind /\ "rename" \in Name /\ At("queue", "rename", pair.file)
      BY <1>1 DEF Kind, Name, At, Queued
    <2>4. ~Doomed(pair.file)
      BY <1>1, <2>3, Elsewhere
    <2>5. QED
      BY <2>2, <2>4 DEF Doomed
  <1>5. TrackRenames
    BY DEF Left
  <1>6. QED
    BY <1>1, <1>3, <1>4, <1>5, OptionFacts DEF Rename

\* A transfer that goes well has copied or moved.
LEMMA TransferEnds ==
  ASSUME Types, Tagged, [Next]_vars, NEW t \in Transfer, NEW pair \in Pair, busy[t] = {pair}, errs' = {},
         TransferOK(t, pair) \/ TransferFailed(t, pair) \/ TransferLimit(t, pair)
  PROVE  /\ dst'[pair.file] = src[pair.file] \/ Skipped(pair.file)'
         /\ src' = IF DoMove THEN [src EXCEPT ![pair.file] = Absent] ELSE src
  <1>1. pair.file \in File /\ dst \in [File -> Content \cup {Absent}]
    BY DEF Types, TTrees, Tree, Pair
  <1>2. ASSUME NEW err \in {"err", "fatal", "graceful"}, NEW count, Report(err, count)
        PROVE  FALSE
    <2>1. Class(err) # {}
      BY ClassFacts
    <2>2. QED
      BY <1>2, <2>1 DEF Report
  <1>3. TransferOK(t, pair)
    BY <1>2 DEF TransferFailed, TransferLimit
  <1>4. SrcPair(pair)
    BY DEF Tagged
  <1>5. dst'[pair.file] = dst[pair.file] /\ Newer(pair.file) => Skipped(pair.file)'
    BY <1>1, SkippedStays DEF Types, Newer
  <1>6. QED
    BY <1>1, <1>3, <1>4, <1>5 DEF TransferOK, SrcPair

\* The mode changes with the second pass.
LEMMA SameMode ==
  ASSUME TPipes, [Next]_vars, ~SecondPass
  PROVE  mode' = mode
  BY Actors, FootMarching, FootChecking, FootRenaming, FootTransferring, FootPutting, FootDeleting, FootLimits,
     FootMainFirst DEF vars, stage

\* Each step keeps what has been settled, and settles what it takes away.
LEMMA NextSettled ==
  ASSUME LInv, Sound, Staged, Settled, [Next]_vars
  PROVE  Settled'
  <1>1. /\ QInv /\ PInv /\ Types /\ TPipes /\ Modes /\ Stages /\ OnePlace /\ OnePair /\ Tagged /\ SrcKept /\ DirOf \in [File -> Dir]
        /\ job \in [Dir -> {"waiting", "matching", "done"}] /\ src \in [File -> Content \cup {Absent}]
    BY SyncAssumption DEF LInv, QInv, PInv, Types, TMarch, TTrees, Tree
  <1>2. UNCHANGED <<opt, src0>> /\ (DoMove' <=> DoMove) /\ (IgnoreExisting' <=> IgnoreExisting)
    BY <1>1, SameFirst DEF DoMove, IgnoreExisting
  <1>3. SUFFICES ASSUME mode' # "only", Well', NEW f \in File, src0[f] # Absent, failed'[DirOf[f]] = {}, Nowhere(f)'
                 PROVE  Copied(f)'
    BY <1>2 DEF Settled
  <1>4. ~SecondPass
    <2>1. ~Uncalled(f)'
      BY <1>3, PlacesNext
    <2>2. SecondPass => job'[DirOf[f]] = "waiting"
      BY <1>1 DEF SecondPass
    <2>3. QED
      BY <2>1, <2>2 DEF Uncalled
  <1>5. Well /\ mode # "only" /\ errs' = {}
    BY <1>1, <1>3, <1>4, WasLive, SameMode DEF Well
  <1>6. failed[DirOf[f]] = {}
    BY <1>1, <1>3, <1>4, FailedStays
  <1>7. CASE Nowhere(f)
    <2>1. Copied(f) /\ ~Touched(f)
      BY <1>1, <1>3, <1>5, <1>6, <1>7, TouchedPlace DEF Settled
    <2>2. QED
      BY <1>1, <1>2, <2>1, SkippedStays DEF Copied, Touched
  <1>8. CASE ~Nowhere(f)
    <2>1. src[f] = src0[f] /\ inCtx = "live" /\ ctx = "live"
      BY <1>1, <1>5, <1>8 DEF SrcKept, Well
    <2>2. ASSUME NEW d \in Dir, List(d), DirOf[f] = d, f \notin todo'[d]
          PROVE  FALSE
      <3>1. todo'[d] = {g \in File : DirOf[g] = d /\ \/ src[g] # Absent /\ "src" \notin failed'[d]
                                                     \/ dst[g] # Absent /\ "dst" \notin failed'[d]}
        BY <1>1, <2>2 DEF List, Types, TMarch
      <3>2. QED
        BY <1>3, <2>1, <2>2, <3>1
    <2>3. ASSUME NEW d \in Dir, DstOnly(d, f)
          PROVE  FALSE
      BY <1>3, <1>6, <2>1, <2>3 DEF DstOnly, InSrc
    <2>4. ASSUME NEW c \in Checker, NEW pair \in Pair, Check(c, pair), pair.file = f, ~Queued("upload", f)'
          PROVE  Copied(f)'
      <3>1. /\ dst[f] = src[f] \/ Skipped(f)
            /\ dst' = dst
            /\ \/ src' = IF DoMove THEN [src EXCEPT ![f] = Absent] ELSE src
               \/ IgnoreExisting /\ Skipped(f) /\ src' = src
        BY <1>1, <1>5, <2>4, CheckEnds
      <3>2. QED
        BY <1>1, <1>2, <2>1, <3>1, SkippedStays DEF Copied
    <2>5. ASSUME NEW r \in Renamer, NEW pair \in Pair, Rename(r, pair), pair.file = f, pair \in queue["rename"],
                 ~Queued("upload", f)'
          PROVE  Copied(f)'
      <3>1. ~DoMove /\ src' = src /\ dst'[f] = src[f]
        BY <1>1, <2>5, RenameEnds DEF Staged
      <3>2. QED
        BY <1>2, <2>1, <3>1 DEF Copied
    <2>6. ASSUME NEW t \in Transfer, NEW pair \in Pair, pair.file = f, busy[t] = {pair},
                 TransferOK(t, pair) \/ TransferFailed(t, pair) \/ TransferLimit(t, pair)
          PROVE  Copied(f)'
      <3>1. (dst'[f] = src[f] \/ Skipped(f)') /\ src' = IF DoMove THEN [src EXCEPT ![f] = Absent] ELSE src
        BY <1>1, <1>5, <2>6, TransferEnds
      <3>2. QED
        BY <1>1, <1>2, <2>1, <3>1 DEF Copied
    <2>7. ~Doomed(f)
      BY <1>3, <1>6 DEF Staged, Extras
    <2>8. QED
      BY <1>1, <1>3, <1>4, <1>5, <1>8, <2>1, <2>2, <2>3, <2>4, <2>5, <2>6, <2>7, Vanishing, SMTT(30)
  <1>9. QED
    BY <1>7, <1>8

\* A file that the source does not have changes only when it is deleted, or when
\* a rename takes its content.
LEMMA AbsentTouched ==
  ASSUME PInv, Sourced, [Next]_vars, NEW f \in File, src0[f] = Absent, Touched(f)
  PROVE  dst'[f] = Absent /\ Doomed(f) /\ (DeleteOne(f) \/ f \in dstFiles)
  <1>1. /\ Types /\ Modes /\ Stages /\ Pipe = {"check", "rename", "upload"}
        /\ dst \in [File -> Content \cup {Absent}] /\ f \in DOMAIN dst
    BY DEF PInv, Types, TTrees, Tree, Pipe
  <1>2. /\ \A p \in Pipe : \A x \in queue[p] : x.file # f
        /\ \A t \in Transfer : \A x \in busy[t] : x.file # f
    BY DEF Sourced, Queued, Handled
  <1>3. \/ \E r \in Renamer, pair \in Pair : Rename(r, pair) /\ f \in dstFiles /\ f \notin dstFiles' /\ dst'[f] = Absent
        \/ DeleteOne(f) /\ f \in dels
    BY <1>1, <1>2, NextTouched
  <1>4. ASSUME DeleteOne(f)
        PROVE  dst'[f] = Absent
    BY <1>1, <1>4 DEF DeleteOne, Touched
  <1>5. QED
    BY <1>3, <1>4 DEF Doomed

\* What was to be deleted is still to be deleted, or it is gone, or the error is known.
LEMMA DoomedEnds ==
  ASSUME Types, [Next]_vars, ~SecondPass, delErr' = "none", NEW f \in File, Doomed(f), ~Doomed(f)'
  PROVE  dst'[f] = Absent
  <1>1. TPipes /\ dst \in [File -> Content \cup {Absent}]
    BY DEF Types, TTrees, Tree
  <1>2. ASSUME NEW d \in Dir, Marching(d)
        PROVE  FALSE
    <2>1. dels \cup dstFiles \subseteq dels' \cup dstFiles'
      BY <1>2 DEF Marching, List, JobDone, JobAborted, JobDropped, SrcOnly, Match, DstOnly, deletes
    <2>2. QED
      BY <2>1 DEF Doomed
  <1>3. ASSUME NEW r \in Renamer, Renaming(r)
        PROVE  dst'[f] = Absent
    <2>1. dels' = dels
      BY <1>3, FootRenaming
    <2>2. f \in dstFiles /\ f \notin dstFiles'
      BY <2>1 DEF Doomed
    <2>3. PICK pair \in Pair : Rename(r, pair)
      BY <1>3, <2>2 DEF Renaming, Exit, deletes
    <2>4. PICK x \in renameMap : dst' = [dst EXCEPT ![pair.file] = dst[x], ![x] = Absent] /\ dstFiles' = dstFiles \ {x}
      BY <2>2, <2>3 DEF Rename
    <2>5. x = f
      BY <2>2, <2>4
    <2>6. QED
      BY <1>1, <2>4, <2>5
  <1>4. ASSUME NEW g \in File, DeleteOne(g)
        PROVE  dst'[f] = Absent
    <2>1. dels' = dels \ {g} /\ dstFiles' = dstFiles
      BY <1>4 DEF DeleteOne
    <2>2. f = g
      BY <2>1 DEF Doomed
    <2>3. dst' = [dst EXCEPT ![f] = Absent]
      BY <1>4, <2>2 DEF DeleteOne
    <2>4. QED
      BY <1>1, <2>3
  <1>5. CASE Main
    <2>1. CASE \E g \in File : Pump(g)
      <3>1. dels' \cup dstFiles' = dels \cup dstFiles
        BY <2>1 DEF Pump
      <3>2. QED
        BY <3>1 DEF Doomed
    <2>2. CASE ~ \E g \in File : Pump(g)
      BY <1>5, <2>2 DEF Doomed, Main, Marched, MakeRenameMap, RenamesSent, Checked, Renamed, TransfersDone, DeletersDone,
           PumpEnds, AfterDone, Return, OfferRename, deletes
    <2>3. QED
      BY <2>1, <2>2
  <1>6. CASE \/ \E c \in Checker : Checking(c)
             \/ \E t \in Transfer : Transferring(t)
             \/ \E w \in Producer : Putting(w)
             \/ DeletersReturn \/ Deadline \/ Cancel \/ UNCHANGED vars
    BY <1>6, FootChecking, FootTransferring, FootPutting, FootLimits DEF vars, deletes, Doomed, DeletersReturn
  <1>7. QED
    BY <1>1, <1>2, <1>3, <1>4, <1>5, <1>6, Actors DEF Deleting

\* A name that the source does not have is listed if it is there, and its callback
\* has it deleted.
LEMMA UncalledEnds ==
  ASSUME LInv, [Next]_vars, ~SecondPass, Well, mode # "off", NEW f \in File, src0[f] = Absent,
         Uncalled(f), ~Uncalled(f)', ~Doomed(f)', failed'[DirOf[f]] = {}
  PROVE  dst'[f] = Absent
  <1>1. /\ Types /\ Modes /\ TPipes /\ TStage /\ SrcKept /\ OnePair /\ DirOf \in [File -> Dir] /\ inCtx = "live" /\ ctx = "live"
        /\ job \in [Dir -> {"waiting", "matching", "done"}] /\ todo \in [Dir -> SUBSET File]
    BY SyncAssumption DEF LInv, QInv, PInv, Types, TMarch, Well
  <1>2. src[f] = Absent
    BY <1>1, UncalledKept
  <1>3. PICK d \in Dir : Marching(d)
    <2>1. ~UNCHANGED <<job, todo>>
      BY DEF Uncalled
    <2>2. QED
      BY <1>1, <2>1, Actors, FootChecking, FootRenaming, FootTransferring, FootPutting, FootDeleting, FootLimits,
         FootMainFirst DEF vars, march
  <1>4. dst' = dst
    BY <1>3, FootMarching DEF trees
  <1>5. CASE List(d)
    <2>1. \A e \in Dir \ {d} : job'[e] = job[e] /\ todo'[e] = todo[e]
      BY <1>1, <1>5 DEF List
    <2>2. DirOf[f] = d
      BY <1>1, <2>1 DEF Uncalled
    <2>3. todo'[d] = {g \in File : DirOf[g] = d /\ \/ src[g] # Absent /\ "src" \notin failed'[d]
                                                   \/ dst[g] # Absent /\ "dst" \notin failed'[d]}
      BY <1>1, <1>5 DEF List
    <2>4. QED
      BY <1>4, <2>2, <2>3 DEF Uncalled
  <1>6. CASE JobDone(d) \/ JobAborted(d) \/ JobDropped(d)
    <2>1. todo' = todo /\ job' = [job EXCEPT ![d] = "done"] /\ job[d] = "matching"
      BY <1>1, <1>6 DEF JobDone, JobAborted, JobDropped
    <2>2. QED
      BY <1>1, <2>1 DEF Uncalled
  <1>7. ASSUME NEW g \in File, SrcOnly(d, g) \/ Match(d, g) \/ DstOnly(d, g)
        PROVE  FALSE
    <2>1. job' = job /\ todo' = [todo EXCEPT ![d] = @ \ {g}]
      BY <1>7 DEF SrcOnly, Match, DstOnly, Called
    <2>2. f = g
      BY <1>1, <2>1 DEF Uncalled
    <2>3. DstOnly(d, f)
      BY <1>2, <1>7, <2>2 DEF SrcOnly, Match, InSrc
    <2>4. f \in dels' \cup dstFiles'
      BY <1>1, <2>3 DEF DstOnly, TStage, Types
    <2>5. QED
      BY <2>4 DEF Doomed
  <1>8. QED
    BY <1>3, <1>5, <1>6, <1>7 DEF Marching

\* Each step keeps what has been purged.
LEMMA NextPurged ==
  ASSUME LInv, Sound, Staged, Purged, [Next]_vars
  PROVE  Purged'
  <1>1. PInv /\ Types /\ TPipes /\ TDeletes /\ Sourced /\ DirOf \in [File -> Dir]
    BY SyncAssumption DEF LInv, QInv, PInv, Types, Staged
  <1>2. src0' = src0
    BY <1>1, SameFirst
  <1>3. SUFFICES ASSUME mode' # "off", Well', delErr' = "none", NEW f \in File, src0[f] = Absent,
                        failed'[DirOf[f]] = {}, ~Uncalled(f)', ~Doomed(f)'
                 PROVE  dst'[f] = Absent
    BY <1>2 DEF Purged
  <1>4. ~SecondPass
    BY <1>3 DEF SecondPass
  <1>5. Well /\ mode # "off"
    BY <1>1, <1>3, <1>4, WasLive, SameMode DEF Well
  <1>6. failed[DirOf[f]] = {}
    BY <1>1, <1>3, <1>4, FailedStays
  <1>7. delErr = "none"
    <2>1. CASE \E g \in File : DeleteOne(g)
      BY <1>3, <2>1 DEF DeleteOne
    <2>2. CASE ~ \E g \in File : DeleteOne(g)
      <3>1. Deleting => DeletersReturn
        BY <2>2 DEF Deleting
      <3>2. delErr' = delErr
        BY <1>1, <1>4, <3>1, Actors, FootMarching, FootChecking, FootRenaming, FootTransferring, FootPutting,
           FootLimits, FootMainFirst DEF vars, deletes, DeletersReturn
      <3>3. QED
        BY <1>3, <3>2
    <2>3. QED
      BY <2>1, <2>2
  <1>8. CASE Uncalled(f)
    BY <1>3, <1>4, <1>5, <1>8, UncalledEnds
  <1>9. CASE Doomed(f)
    BY <1>1, <1>3, <1>4, <1>9, DoomedEnds
  <1>10. CASE dst[f] = Absent
    BY <1>1, <1>3, <1>10, AbsentTouched DEF Touched
  <1>11. QED
    BY <1>3, <1>5, <1>6, <1>7, <1>8, <1>9, <1>10 DEF Purged

\* When all has gone well, run ends with nothing left to delete.
LEMMA PurgedEnd ==
  ASSUME PInv, Sound, Staged, Purged, Well, main \in {"end", "returned"}, mode # "off", NEW f \in File, src0[f] = Absent
  PROVE  dst[f] = Absent
  <1>1. /\ Types /\ Stages /\ Modes /\ TStage /\ deleters \in {"off", "open", "closed", "returned"} /\ DirOf \in [File -> Dir]
        /\ main \in Finish /\ Deletion /\ Known /\ main # "march" /\ errs = {} /\ ctx = "live"
    BY SyncAssumption DEF PInv, Types, TDeletes, Finish, Staged, Well
  <1>2. failed[DirOf[f]] = {} /\ ~Uncalled(f)
    BY <1>1, Listed, Emptied
  <1>3. deleters = "returned"
    BY <1>1 DEF Deletion, TStage
  <1>4. delErr = "none" /\ dels = {}
    BY <1>1, <1>3 DEF Deletion
  <1>5. dstFiles = {}
    BY <1>1, <1>3, <1>4 DEF Deletion, Modes
  <1>6. QED
    BY <1>2, <1>4, <1>5 DEF Purged, Doomed

\* run finds no error in the end only if all has gone well or it was cancelled.
LEMMA EndsWell ==
  ASSUME Types, Sound, Final = {}, ctx = "live"
  PROVE  Well
  <1>1. inCtx \in {"live", "canceled", "deadline"}
    BY DEF Types, TErrors
  <1>2. errs = {} /\ inCtx # "deadline"
    BY DEF Final
  <1>3. QED
    BY <1>1, <1>2 DEF Sound, Well

\* A copy does not touch what is only on the destination, and the pass that
\* copies finds that the pass before it has deleted.
LEMMA NextSpared ==
  ASSUME LInv, Sound, Staged, Purged, Spared, [Next]_vars
  PROVE  Spared'
  <1>1. PInv /\ Types /\ TPipes /\ TFirst /\ TStage /\ Modes /\ Sourced
    BY DEF LInv, QInv, PInv, Types, Staged
  <1>2. UNCHANGED <<opt, src0, dst0>>
    BY <1>1, SameFirst
  <1>3. ASSUME NEW f \in File, src0[f] = Absent, opt.delete = "off"
        PROVE  dst'[f] = dst0[f]
    <2>1. ~Doomed(f)
      BY <1>1, <1>3 DEF Modes, Doomed
    <2>2. ~Touched(f)
      BY <1>1, <1>3, <2>1, AbsentTouched
    <2>3. QED
      BY <1>3, <2>2 DEF Spared, Touched
  <1>4. ASSUME NEW f \in File, src0[f] = Absent, opt.delete = "before", ctx' = "live",
               mode' = "off" \/ (main' = "returned" /\ result' = "running")
        PROVE  dst'[f] = Absent
    <2>1. ctx = "live"
      <3>1. SecondPass => ctx' = ctx
        BY DEF SecondPass
      <3>2. QED
        BY <1>1, <1>4, <3>1, WasLive
    <2>2. CASE mode = "off" \/ (main = "returned" /\ result = "running")
      <3>1. dst[f] = Absent
        BY <1>4, <2>1, <2>2 DEF Spared
      <3>2. QED
        BY <1>1, <1>4, <3>1, AbsentTouched DEF Touched
    <2>3. CASE mode # "off" /\ ~(main = "returned" /\ result = "running")
      <3>1. ~SecondPass
        BY <2>3 DEF SecondPass
      <3>2. mode' = mode /\ main' = "returned" /\ result' = "running"
        BY <1>1, <1>4, <2>3, <3>1, SameMode
      <3>3. Return
        <4>1. ~UNCHANGED <<main, result>>
          BY <2>3, <3>2
        <4>2. Main
          BY <1>1, <4>1, Actors, FootMarching, FootChecking, FootRenaming, FootTransferring, FootPutting, FootDeleting,
             FootLimits DEF vars, stage
        <4>3. QED
          BY <3>1, <3>2, <4>1, <4>2 DEF Main, Marched, MakeRenameMap, RenamesSent, Checked, Renamed, TransfersDone,
               DeletersDone, PumpEnds, AfterDone, OfferRename, Pump, stage
      <3>4. Final = {} /\ main = "end" /\ dst' = dst
        BY <3>2, <3>3 DEF Return, trees
      <3>5. QED
        BY <1>1, <1>4, <2>1, <2>3, <3>4, EndsWell, PurgedEnd
    <2>4. QED
      BY <2>2, <2>3
  <1>5. QED
    BY <1>2, <1>3, <1>4 DEF Spared

\* When run has returned, nobody is left who would report an error.
LEMMA NextEnded ==
  ASSUME LInv, Sound, Staged, Ended, [Next]_vars
  PROVE  Ended'
  <1>1. /\ Types /\ TPipes /\ Modes /\ Manned /\ Left /\ Deletion
        /\ deleters \in {"off", "open", "closed", "returned"}
    BY DEF LInv, QInv, PInv, Types, TDeletes, Stages, Staged
  <1>2. SUFFICES ASSUME result' = "ok"
                 PROVE  mode' # "only" /\ (ctx' = "live" => errs' = {} /\ inCtx' = "live")
    BY DEF Ended
  <1>3. CASE Return
    <2>1. Final = {} /\ mode # "only" /\ errs' = Final /\ UNCHANGED <<mode, ctx, inCtx>>
      BY <1>2, <1>3 DEF Return
    <2>2. QED
      BY <1>1, <2>1, EndsWell DEF Well
  <1>4. CASE ~Return
    <2>1. ~SecondPass
      BY <1>2 DEF SecondPass
    <2>2. result = "ok"
      <3>1. Main => result' = result
        BY <1>4, <2>1 DEF Main, Marched, MakeRenameMap, RenamesSent, Checked, Renamed, TransfersDone, DeletersDone,
             PumpEnds, AfterDone, OfferRename, Pump, stage
      <3>2. QED
        BY <1>1, <1>2, <3>1, Actors, FootMarching, FootChecking, FootRenaming, FootTransferring, FootPutting,
           FootDeleting, FootLimits DEF vars, stage
    <2>3. main = "returned" /\ main \in Late /\ main \in Finish
      BY <1>1, <2>2 DEF Modes, Late, Finish
    <2>4. ASSUME NEW c \in Checker, Checking(c)
          PROVE  FALSE
      <3>1. work[c] = "idle"
        BY <2>4 DEF Checking, Exit, Check, Get, Free
      <3>2. QED
        BY <1>1, <2>3, <3>1 DEF Manned
    <2>5. ASSUME NEW t \in Transfer, Transferring(t)
          PROVE  FALSE
      <3>1. work[t] = "exited" /\ busy[t] = {}
        BY <1>1, <2>3 DEF Left
      <3>2. QED
        BY <2>5, <3>1 DEF Transferring, Exit, TransferStart, Get, Free, TransferCopied, TransferOK, TransferFailed, TransferLimit
    <2>6. ~Deleting
      BY <1>1, <2>3 DEF Deletion, Deleting, DeletersReturn, DeleteOne
    <2>7. ~Main
      BY <1>4, <2>1, <2>3 DEF Main, Marched, MakeRenameMap, RenamesSent, Checked, Renamed, TransfersDone, DeletersDone,
           PumpEnds, AfterDone, OfferRename, Pump
    <2>8. ASSUME NEW r \in Renamer, Renaming(r)
          PROVE  UNCHANGED <<errs, ctx, inCtx>>
      BY <2>8 DEF Renaming, Exit, Rename, NoError, errors
    <2>9. UNCHANGED <<errs, ctx, inCtx>>
      BY <1>1, <2>2, <2>4, <2>5, <2>6, <2>7, <2>8, Actors, FootMarching, FootPutting DEF vars, errors, Deadline, Cancel
    <2>10. mode' = mode
      BY <1>1, <2>1, SameMode
    <2>11. QED
      BY <2>2, <2>9, <2>10 DEF Ended
  <1>5. QED
    BY <1>3, <1>4

\* --delete-after begins when all has gone well, and nothing works on a file that
\* has been copied.
LEMMA NextFinished ==
  ASSUME LInv, Sound, Staged, Settled, Finished, [Next]_vars
  PROVE  Finished'
  <1>1. /\ PInv /\ Types /\ TPipes /\ TFirst /\ Modes /\ Stages /\ Manned /\ OnePlace /\ OnePair /\ DirOf \in [File -> Dir]
        /\ inCtx \in {"live", "canceled", "deadline"}
    BY SyncAssumption DEF LInv, QInv, PInv, Types, TErrors, Stages
  <1>2. UNCHANGED <<opt, src0>> /\ (IgnoreErrors' <=> IgnoreErrors)
    BY <1>1, SameFirst DEF IgnoreErrors
  <1>3. SUFFICES ASSUME opt.delete = "after", opt.cutoff # "soft", ~IgnoreErrors, main' \in {"after", "end", "returned"},
                        dels' \cup deleted' # {} \/ (main' = "after" /\ ctx' = "live"),
                        NEW f \in File, src0[f] # Absent
                 PROVE  (dst'[f] = src0[f] \/ Skipped(f)') /\ Nowhere(f)'
    BY <1>2 DEF Finished
  <1>4. mode = "after" /\ ~SecondPass
    BY <1>1, <1>3 DEF Modes, SecondPass
  <1>5. ctx' = "live" => ctx = "live"
    BY <1>1, <1>4, WasLive
  <1>6. ASSUME dst[f] = src0[f] \/ Skipped(f), Nowhere(f)
        PROVE  (dst'[f] = src0[f] \/ Skipped(f)') /\ Nowhere(f)'
    <2>1. Nowhere(f)'
      BY <1>1, <1>4, <1>6, NextNowhere
    <2>2. ~Touched(f)
      BY <1>1, <1>6, TouchedPlace
    <2>3. QED
      BY <1>1, <1>6, <2>1, <2>2, SkippedStays DEF Touched
  <1>7. main' # main => Main
    BY <1>1, Actors, FootMarching, FootChecking, FootRenaming, FootTransferring, FootPutting, FootDeleting,
       FootLimits DEF vars, stage
  <1>8. CASE main \notin {"after", "end", "returned"}
    <2>1. DeletersDone
      BY <1>3, <1>4, <1>7, <1>8 DEF Main, Marched, MakeRenameMap, RenamesSent, Checked, Renamed, TransfersDone,
           PumpEnds, AfterDone, Return, OfferRename, Pump, stage
    <2>2. dels' = {} /\ deleted' = {}
      BY <1>1, <1>4, <1>8, <2>1 DEF Modes, DeletersDone
    <2>3. main = "deletes" /\ MayDelete /\ ctx = "live"
      BY <1>3, <1>5, <2>1, <2>2 DEF DeletersDone
    <2>4. Well /\ main \in Finish /\ main # "march"
      <3>1. errs = {}
        BY <1>3, <2>3 DEF MayDelete
      <3>2. QED
        BY <1>1, <1>3, <2>3, <3>1 DEF Well, Sound, Staged, Hard, Finish
    <2>5. failed[DirOf[f]] = {}
      BY <1>1, <2>4, Listed DEF Staged
    <2>6. ~Doomed(f)
      BY <1>3, <2>5 DEF Staged, Extras
    <2>7. Nowhere(f)
      BY <1>1, <2>4, <2>6, Emptied, Places
    <2>8. dst[f] = src0[f] \/ Skipped(f)
      BY <1>3, <1>4, <2>4, <2>5, <2>7 DEF Settled, Copied
    <2>9. QED
      BY <1>6, <2>7, <2>8
  <1>9. CASE main \in {"after", "end", "returned"} /\ dels \cup deleted # {}
    BY <1>3, <1>6, <1>9 DEF Finished
  <1>10. CASE main = "after" /\ ctx = "live"
    BY <1>3, <1>6, <1>10 DEF Finished
  <1>11. ASSUME main \in {"after", "end", "returned"}, dels = {}, deleted = {}, ~(main = "after" /\ ctx = "live")
         PROVE  FALSE
    <2>1. ASSUME NEW d \in Dir, Marching(d)
          PROVE  UNCHANGED <<dels, deleted>>
      <3>1. job[d] = "done" /\ main # "march"
        BY <1>1, <1>11 DEF Manned
      <3>2. QED
        BY <2>1, <3>1 DEF Marching, List, JobDone, JobAborted, JobDropped, SrcOnly, Match, DstOnly, Called
    <2>2. Deleting => UNCHANGED <<dels, deleted>>
      BY <1>11 DEF Deleting, DeletersReturn, DeleteOne
    <2>3. Main => UNCHANGED <<dels, deleted>>
      BY <1>4, <1>11 DEF Main, Marched, MakeRenameMap, RenamesSent, Checked, Renamed, TransfersDone, DeletersDone,
           PumpEnds, AfterDone, Return, OfferRename, Pump, deletes
    <2>4. UNCHANGED <<dels, deleted>>
      BY <1>1, <2>1, <2>2, <2>3, Actors, FootChecking, FootRenaming, FootTransferring, FootPutting, FootLimits
         DEF vars, deletes
    <2>5. main' = "after" /\ ctx = "live" /\ main # "after"
      BY <1>3, <1>5, <1>11, <2>4
    <2>6. QED
      BY <1>4, <1>7, <1>11, <2>5 DEF Main, Marched, MakeRenameMap, RenamesSent, Checked, Renamed, TransfersDone,
           DeletersDone, PumpEnds, AfterDone, Return, OfferRename, Pump, stage
  <1>12. QED
    BY <1>8, <1>9, <1>10, <1>11

-----------------------------------------------------------------------------
(* Success *)

\* The first states have the invariant.
LEMMA InitEInv ==
  ASSUME Init
  PROVE  EInv
  <1>1. LInv /\ Sound /\ PInv /\ Types
    BY InitLInv, InitBInv DEF BInv, LInv, QInv, PInv
  <1>2. /\ main = "march" /\ result = "running" /\ work = Started /\ dels = {} /\ dstFiles = {} /\ renameCheck = {}
        /\ \A p \in Pipe : queue[p] = {} /\ tokens[p] = 0 /\ open[p]
        /\ \A t \in Transfer : busy[t] = {}
        /\ \A d \in Dir : job[d] = "waiting" /\ todo[d] = {} /\ failed[d] = {}
        /\ dead = 0 /\ delErr = "none" /\ deleted = {} /\ errs = {} /\ ctx = "live" /\ inCtx = "live"
        /\ deleters = IF mode \in {"during", "only"} THEN "open" ELSE "off"
        /\ mode = (IF opt.delete = "before" THEN "only" ELSE opt.delete) /\ dst = dst0
    BY DEF Init
  <1>3. DirOf \in [File -> Dir] /\ "rename" \in Pipe
    BY SyncAssumption DEF Pipe
  <1>4. Left
    BY <1>2, <1>3, Distinct DEF Left, Finish, Started
  <1>5. Spent
    BY <1>2, Distinct DEF Spent, Before, Started
  <1>6. Covers
    <2>1. ASSUME NEW p \in Pipe
          PROVE  Covered(queue[p], tokens[p], Waiting(p))
      <3>1. Cardinality(queue[p]) = 0 /\ Cardinality(Waiting(p)) \in Nat /\ tokens[p] = 0
        BY <1>2, FS_EmptySet, WaitingFinite DEF Waiting
      <3>2. QED
        BY <3>1 DEF Covered
    <2>2. QED
      BY <2>1 DEF Covers
  <1>7. Known /\ Hard /\ Extras
    BY <1>2 DEF Known, Hard, Extras, Doomed
  <1>8. Sourced
    BY <1>2 DEF Sourced, Queued, Handled
  <1>9. Deletion
    BY <1>2 DEF Deletion, Finish
  <1>10. Settled
    <2>1. \A f \in File : Uncalled(f)
      BY <1>2, <1>3 DEF Uncalled
    <2>2. QED
      BY <2>1, Places DEF Settled
  <1>11. Purged
    BY <1>2, <1>3 DEF Purged, Uncalled
  <1>12. Spared /\ Ended /\ Finished
    <2>1. opt.delete = "before" => mode # "off"
      BY <1>2
    <2>2. QED
      BY <1>2, <2>1 DEF Spared, Ended, Finished
  <1>13. QED
    BY <1>1, <1>4, <1>5, <1>6, <1>7, <1>8, <1>9, <1>10, <1>11, <1>12 DEF EInv, Staged

\* Every step keeps it.
LEMMA NextEInv ==
  ASSUME EInv, [Next]_vars
  PROVE  EInv'
  <1>1. LInv' /\ Sound'
    BY NextLInv, NextSound DEF EInv, LInv, QInv, PInv
  <1>2. Staged'
    BY NextStaged DEF EInv
  <1>3. Settled' /\ Purged'
    BY NextSettled, NextPurged DEF EInv
  <1>4. Spared' /\ Ended' /\ Finished'
    BY NextSpared, NextEnded, NextFinished DEF EInv
  <1>5. QED
    BY <1>1, <1>2, <1>3, <1>4 DEF EInv

\* What the invariant says of a run that reports success.
LEMMA SuccessSynced ==
  ASSUME EInv
  PROVE  Synced
  <1>1. SUFFICES ASSUME result = "ok", ctx = "live", NEW f \in File
                 PROVE  /\ src0[f] # Absent => dst[f] = src0[f] \/ Skipped(f)
                        /\ src0[f] = Absent => dst[f] = IF opt.delete = "off" THEN dst0[f] ELSE Absent
                        /\ \/ src[f] = IF DoMove THEN Absent ELSE src0[f]
                           \/ IgnoreExisting /\ Skipped(f) /\ src[f] = src0[f]
    BY DEF Synced
  <1>2. /\ LInv /\ PInv /\ Types /\ TFirst /\ Modes /\ Stages /\ Sound /\ Staged /\ Settled /\ Purged /\ Spared /\ SrcKept
        /\ DirOf \in [File -> Dir]
    BY SyncAssumption DEF EInv, LInv, QInv, PInv, Types
  <1>3. Well /\ mode # "only" /\ main = "returned" /\ main # "march" /\ main \in Finish
    BY <1>1, <1>2 DEF EInv, Ended, Well, Modes, Finish
  <1>4. failed[DirOf[f]] = {}
    BY <1>2, <1>3, Listed DEF Staged
  <1>5. CASE src0[f] # Absent
    <2>1. ~Doomed(f)
      BY <1>2, <1>4, <1>5 DEF Staged, Extras
    <2>2. Nowhere(f)
      BY <1>2, <1>3, <2>1, Emptied, Places
    <2>3. QED
      BY <1>2, <1>3, <1>4, <1>5, <2>2 DEF Settled, Copied
  <1>6. CASE src0[f] = Absent
    <2>1. src[f] = Absent
      BY <1>2, <1>6 DEF SrcKept, Moved
    <2>2. CASE opt.delete = "off"
      BY <1>2, <1>6, <2>1, <2>2 DEF Spared
    <2>3. CASE opt.delete = "before"
      <3>1. mode = "off"
        BY <1>2, <1>3, <2>3 DEF Modes
      <3>2. QED
        BY <1>1, <1>2, <1>6, <2>1, <2>3, <3>1 DEF Spared
    <2>4. CASE opt.delete \notin {"off", "before"}
      <3>1. mode # "off"
        BY <1>2, <2>4 DEF Modes
      <3>2. QED
        BY <1>2, <1>3, <1>6, <2>1, <2>4, <3>1, PurgedEnd
    <2>5. QED
      BY <2>2, <2>3, <2>4
  <1>7. QED
    BY <1>5, <1>6

\* A run that is not cancelled and reports success has made the destination like
\* the source, but for the files that --ignore-existing and --update skip and
\* that are as they were, whatever the tree, the options, the number of goroutines and the
\* order in which they run: no pair is left behind in a pipe when the stages are
\* stopped, and the deleters have been through their channel.
THEOREM SuccessMeansSynced == Spec => []Synced
  <1>1. Init => EInv
    BY InitEInv
  <1>2. EInv /\ [Next]_vars => EInv'
    BY NextEInv
  <1>3. EInv => Synced
    BY SuccessSynced
  <1>4. QED
    BY <1>1, <1>2, <1>3, PTL DEF Spec

\* --delete-after deletes nothing before every file of the source has its content
\* on the destination or was skipped for a newer one, and it stays there, unless errors are to be ignored or a
\* soft deadline ends the stages.
THEOREM DeletesComeLast == Spec => []DeletesLast
  <1>1. Init => EInv
    BY InitEInv
  <1>2. EInv /\ [Next]_vars => EInv'
    BY NextEInv
  <1>3. EInv => DeletesLast
    <2>1. SUFFICES ASSUME EInv, opt.delete = "after", opt.cutoff # "soft", ~IgnoreErrors, deleted # {}
                   PROVE  \A f \in File : src0[f] # Absent => dst[f] = src0[f] \/ Skipped(f)
      BY DEF DeletesLast
    <2>2. main \in {"after", "end", "returned"}
      BY <2>1 DEF EInv, LInv, QInv, PInv, Modes
    <2>3. QED
      BY <2>1, <2>2 DEF EInv, Finished
  <1>4. QED
    BY <1>1, <1>2, <1>3, PTL DEF Spec

=============================================================================
