-------------------------------- MODULE Sync --------------------------------
(***************************************************************************)
(* A sync, copy or move of one tree into another (fs/sync).  The march     *)
(* (fs/march) lists both sides and calls back for each name; the callbacks *)
(* feed checkers, renamers and transfers through pipes, files that are     *)
(* only on the destination go to the deleters, and run stops the stages in *)
(* order and then deletes.  Errors, limits and cancellations reach every   *)
(* stage through two contexts.                                             *)
(*                                                                         *)
(* A file is its name and its content; directories are only the units that *)
(* the march lists.  A pipe holds a set, for under --order-by a Get may    *)
(* take any pair; so it makes no difference that Get takes its token and   *)
(* its pair in two steps, and here it is one.                              *)
(***************************************************************************)
EXTENDS Naturals, FiniteSets

CONSTANTS
  File, Dir,     \* names, and the directories that are listed
  DirOf,         \* the directory of each name
  Content,       \* contents of files
  Absent,        \* there is no such file
  Checker, Renamer, Transfer,   \* goroutines of the three stages
  Backlog,       \* --max-backlog
  Options,       \* the combinations of options that a run may have
  Faults,        \* the failures that may happen
  MaxFaults      \* bound on their number

\* delete is the --delete-before, -during or -after of a sync, and "off" for a
\* copy or a move; cutoff is the --cutoff-mode of --max-duration, "off" without
\* such a limit.  newSyncCopyMove and runSyncCopyMove refuse what is excluded
\* here, or change the options so that it does not occur.
Flag == {"move", "track-renames", "check-first", "order-by", "backup-dir", "immutable", "ignore-errors",
         "ignore-existing", "ignore-times", "update"}

Option ==
  {o \in [delete : {"off", "before", "during", "after"}, cutoff : {"off", "soft", "hard"}, flags : SUBSET Flag] :
     /\ "move" \in o.flags => o.delete = "off"
     /\ "track-renames" \in o.flags => o.delete = "after"}

Worker == Checker \cup Renamer \cup Transfer

\* Those who put pairs into pipes.
Producer == Dir \cup Checker \cup Renamer \cup {"main"}

ASSUME SyncAssumption ==
  /\ DirOf \in [File -> Dir] /\ Absent \notin Content
  /\ Options \subseteq Option
  /\ \A S \in {Dir, Checker, Renamer, Transfer} : IsFiniteSet(S) /\ S # {} /\ "main" \notin S
  /\ Dir \cap Worker = {} /\ Checker \cap Renamer = {} /\ Transfer \cap (Checker \cup Renamer) = {}
  /\ Backlog \in Nat \ {0} /\ MaxFaults \in Nat

VARIABLES
  opt,                  \* the options of this run
  src, dst, backup,     \* the trees
  mode, main, result,   \* s.deleteMode, where run is, and what it returned
  job, todo,            \* the march: state of each listing, names not called back for
  failed,               \* sides whose listing failed, for each directory
  jobErr,               \* errors of the march so far
  queue, tokens, open,  \* the pipes
  blocked,              \* the pipe whose channel a producer waits for
  work,                 \* "none", "idle" or "exited", for each goroutine
  busy,                 \* the pair that a transfer works on
  renameCheck, renameMap,
  dstFiles,             \* s.dstFiles
  dels, deleters,       \* the channel of files to delete; "off", "open", "closed" or "returned"
  dead, delErr,         \* deleters that met a fatal error, and the error so far
  errs, counted,        \* s.err, s.noRetryErr, s.fatalErr; the stats count an error
  ctx, inCtx,           \* the contexts: "live", "canceled" or "deadline"
  faults,               \* failures so far
  src0, dst0,           \* the trees as they were
  deleted               \* names that were deleted from the destination

trees == <<src, dst, backup>>
march == <<job, todo, failed, jobErr>>
pipes == <<queue, tokens, open, blocked>>
works == <<work, busy>>
renames == <<renameCheck, renameMap>>
deletes == <<dstFiles, dels, deleters, dead, delErr, deleted>>
errors == <<errs, counted, ctx, inCtx>>
stage == <<mode, main, result>>
first == <<opt, src0, dst0>>

vars == <<trees, march, pipes, works, renames, deletes, errors, stage, faults, first>>

DoMove == "move" \in opt.flags
TrackRenames == "track-renames" \in opt.flags
CheckFirst == "check-first" \in opt.flags
OrderBy == "order-by" \in opt.flags
BackupDir == "backup-dir" \in opt.flags
Immutable == "immutable" \in opt.flags
IgnoreErrors == "ignore-errors" \in opt.flags
IgnoreExisting == "ignore-existing" \in opt.flags
IgnoreTimes == "ignore-times" \in opt.flags
UpdateOlder == "update" \in opt.flags

Pipe == {"check", "rename", "upload"}

\* What pair.Dst is: nil, the object on the destination, or the source itself,
\* which asks for the source to be deleted.
Pair == [file : File, to : {"nil", "dst", "src"}]

Nobody == "nobody"

-----------------------------------------------------------------------------
(* Failures and errors *)

Fault(kind) ==
  /\ kind \in Faults /\ faults < MaxFaults
  /\ faults' = faults + 1

\* Where processError files an error.
Class(err) ==
  CASE err \in {"none", "live"} -> {}
    [] err \in {"deadline", "graceful", "noretry"} -> {"noretry"}
    [] err = "canceled" -> IF inCtx = "live" THEN {"err"} ELSE {}
    [] err = "fatal" -> {"fatal"}
    [] OTHER -> {"err"}

\* processError: a fatal error cancels both contexts, the graceful limit only
\* the one of the march and the pipes.
Report(err, count) ==
  /\ errs' = errs \cup Class(err)
  /\ counted' = (counted \/ count)
  /\ ctx' = IF err = "fatal" /\ ctx = "live" THEN "canceled" ELSE ctx
  /\ inCtx' = IF err \in {"fatal", "graceful"} /\ inCtx = "live" THEN "canceled" ELSE inCtx

NoError == UNCHANGED <<errors, faults>>

\* --max-duration runs out.  A context that was cancelled before stays so.
Deadline ==
  /\ opt.cutoff # "off" /\ inCtx # "deadline" /\ result = "running"
  /\ inCtx' = IF inCtx = "live" THEN "deadline" ELSE inCtx
  /\ ctx' = IF opt.cutoff = "hard" /\ ctx = "live" THEN "deadline" ELSE ctx
  /\ <<ctx', inCtx'>> # <<ctx, inCtx>>
  /\ UNCHANGED <<trees, march, pipes, works, renames, deletes, errs, counted, stage, faults, first>>

\* The caller cancels the context that it gave.
Cancel ==
  /\ ctx = "live" /\ result = "running" /\ Fault("cancel")
  /\ ctx' = "canceled"
  /\ inCtx' = IF inCtx = "live" THEN "canceled" ELSE inCtx
  /\ UNCHANGED <<trees, march, pipes, works, renames, deletes, errs, counted, stage, first>>

-----------------------------------------------------------------------------
(* Pipes *)

\* Put first adds the pair, and then waits for a place in the channel.
Put(who, p, pair) ==
  /\ queue' = [queue EXCEPT ![p] = @ \cup {pair}]
  /\ blocked' = [blocked EXCEPT ![who] = p]
  /\ UNCHANGED <<tokens, open>>

\* Put returns false at once when the context is done.
Offer(who, p, pair) == IF inCtx = "live" THEN Put(who, p, pair) ELSE UNCHANGED pipes

\* --check-first makes the backlog as large as it gets.
HasRoom(p) == CheckFirst \/ tokens[p] < Backlog

Sent(who) ==
  /\ blocked[who] # Nobody /\ HasRoom(blocked[who])
  /\ tokens' = [tokens EXCEPT ![blocked[who]] = @ + 1]
  /\ blocked' = [blocked EXCEPT ![who] = Nobody]
  /\ UNCHANGED <<trees, march, queue, open, works, renames, deletes, errors, stage, faults, first>>

\* Mutant: Put does not look at the context.
GivesUpNever == FALSE

GivesUp == inCtx # "live"

\* The context is done before there is a place: a goroutine ends, a callback
\* returns, and run leaves its loop (RenamesSent).
Unsent(who) ==
  /\ blocked[who] # Nobody /\ GivesUp
  /\ blocked' = [blocked EXCEPT ![who] = Nobody]
  /\ work' = [w \in DOMAIN work |-> IF w = who THEN "exited" ELSE work[w]]
  /\ UNCHANGED <<trees, march, queue, tokens, open, busy, renames, deletes, errors, stage, faults, first>>

Free(w) == work[w] = "idle" /\ (w \in DOMAIN blocked => blocked[w] = Nobody)

\* The goroutine gets the pair; what it puts in turn is put with it.
Get(w, p, pair) ==
  /\ Free(w) /\ inCtx = "live"
  /\ tokens[p] > 0 /\ pair \in queue[p]

Taken(p, pair) ==
  /\ tokens' = [tokens EXCEPT ![p] = @ - 1]
  /\ queue' = [queue EXCEPT ![p] = @ \ {pair}]
  /\ UNCHANGED <<open, blocked>>

PassedOn(w, p, pair, out, newPair) ==
  /\ tokens' = [tokens EXCEPT ![p] = @ - 1]
  /\ queue' = [queue EXCEPT ![p] = @ \ {pair}, ![out] = @ \cup {newPair}]
  /\ blocked' = [blocked EXCEPT ![w] = out]
  /\ UNCHANGED open

\* A closed channel is read to its end.
Drained(p) == ~open[p] /\ tokens[p] = 0

\* GetMax returns false, and the goroutine ends.
Exit(w, p) ==
  /\ Free(w) /\ (w \in Transfer => busy[w] = {})
  /\ inCtx # "live" \/ Drained(p)
  /\ work' = [work EXCEPT ![w] = "exited"]
  /\ UNCHANGED <<trees, march, pipes, busy, renames, deletes, errors, stage, faults, first>>

-----------------------------------------------------------------------------
(* The march *)

\* A worker of the march takes the job and lists both sides.  A listing that
\* fails delivers nothing.
List(d) ==
  /\ main = "march" /\ job[d] = "waiting"
  /\ Cardinality({e \in Dir : job[e] = "matching"}) < Cardinality(Checker)
  /\ job' = [job EXCEPT ![d] = "matching"]
  /\ \/ failed' = failed /\ faults' = faults
     \/ Fault("srclist") /\ failed' = [failed EXCEPT ![d] = {"src"}]
     \/ Fault("dstlist") /\ failed' = [failed EXCEPT ![d] = {"dst"}]
  /\ todo' = [todo EXCEPT ![d] =
       {f \in File : DirOf[f] = d /\ \/ src[f] # Absent /\ "src" \notin failed'[d]
                                     \/ dst[f] # Absent /\ "dst" \notin failed'[d]}]
  /\ UNCHANGED <<trees, jobErr, pipes, works, renames, deletes, errors, stage, first>>

InSrc(f) == src[f] # Absent /\ "src" \notin failed[DirOf[f]]
InDst(f) == dst[f] # Absent /\ "dst" \notin failed[DirOf[f]]

\* The callback for the next name of a directory that is being matched.
Called(d, f) ==
  /\ job[d] = "matching" /\ f \in todo[d] /\ blocked[d] = Nobody
  /\ todo' = [todo EXCEPT ![d] = @ \ {f}]
  /\ UNCHANGED <<trees, job, failed, jobErr, works, renameMap, dead, delErr, deleters, deleted, errors, stage, faults, first>>

SrcOnly(d, f) ==
  /\ Called(d, f) /\ InSrc(f) /\ ~InDst(f)
  /\ UNCHANGED <<dstFiles, dels>>
  /\ \/ mode = "only" /\ UNCHANGED <<pipes, renameCheck>>
     \/ mode # "only" /\ TrackRenames /\ UNCHANGED pipes
        /\ \/ renameCheck' = renameCheck \cup {f}
           \/ ctx # "live" /\ UNCHANGED renameCheck
     \/ mode # "only" /\ ~TrackRenames /\ UNCHANGED renameCheck
        /\ Offer(d, "upload", [file |-> f, to |-> "nil"])

Match(d, f) ==
  /\ Called(d, f) /\ InSrc(f) /\ InDst(f)
  /\ IF mode = "only" THEN UNCHANGED pipes
     ELSE Offer(d, "check", [file |-> f, to |-> "dst"])
  /\ UNCHANGED <<dstFiles, dels, renameCheck>>

DstOnly(d, f) ==
  /\ Called(d, f) /\ ~InSrc(f) /\ InDst(f)
  /\ UNCHANGED <<pipes, renameCheck>>
  /\ \/ mode = "off" /\ UNCHANGED <<dstFiles, dels>>
     \/ mode = "after" /\ dstFiles' = dstFiles \cup {f} /\ UNCHANGED dels
     \/ /\ mode \in {"during", "only"} /\ UNCHANGED dstFiles
        /\ \/ Cardinality(dels) < Cardinality(Checker) /\ dels' = dels \cup {f}
           \/ ctx # "live" /\ UNCHANGED dels

\* What processJob returns when it has matched: the error of a listing, the
\* destination's only if that was not cancelled.  A copy or a move cancels the
\* destination's listing when the source's is at its end.  The names that it then
\* misses are for DstOnly, which does nothing with them, and a failure that it
\* then hides left no name of the source to match: List without a failure.
JobError(d) ==
  IF "src" \in failed[d] \/ ("dst" \in failed[d] /\ inCtx = "live") THEN "err" ELSE "none"

\* The first error is kept; several errors are wrapped into one.
Joined(err) == IF err = "none" THEN jobErr ELSE IF jobErr = "none" THEN err ELSE "err"

JobDone(d) ==
  /\ job[d] = "matching" /\ todo[d] = {} /\ blocked[d] = Nobody
  /\ job' = [job EXCEPT ![d] = "done"]
  /\ jobErr' = Joined(JobError(d))
  /\ counted' = (counted \/ JobError(d) # "none")
  /\ UNCHANGED <<trees, todo, failed, pipes, works, renames, deletes, errs, ctx, inCtx, stage, faults, first>>

\* matchListings gives up with the error of the context.
JobAborted(d) ==
  /\ job[d] = "matching" /\ blocked[d] = Nobody /\ inCtx # "live"
  /\ job' = [job EXCEPT ![d] = "done"]
  /\ jobErr' = Joined(inCtx)
  /\ UNCHANGED <<trees, todo, failed, pipes, works, renames, deletes, errors, stage, faults, first>>

\* A job that has not begun is discarded.
JobDropped(d) ==
  /\ job[d] = "waiting" /\ inCtx # "live"
  /\ job' = [job EXCEPT ![d] = "done"]
  /\ UNCHANGED <<trees, todo, failed, jobErr, pipes, works, renames, deletes, errors, stage, faults, first>>

-----------------------------------------------------------------------------
(* pairChecker *)

\* What NeedTransfer may answer for a file that both sides have: yes, or no.  A
\* content is what Equal compares; whether the destination is newer is left
\* open, and so is what a comparison of sizes, which --update may make, finds.
NeedTransfer(f) == ~IgnoreExisting /\ (IgnoreTimes \/ src[f] # dst[f])
NoNeed(f) == IgnoreExisting \/ (~IgnoreTimes /\ (UpdateOlder \/ src[f] = dst[f]))

\* What the checker does with a pair is one step: nothing else works on the
\* file, and a pair that could not be passed on is left behind either way.
Check(c, pair) ==
  LET f == pair.file
      done == Taken("check", pair)
      pass(to) == PassedOn(c, "check", pair, "upload", [file |-> f, to |-> to])
  IN
  /\ Get(c, "check", pair)
  /\ \/ /\ NeedTransfer(f) /\ Immutable
        /\ done /\ Report("noretry", TRUE) /\ UNCHANGED <<trees, faults>>
     \/ /\ NeedTransfer(f) /\ ~Immutable /\ BackupDir
        /\ \/ /\ backup' = [backup EXCEPT ![f] = dst[f]] /\ dst' = [dst EXCEPT ![f] = Absent]
              /\ pass("nil") /\ NoError /\ UNCHANGED src
           \/ Fault("backup") /\ done /\ Report("err", TRUE) /\ UNCHANGED trees
     \/ /\ NeedTransfer(f) /\ ~Immutable /\ ~BackupDir
        /\ pass("dst") /\ NoError /\ UNCHANGED trees
     \/ /\ NoNeed(f) /\ (~DoMove \/ IgnoreExisting)
        /\ done /\ NoError /\ UNCHANGED trees
     \/ /\ NoNeed(f) /\ DoMove /\ ~IgnoreExisting /\ CheckFirst /\ OrderBy
        /\ pass("src") /\ NoError /\ UNCHANGED trees
     \/ /\ NoNeed(f) /\ DoMove /\ ~IgnoreExisting /\ ~(CheckFirst /\ OrderBy) /\ UNCHANGED <<dst, backup>>
        /\ \/ src' = [src EXCEPT ![f] = Absent] /\ done /\ NoError
           \/ Fault("delete") /\ done /\ Report("err", TRUE) /\ UNCHANGED src
  /\ UNCHANGED <<march, works, renames, deletes, stage, first>>

-----------------------------------------------------------------------------
(* pairRenamer *)

\* tryRename: the file of the destination that has the content, if one is left,
\* moves to the name; a failed move is counted but not reported, and the pair
\* goes on to the transfers.
Rename(r, pair) ==
  LET f == pair.file
      pass == PassedOn(r, "rename", pair, "upload", pair)
      same == {x \in renameMap : dst[x] = src[f]}
  IN
  /\ Get(r, "rename", pair)
  /\ \/ /\ same = {}
        /\ pass /\ NoError /\ UNCHANGED <<dst, dstFiles, renameMap>>
     \/ \E x \in same :
          /\ renameMap' = renameMap \ {x}
          /\ \/ /\ dst' = [dst EXCEPT ![f] = dst[x], ![x] = Absent]
                /\ dstFiles' = dstFiles \ {x}
                /\ Taken("rename", pair) /\ NoError
             \/ /\ Fault("rename") /\ counted' = TRUE
                /\ \E kept \in {dst[f], Absent, dst[x]} : dst' = [dst EXCEPT ![f] = kept]
                /\ pass /\ UNCHANGED <<dstFiles, errs, ctx, inCtx>>
  /\ UNCHANGED <<src, backup, march, works, renameCheck, dels, deleters, dead, delErr, deleted, stage, first>>

-----------------------------------------------------------------------------
(* pairCopyOrMove *)

TransferStart(t, pair) ==
  /\ Get(t, "upload", pair) /\ busy[t] = {}
  /\ Taken("upload", pair)
  /\ busy' = [busy EXCEPT ![t] = {pair}]
  /\ UNCHANGED <<trees, march, work, renames, deletes, errors, stage, faults, first>>

Transferred(t) == busy' = [busy EXCEPT ![t] = {}]

\* Mutant: the source is removed before the copy is made.
CopiedLast(t, pair) ==
  /\ busy[t] = {pair} /\ DoMove /\ pair.to # "src"
  /\ src' = [src EXCEPT ![pair.file] = Absent]
  /\ busy' = [busy EXCEPT ![t] = {[pair EXCEPT !.to = "src"]}]
  /\ UNCHANGED <<dst, backup, march, pipes, work, renames, deletes, errors, stage, faults, first>>

\* A move that is not made by the server: the file is copied, and what is left
\* to do is to delete the source.
TransferCopied(t, pair) ==
  /\ busy[t] = {pair} /\ DoMove /\ pair.to # "src"
  /\ dst' = [dst EXCEPT ![pair.file] = src[pair.file]]
  /\ busy' = [busy EXCEPT ![t] = {[file |-> pair.file, to |-> "src"]}]
  /\ UNCHANGED <<src, backup, march, pipes, work, renames, deletes, errors, stage, faults, first>>

\* A copy, the delete that ends a move, or a move on the server.
TransferOK(t, pair) ==
  /\ busy[t] = {pair} /\ Transferred(t)
  /\ dst' = IF pair.to = "src" THEN dst ELSE [dst EXCEPT ![pair.file] = src[pair.file]]
  /\ src' = IF DoMove THEN [src EXCEPT ![pair.file] = Absent] ELSE src
  /\ UNCHANGED <<backup, march, pipes, work, renames, deletes, errors, stage, faults, first>>

\* A failed copy leaves the destination alone or removed; a failed move on the
\* server may also have made the copy.
TransferFailed(t, pair) ==
  /\ busy[t] = {pair} /\ Transferred(t)
  /\ IF pair.to = "src" THEN dst' = dst
     ELSE \E kept \in {dst[pair.file], Absent} \cup (IF DoMove THEN {src[pair.file]} ELSE {}) :
            dst' = [dst EXCEPT ![pair.file] = kept]
  /\ \/ Fault("copy") /\ Report("err", TRUE)
     \/ Fault("fatal") /\ Report("fatal", TRUE)
     \/ ctx # "live" /\ Report("err", TRUE) /\ UNCHANGED faults
  /\ UNCHANGED <<src, backup, march, pipes, work, renames, deletes, stage, first>>

\* --max-transfer is reached before the copy begins, and the cutoff is not hard.
\* A move that falls back to a copy has deleted the destination.
TransferLimit(t, pair) ==
  /\ busy[t] = {pair} /\ pair.to # "src" /\ Transferred(t)
  /\ Fault("limit") /\ Report("graceful", TRUE)
  /\ dst' = dst \/ (DoMove /\ dst' = [dst EXCEPT ![pair.file] = Absent])
  /\ UNCHANGED <<src, backup, march, pipes, work, renames, deletes, stage, first>>

-----------------------------------------------------------------------------
(* DeleteFilesWithBackupDir *)

\* Mutant: --backup-dir is not given to the deleters.
SavedNever(f) == backup

\* With --backup-dir the file is moved there.
Saved(f) == IF BackupDir THEN [backup EXCEPT ![f] = dst[f]] ELSE backup

AllDead == dead = Cardinality(Checker)

DeleteOne(f) ==
  /\ deleters \in {"open", "closed"} /\ f \in dels /\ ~AllDead
  /\ dels' = dels \ {f}
  /\ \/ /\ dst' = [dst EXCEPT ![f] = Absent] /\ backup' = Saved(f)
        /\ deleted' = deleted \cup {f}
        /\ UNCHANGED <<delErr, dead, counted, faults>>
     \/ /\ Fault("delete") \/ (ctx # "live" /\ UNCHANGED faults)
        /\ delErr' = IF delErr = "fatal" THEN "fatal" ELSE "err"
        /\ counted' = TRUE /\ UNCHANGED <<dst, backup, deleted, dead>>
     \/ /\ Fault("maxdelete") /\ delErr' = "fatal" /\ dead' = dead + 1
        /\ counted' = TRUE /\ UNCHANGED <<dst, backup, deleted>>
  /\ UNCHANGED <<src, march, pipes, works, renames, dstFiles, deleters, errs, ctx, inCtx, stage, first>>

\* Mutant: the deleters stop when the channel is closed.
AllReadNot == deleters = "closed"

\* The channel is read to its end.
AllRead == deleters = "closed" /\ dels = {}

DeletersReturn ==
  /\ deleters \in {"open", "closed"} /\ (AllDead \/ AllRead)
  /\ deleters' = "returned"
  /\ Report(delErr, FALSE)
  /\ UNCHANGED <<trees, march, pipes, works, renames, dstFiles, dels, dead, delErr, deleted, stage, faults, first>>

-----------------------------------------------------------------------------
(* run *)

\* The march is over: its error is processed, and the possible renames are
\* collected.
Marched ==
  /\ main = "march" /\ \A d \in Dir : job[d] = "done"
  /\ Report(jobErr, FALSE)
  /\ main' = IF TrackRenames THEN "map" ELSE "checks"
  /\ open' = IF TrackRenames THEN open ELSE [open EXCEPT !["check"] = FALSE]
  /\ UNCHANGED <<trees, march, queue, tokens, blocked, works, renames, deletes, mode, result, faults, first>>

\* makeRenameMap stops early when the context is done.
MakeRenameMap ==
  /\ main = "map" /\ main' = "rename"
  /\ \/ renameMap' = dstFiles
     \/ ctx # "live" /\ renameMap' \in SUBSET dstFiles
  /\ UNCHANGED <<trees, march, pipes, works, renameCheck, deletes, errors, mode, result, faults, first>>

OfferRename(f) ==
  /\ main = "rename" /\ f \in renameCheck /\ blocked["main"] = Nobody /\ inCtx = "live"
  /\ renameCheck' = renameCheck \ {f}
  /\ Put("main", "rename", [file |-> f, to |-> "nil"])
  /\ UNCHANGED <<trees, march, works, renameMap, deletes, errors, stage, faults, first>>

\* All are sent, or the loop broke off; stopCheckers closes the pipe.
RenamesSent ==
  /\ main = "rename" /\ blocked["main"] = Nobody
  /\ renameCheck = {} \/ inCtx # "live"
  /\ main' = "checks" /\ open' = [open EXCEPT !["check"] = FALSE]
  /\ UNCHANGED <<trees, march, queue, tokens, blocked, works, renames, deletes, errors, mode, result, faults, first>>

Over(stageWorkers) == \A w \in stageWorkers : work[w] = "exited"

\* checkerWg.Wait; --check-first starts the transfers only now; stopRenamers
\* closes its pipe.
Checked ==
  /\ main = "checks" /\ Over(Checker)
  /\ main' = "renames"
  /\ work' = IF CheckFirst THEN [w \in DOMAIN work |-> IF w \in Transfer THEN "idle" ELSE work[w]] ELSE work
  /\ open' = [open EXCEPT !["rename"] = ~TrackRenames]
  /\ UNCHANGED <<trees, march, queue, tokens, blocked, busy, renames, deletes, errors, mode, result, faults, first>>

\* Mutant: stopTransfers does not wait for the renamers.
RenamersOverNot == TRUE

RenamersOver == ~TrackRenames \/ Over(Renamer)

\* stopRenamers has waited; stopTransfers closes its pipe.
Renamed ==
  /\ main = "renames" /\ RenamersOver
  /\ main' = "transfers" /\ open' = [open EXCEPT !["upload"] = FALSE]
  /\ UNCHANGED <<trees, march, queue, tokens, blocked, works, renames, deletes, errors, mode, result, faults, first>>

TransfersOver == Over(Transfer)

\* stopTransfers has waited; stopDeleters closes the channel.
TransfersDone ==
  /\ main = "transfers" /\ TransfersOver
  /\ main' = "deletes"
  /\ deleters' = IF deleters = "open" THEN "closed" ELSE deleters
  /\ UNCHANGED <<trees, march, pipes, works, renames, dstFiles, dels, dead, delErr, deleted, errors, mode, result, faults, first>>

\* Mutants: files are deleted after any error; after an error that is not to be
\* retried, such as a limit.
MayDeleteAlways == TRUE
MayDeleteNoRetry == errs \subseteq {"noretry"}

\* currentError, and what deleteFiles asks of the stats: an error that was only
\* counted is an error as well.
MayDelete == IgnoreErrors \/ (errs = {} /\ ~counted)

\* stopDeleters has waited.  With --delete-after the deleting begins now.
DeletersDone ==
  /\ main = "deletes" /\ deleters \in {"off", "returned"}
  /\ \/ mode # "after" /\ main' = "end" /\ UNCHANGED <<deleters, errors>>
     \/ /\ mode = "after" /\ ~MayDelete
        /\ main' = "end" /\ Report(IF errs = {} THEN "err" ELSE "none", FALSE) /\ UNCHANGED deleters
     \/ /\ mode = "after" /\ MayDelete
        /\ main' = "after" /\ deleters' = "open" /\ UNCHANGED errors
  /\ UNCHANGED <<trees, march, pipes, works, renames, dstFiles, dels, dead, delErr, deleted, mode, result, faults, first>>

\* deleteFiles hands the files to the deleters.
Pump(f) ==
  /\ main = "after" /\ deleters = "open" /\ f \in dstFiles /\ ctx = "live"
  /\ Cardinality(dels) < Cardinality(Checker)
  /\ dels' = dels \cup {f} /\ dstFiles' = dstFiles \ {f}
  /\ UNCHANGED <<trees, march, pipes, works, renames, deleters, dead, delErr, deleted, errors, stage, faults, first>>

PumpEnds ==
  /\ main = "after" /\ deleters = "open" /\ (dstFiles = {} \/ ctx # "live")
  /\ deleters' = "closed"
  /\ UNCHANGED <<trees, march, pipes, works, renames, dstFiles, dels, dead, delErr, deleted, errors, stage, faults, first>>

AfterDone ==
  /\ main = "after" /\ deleters = "returned"
  /\ main' = "end"
  /\ UNCHANGED <<trees, march, pipes, works, renames, deletes, errors, mode, result, faults, first>>

\* The errors of the contexts; the deadline is a fatal error in the end, and an
\* error of a canceled context is not one (see Class).
Final == errs \cup Class(ctx) \cup Class(inCtx) \cup (IF "deadline" \in {ctx, inCtx} THEN {"fatal"} ELSE {})

Return ==
  /\ main = "end" /\ main' = "returned"
  /\ errs' = Final
  /\ result' = IF Final # {} THEN "error" ELSE IF mode = "only" THEN "running" ELSE "ok"
  /\ UNCHANGED <<trees, march, pipes, works, renames, deletes, counted, ctx, inCtx, mode, faults, first>>

Started == [w \in Worker |->
              IF (w \in Transfer /\ CheckFirst) \/ (w \in Renamer /\ ~TrackRenames) THEN "none" ELSE "idle"]

Unblocked == [w \in Producer |-> Nobody]

\* --delete-before: a pass that only deletes is followed by one that copies,
\* which is a new syncCopyMove under the same context of the caller.  There was
\* no error, so if the context is done the caller has cancelled it.
SecondPass ==
  /\ main = "returned" /\ result = "running"
  /\ mode' = "off" /\ main' = "march" /\ result' = result
  /\ job' = [d \in Dir |-> "waiting"] /\ todo' = [d \in Dir |-> {}]
  /\ failed' = [d \in Dir |-> {}] /\ jobErr' = "none"
  /\ queue' = [p \in Pipe |-> {}] /\ tokens' = [p \in Pipe |-> 0] /\ open' = [p \in Pipe |-> TRUE]
  /\ blocked' = Unblocked /\ work' = Started /\ busy' = [t \in Transfer |-> {}]
  /\ dels' = {} /\ deleters' = "off" /\ dead' = 0 /\ delErr' = "none"
  /\ inCtx' = ctx
  /\ UNCHANGED <<trees, renames, dstFiles, deleted, errs, counted, ctx, faults, first>>

Init ==
  /\ opt \in Options
  /\ src \in [File -> Content \cup {Absent}] /\ dst \in [File -> Content \cup {Absent}]
  /\ src0 = src /\ dst0 = dst /\ backup = [f \in File |-> Absent]
  /\ mode = IF opt.delete = "before" THEN "only" ELSE opt.delete
  /\ main = "march" /\ result = "running"
  /\ job = [d \in Dir |-> "waiting"] /\ todo = [d \in Dir |-> {}]
  /\ failed = [d \in Dir |-> {}] /\ jobErr = "none"
  /\ queue = [p \in Pipe |-> {}] /\ tokens = [p \in Pipe |-> 0] /\ open = [p \in Pipe |-> TRUE]
  /\ blocked = Unblocked /\ work = Started /\ busy = [t \in Transfer |-> {}]
  /\ renameCheck = {} /\ renameMap = {} /\ dstFiles = {} /\ dels = {}
  /\ deleters = IF mode \in {"during", "only"} THEN "open" ELSE "off"
  /\ dead = 0 /\ delErr = "none" /\ deleted = {}
  /\ errs = {} /\ counted = FALSE /\ ctx = "live" /\ inCtx = "live" /\ faults = 0

Marching(d) ==
  \/ List(d) \/ JobDone(d) \/ JobAborted(d) \/ JobDropped(d)
  \/ \E f \in File : SrcOnly(d, f) \/ Match(d, f) \/ DstOnly(d, f)

Checking(c) == Exit(c, "check") \/ \E pair \in Pair : Check(c, pair)
Renaming(r) == Exit(r, "rename") \/ \E pair \in Pair : Rename(r, pair)
Transferring(t) ==
  \/ Exit(t, "upload")
  \/ \E pair \in Pair :
       \/ TransferStart(t, pair) \/ TransferCopied(t, pair) \/ TransferOK(t, pair)
       \/ TransferFailed(t, pair) \/ TransferLimit(t, pair)
Putting(w) == Sent(w) \/ Unsent(w)
Deleting == DeletersReturn \/ \E f \in File : DeleteOne(f)

Main ==
  \/ Marched \/ MakeRenameMap \/ RenamesSent \/ Checked \/ Renamed \/ TransfersDone \/ DeletersDone
  \/ PumpEnds \/ AfterDone \/ Return \/ SecondPass
  \/ \E f \in File : OfferRename(f) \/ Pump(f)

Done == result # "running" /\ UNCHANGED vars

Next ==
  \/ \E d \in Dir : Marching(d)
  \/ \E c \in Checker : Checking(c)
  \/ \E r \in Renamer : Renaming(r)
  \/ \E t \in Transfer : Transferring(t)
  \/ \E w \in DOMAIN blocked : Putting(w)
  \/ Deleting \/ Main \/ Deadline \/ Cancel \/ Done

Spec == Init /\ [][Next]_vars

\* Goroutines run, listings and transfers end.
Fairness ==
  /\ \A d \in Dir : WF_vars(Marching(d)) /\ WF_vars(Putting(d))
  /\ \A c \in Checker : WF_vars(Checking(c)) /\ WF_vars(Putting(c))
  /\ \A r \in Renamer : WF_vars(Renaming(r)) /\ WF_vars(Putting(r))
  /\ \A t \in Transfer : WF_vars(Transferring(t))
  /\ WF_vars(Deleting) /\ WF_vars(Main) /\ WF_vars(Putting("main"))

FairSpec == Spec /\ Fairness

-----------------------------------------------------------------------------
(* Properties *)

\* Type invariant; the channel of a pipe holds no more than the backlog.
TypeOK ==
  /\ opt \in Options
  /\ {src, dst, backup, src0, dst0} \subseteq [File -> Content \cup {Absent}]
  /\ mode \in {"off", "only", "during", "after"} /\ result \in {"running", "ok", "error"}
  /\ main \in {"march", "map", "rename", "checks", "renames", "transfers", "deletes", "after", "end", "returned"}
  /\ job \in [Dir -> {"waiting", "matching", "done"}] /\ todo \in [Dir -> SUBSET File]
  /\ failed \in [Dir -> SUBSET {"src", "dst"}] /\ jobErr \in {"none", "err", "canceled", "deadline"}
  /\ queue \in [Pipe -> SUBSET Pair] /\ tokens \in [Pipe -> Nat] /\ open \in [Pipe -> BOOLEAN]
  /\ \A p \in Pipe : (~CheckFirst => tokens[p] <= Backlog)
  /\ blocked \in [Producer -> Pipe \cup {Nobody}]
  /\ work \in [Worker -> {"none", "idle", "exited"}]
  /\ busy \in [Transfer -> {{}} \cup {{pair} : pair \in Pair}]
  /\ {renameCheck, renameMap, dstFiles, dels, deleted} \subseteq SUBSET File
  /\ deleters \in {"off", "open", "closed", "returned"} /\ dead \in 0 .. Cardinality(Checker)
  /\ delErr \in {"none", "err", "fatal"} /\ errs \subseteq {"err", "noretry", "fatal"}
  /\ counted \in BOOLEAN /\ faults \in Nat /\ {ctx, inCtx} \subseteq {"live", "canceled", "deadline"}

\* Nobody waits to write to a pipe that is closed, for that would panic; and
\* whoever takes a token finds a pair for it.
PipesSafe ==
  /\ \A w \in DOMAIN blocked : blocked[w] # Nobody => open[blocked[w]]
  /\ \A p \in Pipe : tokens[p] <= Cardinality(queue[p])

\* --ignore-existing or --update has left the file of the destination as it was.
Skipped(f) == (IgnoreExisting \/ UpdateOlder) /\ dst0[f] # Absent /\ dst[f] = dst0[f]

\* A run that is not cancelled and reports no error has made the destination
\* like the source: all that a sync deletes is gone, and nothing that had to be
\* copied got stuck in a stage that was stopped too early.  A move has emptied
\* the source, but for what --ignore-existing makes it leave.
Synced ==
  result = "ok" /\ ctx = "live" =>
    \A f \in File :
      /\ src0[f] # Absent => dst[f] = src0[f] \/ Skipped(f)
      /\ src0[f] = Absent => dst[f] = IF opt.delete = "off" THEN dst0[f] ELSE Absent
      /\ \/ src[f] = IF DoMove THEN Absent ELSE src0[f]
         \/ IgnoreExisting /\ Skipped(f) /\ src[f] = src0[f]

\* The documentation of sync: files are not deleted from the destination if
\* there was an error, so one that is on the source is never deleted there,
\* even if the listing of the source fails and it seems to be missing.
OnlyAbsentDeleted == \A f \in deleted : src0[f] = Absent

\* With --delete-after this is so, unless errors are to be ignored.
DeletesOnlyAbsent == opt.delete = "after" /\ ~IgnoreErrors => OnlyAbsentDeleted

\* --delete-after deletes when everything has been transferred and not before,
\* unless errors are to be ignored or a soft deadline ends the stages.
DeletesLast ==
  opt.delete = "after" /\ opt.cutoff # "soft" /\ ~IgnoreErrors /\ deleted # {}
    => \A f \in File : src0[f] # Absent => dst[f] = src0[f] \/ Skipped(f)

\* Whatever fails, the content of a source file is on the source or has been
\* moved to the destination; or --update has found that the destination has a
\* newer one, which is still there.
NothingLost ==
  \A f \in File : src0[f] # Absent => src0[f] \in {src[f], dst[f]} \/ (UpdateOlder /\ Skipped(f))

\* With --backup-dir the file that was at the destination is still there or in
\* the backup, if its directory could be listed; or --track-renames gave it
\* another name.
BackedUp ==
  BackupDir =>
    \A f \in File : dst0[f] # Absent /\ "dst" \notin failed[DirOf[f]] =>
      \/ dst0[f] \in {dst[f], backup[f]}
      \/ TrackRenames /\ \E g \in File : dst[g] = dst0[f]

\* The run returns: no stage waits for another for ever, whatever fails.
Returns == <>(result # "running")

=============================================================================
