----------------------------- MODULE IndexCache -----------------------------
(***************************************************************************)
(* The index cache of one project, ~/.cache/scip-cli/projects/<slug>/,     *)
(* shared by every scip-cli process that works on the project: queries     *)
(* (GetDB, which builds the index when there is none) and reindex          *)
(* commands (Reindex, which always rebuilds).  The files are index.db      *)
(* (live), index.db.next with its SQLite write-ahead log (next, nextWal),  *)
(* metadata.json (metaFile) and the flock on .index.lock (lock).           *)
(*                                                                         *)
(* Every step that another process could interleave with is an action of   *)
(* its own, and a process may die between any two of them.                 *)
(***************************************************************************)
EXTENDS Naturals, FiniteSets

CONSTANTS Procs,        \* the processes
          NoProc,       \* the lock is free
          NoFile,       \* a file that does not exist
          Scopes,       \* the lists a persisted scope may hold ...
          NoScope,      \* ... the empty one among them
          BadScopes,    \* scopes under which no TypeScript project is found
          Globs,        \* the lists of persisted exclude globs ...
          NoGlob,       \* ... the empty one among them
          Keep,         \* an update that leaves a list alone
          Torn,         \* a metadata.json that is truncated, not yet written
          Updates,      \* the metadata updates reindex commands carry
          MaxCommands,  \* bound: commands started
          MaxCrashes    \* bound: processes that die in a command

Meta   == [scope : Scopes, exclude : Globs]
Update == [fresh   : BOOLEAN,
           scope   : Scopes \cup {Keep},
           exclude : Globs \cup {Keep}]

ASSUME CacheAssumption ==
    /\ NoProc \notin Procs
    /\ NoScope \in Scopes /\ NoGlob \in Globs
    /\ Keep \notin Scopes \cup Globs
    /\ Torn \notin Meta
    /\ Updates \subseteq Update
    /\ MaxCommands \in Nat /\ MaxCrashes \in Nat

Ids   == 1..MaxCommands          \* a command's number names what it built
Index == [by : Ids, meta : Meta, state : {"partial", "whole", "mixed"}]
Whole == {ix \in Index : ix.state = "whole"}

ASSUME NoFileAssumption == NoFile \notin Index

VARIABLES pc,        \* pc[p]: where process p is in its command
          job,       \* job[p]: the command p runs, or ran last
          using,     \* using[p]: the metadata p saves, or builds with
          failed,    \* failed[p]: p's command has met an error
          conns,     \* conns[p]: the index files p's connections have open
          lock,      \* the holder of the flock on .index.lock
          live,      \* index.db
          next,      \* index.db.next
          nextWal,   \* 0, or the command whose frames index.db.next-wal holds
          metaFile,  \* metadata.json
          issued,    \* commands started
          crashes    \* processes that died in a command

disk == <<live, next, nextWal, metaFile>>
proc == <<pc, job, using, failed, conns>>
vars == <<pc, job, using, failed, conns, lock, live, next, nextWal, metaFile,
          issued, crashes>>

NoMeta   == [scope |-> NoScope, exclude |-> NoGlob]
NoUpdate == [fresh |-> FALSE, scope |-> Keep, exclude |-> Keep]
Job      == [kind : {"query", "reindex"}, id : 0..MaxCommands, update : Update]

\* The places where a process holds the lock, whichever command it runs ...
Saving    == {"apply", "write"}
Preparing == {"cleanup", "cleanupWal", "load", "build"}
Filling   == {"direct", "copy", "merge"}
Promoting == {"promote", "rename"}
Giving    == {"abort", "abortWal", "unlock"}
Building  == Preparing \cup Filling \cup Promoting
Locked    == {"recheck"} \cup Saving \cup Building \cup Giving
\* ... and those where it does not; at "open" it holds it if it came through
\* the lock.
PCs == Locked \cup {"idle", "find", "lock", "open", "session"}

TypeOK == /\ pc \in [Procs -> PCs]
          /\ job \in [Procs -> Job]
          /\ using \in [Procs -> Meta]
          /\ failed \in [Procs -> BOOLEAN]
          /\ conns \in [Procs -> SUBSET Index]
          /\ lock \in Procs \cup {NoProc}
          /\ live \in Index \cup {NoFile}
          /\ next \in Index \cup {NoFile}
          /\ nextWal \in 0..MaxCommands
          /\ metaFile \in Meta \cup {Torn}
          /\ issued \in 0..MaxCommands
          /\ crashes \in 0..MaxCrashes

Init == /\ pc = [p \in Procs |-> "idle"]
        /\ job = [p \in Procs |->
                    [kind |-> "query", id |-> 0, update |-> NoUpdate]]
        /\ using = [p \in Procs |-> NoMeta]
        /\ failed = [p \in Procs |-> FALSE]
        /\ conns = [p \in Procs |-> {}]
        /\ lock = NoProc
        /\ live = NoFile /\ next = NoFile /\ nextWal = 0
        /\ metaFile = NoMeta
        /\ issued = 0 /\ crashes = 0

Goto(p, from, to) == pc[p] = from /\ pc' = [pc EXCEPT ![p] = to]

\* LoadMetadata: a file that is missing or does not parse is an empty one.
Load(file) == IF file = Torn THEN NoMeta ELSE file

-----------------------------------------------------------------------------
(* Commands start.                                                         *)

Start(p, kind, update, at) ==
    /\ issued < MaxCommands
    /\ Goto(p, "idle", at)
    /\ issued' = issued + 1
    /\ job' = [job EXCEPT ![p] =
                 [kind |-> kind, id |-> issued + 1, update |-> update]]
    /\ failed' = [failed EXCEPT ![p] = FALSE]
    /\ UNCHANGED <<using, conns, lock, disk, crashes>>

StartQuery(p)   == Start(p, "query", NoUpdate, "find")
StartReindex(p) == \E u \in Updates : Start(p, "reindex", u, "lock")

\* Mutant: an index that is there is not seen before the lock is taken.
FindNothing(p) ==
    /\ Goto(p, "find", "lock")
    /\ UNCHANGED <<job, using, failed, conns, lock, disk, issued, crashes>>

\* GetDB looks for index.db before it takes the lock ...
FindIndex(p) ==
    /\ Goto(p, "find", IF live # NoFile THEN "open" ELSE "lock")
    /\ UNCHANGED <<job, using, failed, conns, lock, disk, issued, crashes>>

\* Mutant: the lock is not waited for.
AcquireNoLock(p) ==
    /\ Goto(p, "lock", IF job[p].kind = "query" THEN "recheck" ELSE "apply")
    /\ lock' = p
    /\ UNCHANGED <<job, using, failed, conns, disk, issued, crashes>>

AcquireLock(p) ==
    /\ lock = NoProc
    /\ Goto(p, "lock", IF job[p].kind = "query" THEN "recheck" ELSE "apply")
    /\ lock' = p
    /\ UNCHANGED <<job, using, failed, conns, disk, issued, crashes>>

\* The lock file cannot be opened or locked; the command gives up.
LockFails(p) ==
    /\ Goto(p, "lock", "idle")
    /\ failed' = [failed EXCEPT ![p] = TRUE]
    /\ UNCHANGED <<job, using, conns, lock, disk, issued, crashes>>

\* Mutant: the index is not looked for again under the lock.
NoRecheck(p) ==
    /\ Goto(p, "recheck", "cleanup")
    /\ UNCHANGED <<job, using, failed, conns, lock, disk, issued, crashes>>

\* ... and once more when it has it.
RecheckIndex(p) ==
    /\ Goto(p, "recheck", IF live # NoFile THEN "open" ELSE "cleanup")
    /\ UNCHANGED <<job, using, failed, conns, lock, disk, issued, crashes>>

-----------------------------------------------------------------------------
(* Reindex saves its metadata first.                                       *)

Changes(u) == u.fresh \/ u.scope # Keep \/ u.exclude # Keep

Applied(u, m) ==
    LET base == IF u.fresh THEN NoMeta ELSE m
    IN  [scope   |-> IF u.scope = Keep THEN base.scope ELSE u.scope,
         exclude |-> IF u.exclude = Keep THEN base.exclude ELSE u.exclude]

\* Nothing to save, a file to remove, or a file to truncate and then write.
ApplyMetadata(p) ==
    LET u == job[p].update
        m == Applied(u, Load(metaFile))
    IN  /\ \/ /\ ~Changes(u)
              /\ Goto(p, "apply", "cleanup")
              /\ UNCHANGED <<metaFile, using>>
           \/ /\ Changes(u) /\ m = NoMeta
              /\ Goto(p, "apply", "cleanup")
              /\ metaFile' = NoMeta
              /\ UNCHANGED using
           \/ /\ Changes(u) /\ m # NoMeta
              /\ Goto(p, "apply", "write")
              /\ metaFile' = Torn
              /\ using' = [using EXCEPT ![p] = m]
        /\ UNCHANGED <<job, failed, conns, lock, live, next, nextWal,
                       issued, crashes>>

\* Mutant: the update is written, not what it makes of the saved metadata.
WriteUpdate(p) ==
    /\ Goto(p, "write", "cleanup")
    /\ metaFile' = job[p].update
    /\ UNCHANGED <<job, using, failed, conns, lock, live, next, nextWal,
                   issued, crashes>>

WriteMetadata(p) ==
    /\ Goto(p, "write", "cleanup")
    /\ metaFile' = using[p]
    /\ UNCHANGED <<job, using, failed, conns, lock, live, next, nextWal,
                   issued, crashes>>

\* The file cannot be removed, created or written; Reindex gives up.
SaveFails(p) ==
    /\ \/ Changes(job[p].update) /\ Goto(p, "apply", "unlock")
       \/ Goto(p, "write", "unlock")
    /\ failed' = [failed EXCEPT ![p] = TRUE]
    /\ UNCHANGED <<job, using, conns, lock, disk, issued, crashes>>

-----------------------------------------------------------------------------
(* CleanupInProgressIndex, before every build and after a failed one.      *)

RemoveNext(p) ==
    /\ Goto(p, "cleanup", "cleanupWal") \/ Goto(p, "abort", "abortWal")
    /\ next' = NoFile
    /\ UNCHANGED <<job, using, failed, conns, lock, live, nextWal, metaFile,
                   issued, crashes>>

\* Mutant: the write-ahead log is left behind.
RemoveNoSidecars(p) ==
    /\ Goto(p, "cleanupWal", "load") \/ Goto(p, "abortWal", "unlock")
    /\ UNCHANGED <<job, using, failed, conns, lock, disk, issued, crashes>>

RemoveNextSidecars(p) ==
    /\ Goto(p, "cleanupWal", "load") \/ Goto(p, "abortWal", "unlock")
    /\ nextWal' = 0
    /\ UNCHANGED <<job, using, failed, conns, lock, live, next, metaFile,
                   issued, crashes>>

-----------------------------------------------------------------------------
(* indexProject.                                                           *)

\* Mutant: the build uses the command's options, without the saved ones.
LoadOptions(p) ==
    /\ Load(metaFile).scope \notin BadScopes
    /\ Goto(p, "load", "build")
    /\ using' = [using EXCEPT ![p] = Applied(job[p].update, NoMeta)]
    /\ UNCHANGED <<job, failed, conns, lock, disk, issued, crashes>>

\* The build reads the exclude globs and the scope it is to use.
LoadConfig(p) ==
    /\ Load(metaFile).scope \notin BadScopes
    /\ Goto(p, "load", "build")
    /\ using' = [using EXCEPT ![p] = Load(metaFile)]
    /\ UNCHANGED <<job, failed, conns, lock, disk, issued, crashes>>

Partial(p) == [by |-> job[p].id, meta |-> using[p], state |-> "partial"]
Done(ix)   == [ix EXCEPT !.state = IF @ = "partial" THEN "whole" ELSE @]

\* One TypeScript batch: index.db.next is removed and scip converts into it.
\* SQLite deletes the log it finds beside a database it creates.
BeginDirect(p) ==
    /\ Goto(p, "build", "direct")
    /\ next' = Partial(p)
    /\ nextWal' = job[p].id
    /\ UNCHANGED <<job, using, failed, conns, lock, live, metaFile,
                   issued, crashes>>

\* Otherwise the first part is copied over it from the temporary directory.
BeginCopy(p) ==
    /\ Goto(p, "build", "copy")
    /\ next' = Partial(p)
    /\ UNCHANGED <<job, using, failed, conns, lock, live, nextWal, metaFile,
                   issued, crashes>>

\* With more than one part SQLite opens the copy, and first replays a log
\* that it finds beside it.
OpenForMerge(p) ==
    /\ Goto(p, "copy", "merge")
    /\ next' = [next EXCEPT !.state = IF nextWal \in {0, job[p].id}
                                      THEN @ ELSE "mixed"]
    /\ nextWal' = job[p].id
    /\ UNCHANGED <<job, using, failed, conns, lock, live, metaFile,
                   issued, crashes>>

\* The last transaction is committed and the database closed, which empties
\* the log and removes it; or the only part is copied.
EndFill(p) ==
    /\ \/ /\ Goto(p, "direct", "promote") \/ Goto(p, "merge", "promote")
          /\ nextWal' = 0
       \/ /\ Goto(p, "copy", "promote")
          /\ UNCHANGED nextWal
    /\ next' = Done(next)
    /\ UNCHANGED <<job, using, failed, conns, lock, live, metaFile,
                   issued, crashes>>

\* Mutant: the error of a merge or a copy is ignored.
BuildGoesOn(p) ==
    /\ \E at \in {"load", "build"} \cup Filling :
          Goto(p, at, IF at \in Filling THEN "promote" ELSE "abort")
    /\ UNCHANGED <<job, using, failed, conns, lock, disk, issued, crashes>>

\* A setting that does not load, a scope without projects, an indexer or a
\* conversion that fails or times out for every project, an I/O error.
BuildFails(p) ==
    /\ \E at \in {"load", "build"} \cup Filling : Goto(p, at, "abort")
    /\ nextWal' \in {nextWal, 0}
    /\ failed' = [failed EXCEPT ![p] = TRUE]
    /\ UNCHANGED <<job, using, conns, lock, live, next, metaFile,
                   issued, crashes>>

-----------------------------------------------------------------------------
(* PromoteNextIndex.                                                       *)

\* Mutant: index.db is removed before the other is renamed.
PromoteRemoves(p) ==
    /\ next # NoFile
    /\ Goto(p, "promote", "rename")
    /\ nextWal' = 0
    /\ live' = NoFile
    /\ UNCHANGED <<job, using, failed, conns, lock, next, metaFile, issued,
                   crashes>>

PromoteSidecars(p) ==
    /\ next # NoFile
    /\ Goto(p, "promote", "rename")
    /\ nextWal' = 0
    /\ UNCHANGED <<job, using, failed, conns, lock, live, next, metaFile,
                   issued, crashes>>

PromoteRename(p) ==
    /\ Goto(p, "rename", IF job[p].kind = "query" THEN "open" ELSE "unlock")
    /\ live' = next
    /\ next' = NoFile
    /\ UNCHANGED <<job, using, failed, conns, lock, nextWal, metaFile,
                   issued, crashes>>

\* Mutant: the error of the rename is ignored.
PromoteFailsSilently(p) ==
    /\ Goto(p, "rename", "unlock")
    /\ UNCHANGED <<job, using, failed, conns, lock, disk, issued, crashes>>

\* The rename fails; what was built stays behind as index.db.next.
PromoteFails(p) ==
    /\ Goto(p, "rename", "unlock")
    /\ failed' = [failed EXCEPT ![p] = TRUE]
    /\ UNCHANGED <<job, using, conns, lock, disk, issued, crashes>>

-----------------------------------------------------------------------------
(* A query opens the index, gives the lock back if it has it, and reads.   *)

\* sql.Open and ConfigureReadConnection: the first connection.
OpenIndex(p) ==
    /\ live # NoFile
    /\ Goto(p, "open", IF lock = p THEN "unlock" ELSE "session")
    /\ conns' = [conns EXCEPT ![p] = @ \cup {live}]
    /\ UNCHANGED <<job, using, failed, lock, disk, issued, crashes>>

OpenFails(p) ==
    /\ Goto(p, "open", IF lock = p THEN "unlock" ELSE "idle")
    /\ failed' = [failed EXCEPT ![p] = TRUE]
    /\ UNCHANGED <<job, using, conns, lock, disk, issued, crashes>>

Unlock(p) ==
    /\ Goto(p, "unlock", IF job[p].kind = "query" /\ ~failed[p]
                         THEN "session" ELSE "idle")
    /\ lock' = NoProc
    /\ UNCHANGED <<job, using, failed, conns, disk, issued, crashes>>

\* A statement run while the rows of another are still open makes the pool
\* of *sql.DB open one more connection, by path.
OpenAnother(p) ==
    /\ pc[p] = "session"
    /\ live # NoFile
    /\ conns' = [conns EXCEPT ![p] = @ \cup {live}]
    /\ UNCHANGED <<pc, job, using, failed, lock, disk, issued, crashes>>

EndSession(p) ==
    /\ Goto(p, "session", "idle")
    /\ conns' = [conns EXCEPT ![p] = {}]
    /\ UNCHANGED <<job, using, failed, lock, disk, issued, crashes>>

-----------------------------------------------------------------------------
\* Mutant: a lock file, which a process that dies leaves behind.
CrashKeepsLock(p) ==
    /\ crashes < MaxCrashes
    /\ pc[p] # "idle"
    /\ crashes' = crashes + 1
    /\ pc' = [pc EXCEPT ![p] = "idle"]
    /\ conns' = [conns EXCEPT ![p] = {}]
    /\ UNCHANGED <<job, using, failed, lock, disk, issued>>

\* The process is killed: the kernel drops its lock and its connections, and
\* the files stay as they are.
Crash(p) ==
    /\ crashes < MaxCrashes
    /\ pc[p] # "idle"
    /\ crashes' = crashes + 1
    /\ pc' = [pc EXCEPT ![p] = "idle"]
    /\ conns' = [conns EXCEPT ![p] = {}]
    /\ lock' = IF lock = p THEN NoProc ELSE lock
    /\ UNCHANGED <<job, using, failed, disk, issued>>

\* What a process does of its own accord once its command has started.
Run(p) == \/ FindIndex(p)   \/ AcquireLock(p) \/ RecheckIndex(p)
          \/ ApplyMetadata(p) \/ WriteMetadata(p) \/ SaveFails(p)
          \/ RemoveNext(p)  \/ RemoveNextSidecars(p)
          \/ LoadConfig(p)  \/ BeginDirect(p) \/ BeginCopy(p)
          \/ OpenForMerge(p) \/ EndFill(p)    \/ BuildFails(p)
          \/ PromoteSidecars(p) \/ PromoteRename(p) \/ PromoteFails(p)
          \/ OpenIndex(p)   \/ OpenFails(p)   \/ Unlock(p)

Next == \E p \in Procs : \/ StartQuery(p) \/ StartReindex(p)
                         \/ Run(p) \/ LockFails(p)
                         \/ OpenAnother(p) \/ EndSession(p)
                         \/ Crash(p)

Spec == Init /\ [][Next]_vars

\* Where a process waits for another program: an indexer, the version check
\* of scip, or the conversion it makes.
Outside == {"build", "direct"}

(***************************************************************************)
(* A command that can take a step takes one, if it need not wait for       *)
(* another program: `scip --version` is run without a time limit, and an   *)
(* indexer that is killed at IndexTimeout is waited for until whatever it  *)
(* started has closed its output, so neither need ever end.  The lock is   *)
(* not taken to fail: flock waits, and wakes a waiter when it is free.  A  *)
(* session ends because a command prints and exits.                        *)
(***************************************************************************)
Fairness == \A p \in Procs : /\ WF_vars(pc[p] \notin Outside /\ Run(p))
                             /\ WF_vars(EndSession(p))

FairSpec == Spec /\ Fairness
-----------------------------------------------------------------------------
(* Properties.                                                             *)

\* Only the process that holds .index.lock is anywhere in the part of GetDB
\* and Reindex that touches index.db.next and metadata.json, and a process
\* that holds it is there or about to open the index it waited for.
LockProtects ==
    \A p \in Procs : /\ pc[p] \in Locked => lock = p
                     /\ lock = p => pc[p] \in Locked \cup {"open"}

\* index.db is never the output of an unfinished build, nor one into which
\* the write-ahead log of another build was replayed.
LiveIsWhole == live # NoFile => live \in Whole

\* While a build fills index.db.next, and until it renames it, the file is
\* its own and so are the frames beside it: nothing that a crashed or failed
\* build left there survives CleanupInProgressIndex.
NextIsMine ==
    \A p \in Procs :
        /\ pc[p] \in Filling \cup Promoting =>
              /\ next \in Index
              /\ next.by = job[p].id /\ next.meta = using[p]
              /\ nextWal \in {0, job[p].id}
        /\ pc[p] \in {"load", "build"} => nextWal = 0

\* The scope and the globs a build uses are those on disk until it is done,
\* so the metadata beside a freshly published index is the index's own.
MetadataHeld ==
    \A p \in Procs :
        pc[p] \in {"build"} \cup Filling \cup Promoting =>
            using[p] = Load(metaFile)

\* A reindex that is about to report success has put its own index in place,
\* built with the metadata on disk, and that metadata has its own update in
\* it: no other command got in between.
SuccessIsServed ==
    \A p \in Procs :
        pc[p] = "unlock" /\ job[p].kind = "reindex" /\ ~failed[p] =>
            /\ live # NoFile
            /\ live.by = job[p].id
            /\ live.meta = Load(metaFile)
            /\ Applied(job[p].update, live.meta) = live.meta

\* A query that found no index, waited for the lock and finds one there now
\* serves it: an index that exists is replaced by a reindex and by nothing
\* else, and is never removed.
OnlyReindexReplaces ==
    [][ live # NoFile /\ live' # live =>
          \E p \in Procs : job[p].kind = "reindex" /\ pc[p] = "rename" ]_vars

\* The cache is a snapshot: one session reads one index.
SessionReadsOneIndex == \A p \in Procs : Cardinality(conns[p]) <= 1

\* The persisted scope and excludes outlive the command that saves them: a
\* truncated metadata.json is never left behind for LoadMetadata to take for
\* an empty one.
MetadataNeverTorn == metaFile = Torn => lock # NoProc

\* If the programs that builds run end or are given up, every command ends,
\* however the others interleave, fail and crash.
CommandsEnd ==
    (\A p \in Procs : []<>(pc[p] \notin Outside)) =>
        \A p \in Procs : pc[p] # "idle" ~> pc[p] = "idle"

\* A query of an index that exists ends even while the build of another
\* command, which holds the lock, hangs.
QueriesGoOn ==
    \A p \in Procs : pc[p] = "find" /\ live # NoFile ~> pc[p] = "idle"

Store == INSTANCE IndexStore WITH Finished <- Whole, Nothing <- NoFile,
                                  store <- live, views <- conns

\* The files and the lock implement the atomic cell of IndexStore.
ImplementsStore == Store!Spec
-----------------------------------------------------------------------------
(* The inductive invariant: the safety properties above, and what they     *)
(* rest on.                                                                *)

\* A process in a command has a command number.
Started == \A p \in Procs : pc[p] # "idle" => job[p].id \in Ids

\* The file a build fills is unfinished until it is ready to be renamed.
NextReady ==
    \A p \in Procs : /\ pc[p] \in Filling => next.state = "partial"
                     /\ pc[p] \in Promoting => next.state = "whole"

\* A query builds only while there is no index.
QueryBuildsFirst ==
    \A p \in Procs :
        job[p].kind = "query" /\ pc[p] \in Building => live = NoFile

\* From the time a reindex has saved its metadata, what is on disk has its
\* update in it; a build that is given up has failed.
UpdateSaved ==
    \A p \in Procs :
        /\ pc[p] = "write" => Applied(job[p].update, using[p]) = using[p]
        /\ job[p].kind = "reindex" /\ pc[p] \in Building =>
              Applied(job[p].update, Load(metaFile)) = Load(metaFile)
        /\ pc[p] \in {"abort", "abortWal"} => failed[p]
        /\ pc[p] \in {"find", "recheck", "open", "session"} =>
              job[p].kind = "query"
        /\ pc[p] \in Saving => job[p].kind = "reindex"

Typed      == TypeOK /\ Started
FilesOwned == LiveIsWhole /\ NextIsMine /\ NextReady /\ QueryBuildsFirst
MetaOwned  == MetadataHeld /\ UpdateSaved /\ SuccessIsServed

IInv == Typed /\ LockProtects /\ FilesOwned /\ MetaOwned
=============================================================================
