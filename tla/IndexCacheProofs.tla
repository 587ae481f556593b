-------------------------- MODULE IndexCacheProofs --------------------------
(***************************************************************************)
(* What holds of the index cache for every set of processes, every choice  *)
(* of scopes and globs and every bound: its type, its safety invariants,   *)
(* that a query never replaces an index, and that it implements the atomic *)
(* cell of IndexStore.                                                     *)
(*                                                                         *)
(* The inductive invariant IInv (in IndexCache) has four parts, and the    *)
(* lemma of each action has one step for each of them.                     *)
(***************************************************************************)
EXTENDS IndexCache, TLAPS

USE CacheAssumption, NoFileAssumption
    DEF Goto, disk, PCs, Locked, Saving, Preparing, Filling, Promoting,
        Giving, Building

-----------------------------------------------------------------------------
(* Metadata: ApplyMetadataUpdates and LoadMetadata.                        *)

\* LoadMetadata yields metadata whatever it finds in the file.
LEMMA LoadType ==
  ASSUME NEW file \in Meta \cup {Torn} PROVE Load(file) \in Meta
BY DEF Load, NoMeta, Meta

\* An update of metadata is metadata ...
LEMMA AppliedType ==
  ASSUME NEW u \in Update, NEW m \in Meta PROVE Applied(u, m) \in Meta
BY DEF Applied, NoMeta, Update, Meta

\* ... applying it again changes nothing ...
LEMMA AppliedTwice ==
  ASSUME NEW u \in Update, NEW m \in Meta
  PROVE  Applied(u, Applied(u, m)) = Applied(u, m)
<1>1. CASE u.fresh
  BY <1>1 DEF Applied, NoMeta, Update, Meta
<1>2. CASE ~u.fresh
  BY <1>2 DEF Applied, NoMeta, Update, Meta
<1>3. QED BY <1>1, <1>2

\* ... and an update that changes nothing need not be saved.
LEMMA AppliedNoChange ==
  ASSUME NEW u \in Update, NEW m \in Meta, ~Changes(u)
  PROVE  Applied(u, m) = m
BY DEF Applied, Changes, Update, Meta

-----------------------------------------------------------------------------
(* Every step preserves IInv.                                              *)

\* A query starts outside the lock.
LEMMA StartQueryStep ==
  ASSUME IInv, NEW p \in Procs, StartQuery(p) PROVE IInv'
<1> USE DEF IInv, Typed, TypeOK, StartQuery, Start
<1>1. Typed'
  BY DEF Started, Ids, Job, NoUpdate, Update
<1>2. LockProtects'
  BY DEF LockProtects
<1>3. FilesOwned'
  BY <1>1, <1>2 DEF LockProtects, FilesOwned, LiveIsWhole, NextIsMine,
     NextReady, QueryBuildsFirst
<1>4. MetaOwned'
  BY <1>1, <1>2 DEF LockProtects, MetaOwned, MetadataHeld, UpdateSaved,
     SuccessIsServed
<1>5. QED BY <1>1, <1>2, <1>3, <1>4

\* A reindex starts outside the lock.
LEMMA StartReindexStep ==
  ASSUME IInv, NEW p \in Procs, StartReindex(p) PROVE IInv'
<1> USE DEF IInv, Typed, TypeOK, StartReindex, Start
<1>1. Typed'
  BY DEF Started, Ids, Job
<1>2. LockProtects'
  BY DEF LockProtects
<1>3. FilesOwned'
  BY <1>1, <1>2 DEF LockProtects, FilesOwned, LiveIsWhole, NextIsMine,
     NextReady, QueryBuildsFirst
<1>4. MetaOwned'
  BY <1>1, <1>2 DEF LockProtects, MetaOwned, MetadataHeld, UpdateSaved,
     SuccessIsServed
<1>5. QED BY <1>1, <1>2, <1>3, <1>4

\* A look at index.db changes no file.
LEMMA FindIndexStep ==
  ASSUME IInv, NEW p \in Procs, FindIndex(p) PROVE IInv'
<1> USE DEF IInv, Typed, TypeOK, FindIndex
<1>1. Typed'
  BY DEF Started, Ids, Job
<1>2. LockProtects'
  BY DEF LockProtects
<1>3. FilesOwned'
  BY <1>1, <1>2 DEF LockProtects, FilesOwned, LiveIsWhole, NextIsMine,
     NextReady, QueryBuildsFirst
<1>4. MetaOwned'
  BY <1>1, <1>2 DEF LockProtects, MetaOwned, MetadataHeld, UpdateSaved,
     SuccessIsServed, Job
<1>5. QED BY <1>1, <1>2, <1>3, <1>4

\* The lock is given to one process only, when none holds it.
LEMMA AcquireLockStep ==
  ASSUME IInv, NEW p \in Procs, AcquireLock(p) PROVE IInv'
<1> USE DEF IInv, Typed, TypeOK, AcquireLock
<1>1. Typed'
  BY DEF Started, Ids, Job
<1>2. LockProtects'
  BY DEF LockProtects
<1>3. FilesOwned'
  BY <1>1, <1>2 DEF LockProtects, FilesOwned, LiveIsWhole, NextIsMine,
     NextReady, QueryBuildsFirst
<1>4. MetaOwned'
  BY <1>1, <1>2 DEF LockProtects, MetaOwned, MetadataHeld, UpdateSaved,
     SuccessIsServed, Job
<1>5. QED BY <1>1, <1>2, <1>3, <1>4

\* A command that does not get the lock leaves no trace.
LEMMA LockFailsStep ==
  ASSUME IInv, NEW p \in Procs, LockFails(p) PROVE IInv'
<1> USE DEF IInv, Typed, TypeOK, LockFails
<1>1. Typed'
  BY DEF Started, Ids, Job
<1>2. LockProtects'
  BY DEF LockProtects
<1>3. FilesOwned'
  BY <1>1, <1>2 DEF LockProtects, FilesOwned, LiveIsWhole, NextIsMine,
     NextReady, QueryBuildsFirst
<1>4. MetaOwned'
  BY <1>1, <1>2 DEF LockProtects, MetaOwned, MetadataHeld, UpdateSaved,
     SuccessIsServed
<1>5. QED BY <1>1, <1>2, <1>3, <1>4

\* A query that goes on to build has seen that there is no index.
LEMMA RecheckIndexStep ==
  ASSUME IInv, NEW p \in Procs, RecheckIndex(p) PROVE IInv'
<1> USE DEF IInv, Typed, TypeOK, RecheckIndex
<1>1. Typed'
  BY DEF Started, Ids, Job
<1>2. LockProtects'
  BY DEF LockProtects
<1>3. FilesOwned'
  BY <1>1, <1>2 DEF LockProtects, FilesOwned, LiveIsWhole, NextIsMine,
     NextReady, QueryBuildsFirst
<1>4. MetaOwned'
  BY <1>1, <1>2 DEF LockProtects, MetaOwned, MetadataHeld, UpdateSaved,
     SuccessIsServed
<1>5. QED BY <1>1, <1>2, <1>3, <1>4

\* The metadata a reindex saves, or need not save, have its update in them.
LEMMA ApplyMetadataStep ==
  ASSUME IInv, NEW p \in Procs, ApplyMetadata(p) PROVE IInv'
<1> USE DEF IInv, Typed, TypeOK, ApplyMetadata
<1>1. Typed'
  <2> DEFINE u == job[p].update
             m == Applied(u, Load(metaFile))
  <2>1. u \in Update /\ m \in Meta
    BY LoadType, AppliedType DEF Job
  <2>2. CASE ~Changes(u) /\ Goto(p, "apply", "cleanup")
             /\ UNCHANGED <<metaFile, using>>
    BY <2>2 DEF Started
  <2>3. CASE Changes(u) /\ m = NoMeta /\ Goto(p, "apply", "cleanup")
             /\ metaFile' = NoMeta /\ UNCHANGED using
    BY <2>1, <2>3 DEF Started
  <2>4. CASE Changes(u) /\ m # NoMeta /\ Goto(p, "apply", "write")
             /\ metaFile' = Torn /\ using' = [using EXCEPT ![p] = m]
    BY <2>1, <2>4 DEF Started
  <2>5. QED BY <2>2, <2>3, <2>4
<1>2. LockProtects'
  BY DEF LockProtects
<1>3. FilesOwned'
  <2>1. /\ pc[p] \in Saving /\ lock = p
        /\ UNCHANGED <<live, next, nextWal, job>>
        /\ \A q \in Procs \ {p} : pc'[q] = pc[q] /\ pc[q] \notin Locked
        /\ pc'[p] \in {"write", "cleanup"}
    BY DEF LockProtects
  <2>2. job[p].kind = "reindex"
    BY <2>1 DEF MetaOwned, UpdateSaved
  <2>3. QED
    BY <2>1, <2>2 DEF FilesOwned, LiveIsWhole, NextIsMine, NextReady,
       QueryBuildsFirst
<1>4. MetaOwned'
  <2> DEFINE u == job[p].update
             m == Applied(u, Load(metaFile))
  <2>1. u \in Update /\ Load(metaFile) \in Meta
    BY LoadType DEF Job
  <2>2. /\ Applied(u, m) = m
        /\ ~Changes(u) => m = Load(metaFile)
        /\ m = NoMeta => Load(NoMeta) = m
    BY <2>1, AppliedTwice, AppliedNoChange DEF Load
  <2>3. pc[p] = "apply" /\ lock = p /\ job' = job /\ failed' = failed
    BY DEF LockProtects
  <2>4. \A q \in Procs \ {p} : pc'[q] = pc[q] /\ pc[q] \notin Locked
    BY <2>3 DEF LockProtects
  <2>5. \/ pc'[p] = "cleanup" /\ Load(metaFile') = m
        \/ pc'[p] = "write" /\ using'[p] = m
    BY <2>1, <2>2
  <2> HIDE DEF u, m
  <2>6. MetadataHeld'
    BY <2>3, <2>4, <2>5 DEF MetadataHeld
  <2>7. UpdateSaved'
    <3> SUFFICES ASSUME NEW q \in Procs
                 PROVE  /\ pc'[q] = "write" =>
                              Applied(job[q].update, using'[q]) = using'[q]
                        /\ job[q].kind = "reindex" /\ pc'[q] \in Building =>
                              Applied(job[q].update, Load(metaFile')) =
                                 Load(metaFile')
                        /\ pc'[q] \in {"abort", "abortWal"} => failed[q]
                        /\ pc'[q] \in {"find", "recheck", "open", "session"} =>
                              job[q].kind = "query"
                        /\ pc'[q] \in Saving => job[q].kind = "reindex"
      BY <2>3 DEF UpdateSaved
    <3>1. CASE q = p
      BY <2>2, <2>3, <2>5, <3>1 DEF UpdateSaved, MetaOwned, u
    <3>2. CASE q # p
      BY <2>4, <3>2 DEF UpdateSaved, MetaOwned
    <3>3. QED BY <3>1, <3>2
  <2>8. SuccessIsServed'
    BY <2>3, <2>4, <2>5 DEF SuccessIsServed
  <2>9. QED BY <2>6, <2>7, <2>8 DEF MetaOwned
<1>5. QED BY <1>1, <1>2, <1>3, <1>4

\* What is written is what was computed under the same lock.
LEMMA WriteMetadataStep ==
  ASSUME IInv, NEW p \in Procs, WriteMetadata(p) PROVE IInv'
<1> USE DEF IInv, Typed, TypeOK, WriteMetadata
<1>1. Typed'
  BY DEF Started, Ids, Job
<1>2. LockProtects'
  BY DEF LockProtects
<1>3. FilesOwned'
  <2>1. /\ pc[p] \in Saving /\ lock = p
        /\ UNCHANGED <<live, next, nextWal, job>>
        /\ \A q \in Procs \ {p} : pc'[q] = pc[q] /\ pc[q] \notin Locked
        /\ pc'[p] \in {"write", "cleanup"}
    BY DEF LockProtects
  <2>2. job[p].kind = "reindex"
    BY <2>1 DEF MetaOwned, UpdateSaved
  <2>3. QED
    BY <2>1, <2>2 DEF FilesOwned, LiveIsWhole, NextIsMine, NextReady,
       QueryBuildsFirst
<1>4. MetaOwned'
  <2>1. pc[p] = "write" /\ pc'[p] = "cleanup" /\ lock = p
    BY DEF LockProtects
  <2>2. \A q \in Procs \ {p} : pc'[q] = pc[q] /\ pc[q] \notin Locked
    BY <2>1 DEF LockProtects
  <2>3. Load(metaFile') = using[p]
    BY DEF Load
  <2>4. Applied(job[p].update, using[p]) = using[p]
    BY <2>1 DEF MetaOwned, UpdateSaved
  <2>5. QED
    BY <2>1, <2>2, <2>3, <2>4 DEF MetaOwned, MetadataHeld, UpdateSaved,
       SuccessIsServed
<1>5. QED BY <1>1, <1>2, <1>3, <1>4

\* A reindex whose metadata cannot be saved has failed.
LEMMA SaveFailsStep ==
  ASSUME IInv, NEW p \in Procs, SaveFails(p) PROVE IInv'
<1> USE DEF IInv, Typed, TypeOK, SaveFails
<1>1. Typed'
  BY DEF Started, Ids, Job
<1>2. LockProtects'
  BY DEF LockProtects
<1>3. FilesOwned'
  BY <1>1, <1>2 DEF LockProtects, FilesOwned, LiveIsWhole, NextIsMine,
     NextReady, QueryBuildsFirst
<1>4. MetaOwned'
  BY <1>1, <1>2 DEF LockProtects, MetaOwned, MetadataHeld, UpdateSaved,
     SuccessIsServed
<1>5. QED BY <1>1, <1>2, <1>3, <1>4

\* The removal of index.db.next disturbs no build: nobody else is in one.
LEMMA RemoveNextStep ==
  ASSUME IInv, NEW p \in Procs, RemoveNext(p) PROVE IInv'
<1> USE DEF IInv, Typed, TypeOK, RemoveNext
<1>1. Typed'
  BY DEF Started, Ids, Job
<1>2. LockProtects'
  BY DEF LockProtects
<1>3. FilesOwned'
  BY <1>1, <1>2 DEF LockProtects, FilesOwned, LiveIsWhole, NextIsMine,
     NextReady, QueryBuildsFirst
<1>4. MetaOwned'
  BY <1>1, <1>2 DEF LockProtects, MetaOwned, MetadataHeld, UpdateSaved,
     SuccessIsServed
<1>5. QED BY <1>1, <1>2, <1>3, <1>4

\* After the cleanup no frames of an earlier build are left.
LEMMA RemoveNextSidecarsStep ==
  ASSUME IInv, NEW p \in Procs, RemoveNextSidecars(p) PROVE IInv'
<1> USE DEF IInv, Typed, TypeOK, RemoveNextSidecars
<1>1. Typed'
  <2>1. nextWal' \in 0..MaxCommands
    OBVIOUS
  <2>2. CASE Goto(p, "cleanupWal", "load")
    BY <2>1, <2>2 DEF Started
  <2>3. CASE Goto(p, "abortWal", "unlock")
    BY <2>1, <2>3 DEF Started
  <2>4. QED BY <2>2, <2>3
<1>2. LockProtects'
  BY DEF LockProtects
<1>3. FilesOwned'
  BY <1>1, <1>2 DEF LockProtects, FilesOwned, LiveIsWhole, NextIsMine,
     NextReady, QueryBuildsFirst
<1>4. MetaOwned'
  <2>1. lock = p /\ \A q \in Procs \ {p} : pc[q] \notin Locked
    BY DEF LockProtects
  <2>2. CASE Goto(p, "cleanupWal", "load")
    BY <2>1, <2>2 DEF MetaOwned, MetadataHeld, UpdateSaved, SuccessIsServed
  <2>3. CASE Goto(p, "abortWal", "unlock")
    BY <2>1, <2>3 DEF MetaOwned, MetadataHeld, UpdateSaved, SuccessIsServed
  <2>4. QED BY <2>2, <2>3
<1>5. QED BY <1>1, <1>2, <1>3, <1>4

\* A build starts from the metadata on disk.
LEMMA LoadConfigStep ==
  ASSUME IInv, NEW p \in Procs, LoadConfig(p) PROVE IInv'
<1> USE DEF IInv, Typed, TypeOK, LoadConfig
<1>1. Typed'
  BY LoadType DEF Started
<1>2. LockProtects'
  BY DEF LockProtects
<1>3. FilesOwned'
  BY <1>1, <1>2 DEF LockProtects, FilesOwned, LiveIsWhole, NextIsMine,
     NextReady, QueryBuildsFirst
<1>4. MetaOwned'
  BY <1>1, <1>2 DEF LockProtects, MetaOwned, MetadataHeld, UpdateSaved,
     SuccessIsServed
<1>5. QED BY <1>1, <1>2, <1>3, <1>4

\* A converted database and its log are the command's own.
LEMMA BeginDirectStep ==
  ASSUME IInv, NEW p \in Procs, BeginDirect(p) PROVE IInv'
<1> USE DEF IInv, Typed, TypeOK, BeginDirect
<1>1. Typed'
  BY DEF Started, Ids, Job, Index, Partial
<1>2. LockProtects'
  BY DEF LockProtects
<1>3. FilesOwned'
  <2>1. /\ lock = p /\ pc[p] = "build" /\ nextWal = 0
        /\ \A q \in Procs \ {p} : pc'[q] = pc[q] /\ pc[q] \notin Locked
    BY DEF LockProtects, FilesOwned, NextIsMine
  <2>2. /\ next' \in Index /\ next'.by = job[p].id
        /\ next'.meta = using[p] /\ next'.state = "partial"
    BY <2>1 DEF Typed, Started, Partial, Index
  <2>3. QED
    BY <2>1, <2>2 DEF FilesOwned, LiveIsWhole, NextIsMine, NextReady,
       QueryBuildsFirst, Job
<1>4. MetaOwned'
  BY <1>1, <1>2 DEF LockProtects, MetaOwned, MetadataHeld, UpdateSaved,
     SuccessIsServed
<1>5. QED BY <1>1, <1>2, <1>3, <1>4

\* So is a copied one, beside which there is no log.
LEMMA BeginCopyStep ==
  ASSUME IInv, NEW p \in Procs, BeginCopy(p) PROVE IInv'
<1> USE DEF IInv, Typed, TypeOK, BeginCopy
<1>1. Typed'
  BY DEF Started, Ids, Job, Index, Partial
<1>2. LockProtects'
  BY DEF LockProtects
<1>3. FilesOwned'
  <2>1. /\ lock = p /\ pc[p] = "build" /\ nextWal = 0
        /\ \A q \in Procs \ {p} : pc'[q] = pc[q] /\ pc[q] \notin Locked
    BY DEF LockProtects, FilesOwned, NextIsMine
  <2>2. /\ next' \in Index /\ next'.by = job[p].id
        /\ next'.meta = using[p] /\ next'.state = "partial"
    BY <2>1 DEF Typed, Started, Partial, Index
  <2>3. QED
    BY <2>1, <2>2 DEF FilesOwned, LiveIsWhole, NextIsMine, NextReady,
       QueryBuildsFirst, Job
<1>4. MetaOwned'
  BY <1>1, <1>2 DEF LockProtects, MetaOwned, MetadataHeld, UpdateSaved,
     SuccessIsServed
<1>5. QED BY <1>1, <1>2, <1>3, <1>4

\* No frames of another build are replayed into the copy.
LEMMA OpenForMergeStep ==
  ASSUME IInv, NEW p \in Procs, OpenForMerge(p) PROVE IInv'
<1> USE DEF IInv, Typed, TypeOK, OpenForMerge
<1>1. Typed'
  BY DEF Started, Ids, Job, Index, FilesOwned, NextIsMine
<1>2. LockProtects'
  BY DEF LockProtects
<1>3. FilesOwned'
  <2>1. /\ lock = p /\ pc[p] = "copy" /\ pc'[p] = "merge"
        /\ \A q \in Procs \ {p} : pc'[q] = pc[q] /\ pc[q] \notin Locked
    BY DEF LockProtects
  <2>2. /\ next \in Index /\ next.state = "partial" /\ next.by = job[p].id
        /\ next.meta = using[p] /\ nextWal \in {0, job[p].id}
    BY <2>1 DEF FilesOwned, NextIsMine, NextReady
  <2>3. next' = next
    BY <2>2 DEF Index
  <2>4. QED
    BY <2>1, <2>2, <2>3 DEF FilesOwned, LiveIsWhole, NextIsMine, NextReady,
       QueryBuildsFirst
<1>4. MetaOwned'
  BY <1>1, <1>2 DEF LockProtects, MetaOwned, MetadataHeld, UpdateSaved,
     SuccessIsServed
<1>5. QED BY <1>1, <1>2, <1>3, <1>4

\* What a build ends with is whole.
LEMMA EndFillStep ==
  ASSUME IInv, NEW p \in Procs, EndFill(p) PROVE IInv'
<1> USE DEF IInv, Typed, TypeOK, EndFill
<1>1. Typed'
  <2>1. pc[p] \in Filling /\ next \in Index /\ next' \in Index
    BY DEF FilesOwned, NextIsMine, Done, Index
  <2>2. nextWal' \in 0..MaxCommands
    OBVIOUS
  <2>3. pc' \in [Procs -> PCs] /\ Started'
    BY <2>1 DEF Started
  <2>4. QED BY <2>1, <2>2, <2>3
<1>2. LockProtects'
  BY DEF LockProtects
<1>3. FilesOwned'
  <2>1. /\ lock = p /\ pc[p] \in Filling /\ pc'[p] = "promote"
        /\ \A q \in Procs \ {p} : pc'[q] = pc[q] /\ pc[q] \notin Locked
    BY DEF LockProtects
  <2>2. /\ next \in Index /\ next.state = "partial" /\ next.by = job[p].id
        /\ next.meta = using[p] /\ nextWal \in {0, job[p].id}
    BY <2>1 DEF FilesOwned, NextIsMine, NextReady
  <2>3. /\ next' \in Index /\ next'.by = job[p].id
        /\ next'.meta = using[p] /\ next'.state = "whole"
    BY <2>2 DEF Done, Index
  <2>4. nextWal' \in {0, job[p].id}
    BY <2>2
  <2>5. QED
    BY <2>1, <2>3, <2>4 DEF FilesOwned, LiveIsWhole, NextIsMine, NextReady,
       QueryBuildsFirst
<1>4. MetaOwned'
  BY <1>1, <1>2 DEF LockProtects, MetaOwned, MetadataHeld, UpdateSaved,
     SuccessIsServed
<1>5. QED BY <1>1, <1>2, <1>3, <1>4

\* A build that fails is not promoted.
LEMMA BuildFailsStep ==
  ASSUME IInv, NEW p \in Procs, BuildFails(p) PROVE IInv'
<1> USE DEF IInv, Typed, TypeOK, BuildFails
<1>1. Typed'
  BY DEF Started, Ids, Job
<1>2. LockProtects'
  BY DEF LockProtects
<1>3. FilesOwned'
  BY <1>1, <1>2 DEF LockProtects, FilesOwned, LiveIsWhole, NextIsMine,
     NextReady, QueryBuildsFirst
<1>4. MetaOwned'
  BY <1>1, <1>2 DEF LockProtects, MetaOwned, MetadataHeld, UpdateSaved,
     SuccessIsServed
<1>5. QED BY <1>1, <1>2, <1>3, <1>4

\* The removal of the sidecars leaves the database whole.
LEMMA PromoteSidecarsStep ==
  ASSUME IInv, NEW p \in Procs, PromoteSidecars(p) PROVE IInv'
<1> USE DEF IInv, Typed, TypeOK, PromoteSidecars
<1>1. Typed'
  BY DEF Started, Ids, Job
<1>2. LockProtects'
  BY DEF LockProtects
<1>3. FilesOwned'
  BY <1>1, <1>2 DEF LockProtects, FilesOwned, LiveIsWhole, NextIsMine,
     NextReady, QueryBuildsFirst
<1>4. MetaOwned'
  BY <1>1, <1>2 DEF LockProtects, MetaOwned, MetadataHeld, UpdateSaved,
     SuccessIsServed
<1>5. QED BY <1>1, <1>2, <1>3, <1>4

\* What becomes index.db is whole and the command's own.
LEMMA PromoteRenameStep ==
  ASSUME IInv, NEW p \in Procs, PromoteRename(p) PROVE IInv'
<1> USE DEF IInv, Typed, TypeOK, PromoteRename
<1>1. Typed'
  BY DEF Started
<1>2. LockProtects'
  BY DEF LockProtects
<1>3. FilesOwned'
  BY <1>1, <1>2 DEF LockProtects, FilesOwned, LiveIsWhole, NextIsMine,
     NextReady, QueryBuildsFirst, Whole
<1>4. MetaOwned'
  BY <1>1, <1>2 DEF LockProtects, MetaOwned, MetadataHeld, UpdateSaved,
     SuccessIsServed, FilesOwned, NextIsMine, Job
<1>5. QED BY <1>1, <1>2, <1>3, <1>4

\* A rename that fails leaves index.db as it was.
LEMMA PromoteFailsStep ==
  ASSUME IInv, NEW p \in Procs, PromoteFails(p) PROVE IInv'
<1> USE DEF IInv, Typed, TypeOK, PromoteFails
<1>1. Typed'
  BY DEF Started, Ids, Job
<1>2. LockProtects'
  BY DEF LockProtects
<1>3. FilesOwned'
  BY <1>1, <1>2 DEF LockProtects, FilesOwned, LiveIsWhole, NextIsMine,
     NextReady, QueryBuildsFirst
<1>4. MetaOwned'
  BY <1>1, <1>2 DEF LockProtects, MetaOwned, MetadataHeld, UpdateSaved,
     SuccessIsServed
<1>5. QED BY <1>1, <1>2, <1>3, <1>4

\* A read changes no file.
LEMMA OpenIndexStep ==
  ASSUME IInv, NEW p \in Procs, OpenIndex(p) PROVE IInv'
<1> USE DEF IInv, Typed, TypeOK, OpenIndex
<1>1. Typed'
  BY DEF Started, Ids, Job
<1>2. LockProtects'
  BY DEF LockProtects
<1>3. FilesOwned'
  BY <1>1, <1>2 DEF LockProtects, FilesOwned, LiveIsWhole, NextIsMine,
     NextReady, QueryBuildsFirst
<1>4. MetaOwned'
  <2>1. job[p].kind = "query"
    BY DEF MetaOwned, UpdateSaved
  <2>2. \A q \in Procs : q = p \/ pc'[q] = pc[q]
    OBVIOUS
  <2>3. pc'[p] \in {"unlock", "session"}
    OBVIOUS
  <2>4. MetadataHeld' /\ UpdateSaved'
    BY <2>1, <2>2, <2>3 DEF MetaOwned, MetadataHeld, UpdateSaved
  <2>5. SuccessIsServed'
    BY <2>1, <2>2 DEF MetaOwned, SuccessIsServed
  <2>6. QED BY <2>4, <2>5 DEF MetaOwned
<1>5. QED BY <1>1, <1>2, <1>3, <1>4

\* Neither does one that fails.
LEMMA OpenFailsStep ==
  ASSUME IInv, NEW p \in Procs, OpenFails(p) PROVE IInv'
<1> USE DEF IInv, Typed, TypeOK, OpenFails
<1>1. Typed'
  BY DEF Started, Ids, Job
<1>2. LockProtects'
  BY DEF LockProtects
<1>3. FilesOwned'
  BY <1>1, <1>2 DEF LockProtects, FilesOwned, LiveIsWhole, NextIsMine,
     NextReady, QueryBuildsFirst
<1>4. MetaOwned'
  BY <1>1, <1>2 DEF LockProtects, MetaOwned, MetadataHeld, UpdateSaved,
     SuccessIsServed
<1>5. QED BY <1>1, <1>2, <1>3, <1>4

\* A process gives back the lock only when its work on the files is done.
LEMMA UnlockStep ==
  ASSUME IInv, NEW p \in Procs, Unlock(p) PROVE IInv'
<1> USE DEF IInv, Typed, TypeOK, Unlock
<1>1. Typed'
  BY DEF Started, Ids, Job
<1>2. LockProtects'
  BY DEF LockProtects
<1>3. FilesOwned'
  BY <1>1, <1>2 DEF LockProtects, FilesOwned, LiveIsWhole, NextIsMine,
     NextReady, QueryBuildsFirst
<1>4. MetaOwned'
  BY <1>1, <1>2 DEF LockProtects, MetaOwned, MetadataHeld, UpdateSaved,
     SuccessIsServed
<1>5. QED BY <1>1, <1>2, <1>3, <1>4

\* Another connection changes no file.
LEMMA OpenAnotherStep ==
  ASSUME IInv, NEW p \in Procs, OpenAnother(p) PROVE IInv'
<1> USE DEF IInv, Typed, TypeOK, OpenAnother
<1>1. Typed'
  BY DEF Started, Ids, Job
<1>2. LockProtects'
  BY DEF LockProtects
<1>3. FilesOwned'
  BY <1>1, <1>2 DEF LockProtects, FilesOwned, LiveIsWhole, NextIsMine,
     NextReady, QueryBuildsFirst
<1>4. MetaOwned'
  BY <1>1, <1>2 DEF LockProtects, MetaOwned, MetadataHeld, UpdateSaved,
     SuccessIsServed
<1>5. QED BY <1>1, <1>2, <1>3, <1>4

\* The end of a session changes no file.
LEMMA EndSessionStep ==
  ASSUME IInv, NEW p \in Procs, EndSession(p) PROVE IInv'
<1> USE DEF IInv, Typed, TypeOK, EndSession
<1>1. Typed'
  BY DEF Started, Ids, Job
<1>2. LockProtects'
  BY DEF LockProtects
<1>3. FilesOwned'
  BY <1>1, <1>2 DEF LockProtects, FilesOwned, LiveIsWhole, NextIsMine,
     NextReady, QueryBuildsFirst
<1>4. MetaOwned'
  BY <1>1, <1>2 DEF LockProtects, MetaOwned, MetadataHeld, UpdateSaved,
     SuccessIsServed
<1>5. QED BY <1>1, <1>2, <1>3, <1>4

\* A process that dies gives back its lock and leaves the files; no other
\* process is in the middle of using them.
LEMMA CrashStep ==
  ASSUME IInv, NEW p \in Procs, Crash(p) PROVE IInv'
<1> USE DEF IInv, Typed, TypeOK, Crash
<1>1. Typed'
  BY DEF Started, Ids, Job
<1>2. LockProtects'
  BY DEF LockProtects
<1>3. FilesOwned'
  BY <1>1, <1>2 DEF LockProtects, FilesOwned, LiveIsWhole, NextIsMine,
     NextReady, QueryBuildsFirst
<1>4. MetaOwned'
  BY <1>1, <1>2 DEF LockProtects, MetaOwned, MetadataHeld, UpdateSaved,
     SuccessIsServed
<1>5. QED BY <1>1, <1>2, <1>3, <1>4

\* A cache without an index, whose processes are idle.
LEMMA InitHolds == Init => IInv
<1> SUFFICES ASSUME Init PROVE IInv
  OBVIOUS
<1> USE DEF Init
<1>1. Typed
  BY DEF Typed, TypeOK, Started, Job, Ids, NoUpdate, Update, NoMeta, Meta
<1>2. LockProtects
  BY DEF LockProtects
<1>3. FilesOwned
  BY DEF FilesOwned, LiveIsWhole, NextIsMine, NextReady, QueryBuildsFirst
<1>4. MetaOwned
  BY DEF MetaOwned, MetadataHeld, UpdateSaved, SuccessIsServed
<1>5. QED BY <1>1, <1>2, <1>3, <1>4 DEF IInv

\* IInv is inductive.
LEMMA NextHolds == IInv /\ [Next]_vars => IInv'
<1> SUFFICES ASSUME IInv, [Next]_vars PROVE IInv'
  OBVIOUS
<1>1. CASE UNCHANGED vars
  BY <1>1 DEF vars, IInv, Typed, TypeOK, Started, LockProtects, FilesOwned,
     LiveIsWhole, NextIsMine, NextReady, QueryBuildsFirst, MetaOwned,
     MetadataHeld, UpdateSaved, SuccessIsServed
<1>2. ASSUME NEW p \in Procs, Run(p) PROVE IInv'
  BY <1>2, FindIndexStep, AcquireLockStep, RecheckIndexStep, ApplyMetadataStep,
     WriteMetadataStep, SaveFailsStep, RemoveNextStep,
     RemoveNextSidecarsStep, LoadConfigStep, BeginDirectStep,
     BeginCopyStep, OpenForMergeStep, EndFillStep, BuildFailsStep,
     PromoteSidecarsStep, PromoteRenameStep, PromoteFailsStep,
     OpenIndexStep, OpenFailsStep, UnlockStep DEF Run
<1>3. QED
  BY <1>1, <1>2, StartQueryStep, StartReindexStep, LockFailsStep,
     OpenAnotherStep, EndSessionStep, CrashStep DEF Next

\* In every behaviour of the cache the inductive invariant holds.
THEOREM Invariance == Spec => []IInv
<1>1. QED BY InitHolds, NextHolds, PTL DEF Spec

\* Type correctness: every file, every process and every counter stays in its
\* domain, whatever crashes leave behind.
THEOREM TypeCorrect == Spec => []TypeOK
<1>1. IInv => TypeOK
  BY DEF IInv, Typed
<1>2. QED BY Invariance, <1>1, PTL

\* index.db is at all times missing or the complete output of one build.
THEOREM LiveAlwaysWhole == Spec => []LiveIsWhole
<1>1. IInv => LiveIsWhole
  BY DEF IInv, FilesOwned
<1>2. QED BY Invariance, <1>1, PTL

\* Mutual exclusion by the flock on .index.lock.
THEOREM LockAlwaysProtects == Spec => []LockProtects
<1>1. IInv => LockProtects
  BY DEF IInv
<1>2. QED BY Invariance, <1>1, PTL

\* What a crashed or failed build leaves in index.db.next never reaches the
\* build of another command.
THEOREM NextAlwaysMine == Spec => []NextIsMine
<1>1. IInv => NextIsMine
  BY DEF IInv, FilesOwned
<1>2. QED BY Invariance, <1>1, PTL

\* The metadata a build uses are those on disk until it is done.
THEOREM MetadataAlwaysHeld == Spec => []MetadataHeld
<1>1. IInv => MetadataHeld
  BY DEF IInv, MetaOwned
<1>2. QED BY Invariance, <1>1, PTL

\* A reindex that reports success has published its own index, built with
\* metadata that its own update is part of.
THEOREM SuccessAlwaysServed == Spec => []SuccessIsServed
<1>1. IInv => SuccessIsServed
  BY DEF IInv, MetaOwned
<1>2. QED BY Invariance, <1>1, PTL

-----------------------------------------------------------------------------
(* Steps that change index.db.                                             *)

\* index.db changes by a rename, and only then.
LEMMA LiveChanges ==
  ASSUME Next, live' # live
  PROVE  \E p \in Procs : PromoteRename(p)
<1>1. ASSUME NEW p \in Procs, Run(p) PROVE PromoteRename(p)
  BY <1>1 DEF Run, FindIndex, AcquireLock, RecheckIndex, ApplyMetadata,
     WriteMetadata, SaveFails, RemoveNext, RemoveNextSidecars, LoadConfig,
     BeginDirect, BeginCopy, OpenForMerge, EndFill, BuildFails,
     PromoteSidecars, PromoteFails, OpenIndex, OpenFails, Unlock
<1>2. QED
  BY <1>1 DEF Next, StartQuery, StartReindex, Start, LockFails, OpenAnother,
     EndSession, Crash

\* A query that waited for another command's build never replaces the index
\* that build published: index.db, once there, changes by a reindex only.
THEOREM QueryNeverReplaces == Spec => OnlyReindexReplaces
<1> DEFINE A == live # NoFile /\ live' # live =>
                  \E p \in Procs : job[p].kind = "reindex" /\ pc[p] = "rename"
<1>1. IInv /\ [Next]_vars => [A]_vars
  <2> SUFFICES ASSUME IInv, Next, live # NoFile, live' # live
               PROVE  \E p \in Procs : /\ job[p].kind = "reindex"
                                       /\ pc[p] = "rename"
    BY DEF vars
  <2>1. PICK p \in Procs : PromoteRename(p)
    BY LiveChanges
  <2>2. pc[p] = "rename" /\ job[p].kind # "query"
    BY <2>1 DEF PromoteRename, IInv, FilesOwned, QueryBuildsFirst
  <2>3. job[p].kind = "reindex"
    BY <2>2 DEF IInv, Typed, TypeOK, Job
  <2>4. QED BY <2>2, <2>3
<1>2. QED BY Invariance, <1>1, PTL DEF Spec, OnlyReindexReplaces

\* The files, the lock and the rename implement the atomic cell of
\* IndexStore: each step of the cache is a publication, a read or the end of
\* a session there, or changes nothing that a command can see.
THEOREM Refinement == Spec => ImplementsStore
<1>1. Init => Store!Init
  BY DEF Init, Store!Init
<1>2. IInv /\ IInv' /\ [Next]_vars => [Store!Next]_<<live, conns>>
  <2> SUFFICES ASSUME IInv, IInv', Next
               PROVE  Store!Next \/ UNCHANGED <<live, conns>>
    BY DEF vars
  <2>1. CASE live' # live
    <3>1. PICK p \in Procs : PromoteRename(p)
      BY <2>1, LiveChanges
    <3>2. live' # NoFile
      BY <3>1 DEF PromoteRename, IInv, FilesOwned, NextIsMine
    <3>3. Store!Publish
      BY <3>1, <3>2 DEF PromoteRename, Store!Publish, IInv, FilesOwned,
         LiveIsWhole
    <3>4. QED BY <3>3 DEF Store!Next
  <2>2. CASE live' = live
    <3>1. ASSUME NEW p \in Procs, Run(p)
          PROVE  Store!View(p) \/ UNCHANGED conns
      <4>1. CASE OpenIndex(p)
        BY <2>2, <4>1 DEF OpenIndex, Store!View, IInv, Typed, TypeOK
      <4>2. CASE ~OpenIndex(p)
        BY <3>1, <4>2 DEF Run, FindIndex, AcquireLock, RecheckIndex,
           ApplyMetadata, WriteMetadata, SaveFails, RemoveNext,
           RemoveNextSidecars, LoadConfig, BeginDirect, BeginCopy,
           OpenForMerge, EndFill, BuildFails, PromoteSidecars,
           PromoteRename, PromoteFails, OpenFails, Unlock
      <4>3. QED BY <4>1, <4>2
    <3>2. ASSUME NEW p \in Procs, OpenAnother(p) PROVE Store!View(p)
      BY <2>2, <3>2 DEF OpenAnother, Store!View
    <3>3. ASSUME NEW p \in Procs, EndSession(p) \/ Crash(p)
          PROVE  Store!Close(p)
      BY <2>2, <3>3 DEF EndSession, Crash, Store!Close
    <3>4. ASSUME NEW p \in Procs,
                 StartQuery(p) \/ StartReindex(p) \/ LockFails(p)
          PROVE  UNCHANGED conns
      BY <3>4 DEF StartQuery, StartReindex, Start, LockFails
    <3>5. QED BY <2>2, <3>1, <3>2, <3>3, <3>4 DEF Next, Store!Next
  <2>3. QED BY <2>1, <2>2
<1>3. QED BY Invariance, <1>1, <1>2, PTL DEF Spec, ImplementsStore, Store!Spec
=============================================================================
