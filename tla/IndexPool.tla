------------------------------ MODULE IndexPool ------------------------------
(***************************************************************************)
(* indexDiscovered and indexTypescript: the projects of a repository are   *)
(* indexed one by one, or, when there are several and more than one worker *)
(* is allowed, by a goroutine each that takes a slot of a semaphore and    *)
(* sends its result over a channel.  The parts that were indexed become    *)
(* one database; projects that fail are skipped.                           *)
(*                                                                         *)
(* The unit of work is a batch: of any size for TypeScript, whose indexer  *)
(* takes several projects, of one project for the other languages.         *)
(***************************************************************************)
EXTENDS Naturals, Sequences, FiniteSets, SequencesExt, FiniteSetsExt

CONSTANTS MaxProjects,   \* bound: projects discovered
          MaxWorkers     \* bound: SCIP_CLI_INDEX_WORKERS

ASSUME PoolAssumption == MaxProjects \in Nat /\ MaxWorkers \in Nat \ {0}

VARIABLES language,  \* "typescript" or another one
          workers,   \* indexWorkers()
          found,     \* how many projects were discovered
          batches,   \* the projects, by number, in the batches to index
          main,      \* where the calling goroutine is
          cursor,    \* the batch it indexes when there is no pool
          task,      \* task[i]: where the goroutine of batch i is
          indexed,   \* indexed[i]: batch i was indexed
          channel,   \* the results sent and not received
          closed,    \* the channel is closed
          received,  \* the results received, in the order they came
          skipped,   \* projects given up
          parts,     \* the batches whose databases make the output
          output     \* what became of the output database

vars == <<language, workers, found, batches, main, cursor, task, indexed,
          channel, closed, received, skipped, parts, output>>
input == <<language, workers, found, batches>>

Batch    == DOMAIN batches
Parallel == Len(batches) > 1 /\ workers > 1

\* The projects in a set of batches.
ProjectsOf(B) == UNION {Range(batches[i]) : i \in B}

Increasing(s) == \A i, j \in DOMAIN s : i < j => s[i] < s[j]

\* batchProjects: at most size projects in a batch, all in one if size is 0.
BatchProjects(projects, size) ==
    LET n      == Len(projects)
        count  == IF size = 0 THEN 1 ELSE (n + size - 1) \div size
        end(i) == IF size = 0 \/ i * size > n THEN n ELSE i * size
    IN  IF n = 0 THEN <<>>
        ELSE [i \in 1..count |-> SubSeq(projects, (i - 1) * size + 1, end(i))]

Places == {"waiting", "running", "indexed", "sent", "released", "done"}

TypeOK == /\ language \in {"typescript", "other"}
          /\ workers \in 1..MaxWorkers
          /\ found \in 0..MaxProjects
          /\ \A i \in Batch : batches[i] \in Seq(1..found)
          /\ main \in {"start", "loop", "collect", "assemble", "end"}
          /\ cursor \in 1..(Len(batches) + 1)
          /\ task \in [Batch -> Places]
          /\ indexed \in [Batch -> BOOLEAN]
          /\ channel \in Seq(Batch) /\ received \in Seq(Batch)
          /\ closed \in BOOLEAN
          /\ skipped \in 0..MaxProjects
          /\ parts \in Seq(Batch)
          /\ output \in {"none", "direct", "copied", "merged", "failed"}

Init == /\ language \in {"typescript", "other"}
        /\ workers \in 1..MaxWorkers
        /\ found \in 0..MaxProjects
        /\ \E size \in 0..MaxProjects :
              /\ language = "other" => size = 1
              /\ batches = BatchProjects([i \in 1..found |-> i], size)
        /\ main = "start" /\ cursor = 1
        /\ task = [i \in Batch |-> "waiting"]
        /\ indexed = [i \in Batch |-> FALSE]
        /\ channel = <<>> /\ closed = FALSE /\ received = <<>>
        /\ skipped = 0 /\ parts = <<>> /\ output = "none"

-----------------------------------------------------------------------------
(* The pool.                                                               *)

Begin ==
    /\ main = "start"
    /\ main' = IF Parallel THEN "collect" ELSE "loop"
    /\ UNCHANGED <<input, cursor, task, indexed, channel, closed, received,
                   skipped, parts, output>>

Move(i, from, to) == /\ main # "start" /\ Parallel
                     /\ task[i] = from /\ task' = [task EXCEPT ![i] = to]

InSlot == {i \in Batch : task[i] \in {"running", "indexed", "sent"}}

\* Mutant: no semaphore.
TakeNoSlot(i) ==
    /\ Move(i, "waiting", "running")
    /\ UNCHANGED <<input, main, cursor, indexed, channel, closed, received,
                   skipped, parts, output>>

TakeSlot(i) ==
    /\ Cardinality(InSlot) < workers
    /\ Move(i, "waiting", "running")
    /\ UNCHANGED <<input, main, cursor, indexed, channel, closed, received,
                   skipped, parts, output>>

\* The indexer and the conversion succeed, or one of them fails or times out.
Index(i) ==
    /\ Move(i, "running", "indexed")
    /\ \E ok \in BOOLEAN : indexed' = [indexed EXCEPT ![i] = ok]
    /\ UNCHANGED <<input, main, cursor, channel, closed, received, skipped,
                   parts, output>>

\* Mutant: a project that fails returns without a result.
SendIndexed(i) ==
    /\ Len(channel) < Len(batches)
    /\ Move(i, "indexed", "sent")
    /\ channel' = IF indexed[i] THEN Append(channel, i) ELSE channel
    /\ UNCHANGED <<input, main, cursor, indexed, closed, received, skipped,
                   parts, output>>

\* The channel has room for every batch.
Send(i) ==
    /\ Len(channel) < Len(batches)
    /\ Move(i, "indexed", "sent")
    /\ channel' = Append(channel, i)
    /\ UNCHANGED <<input, main, cursor, indexed, closed, received, skipped,
                   parts, output>>

\* Mutant: only a project that was indexed gives its slot back.
ReleaseIndexed(i) ==
    /\ indexed[i]
    /\ Move(i, "sent", "released")
    /\ UNCHANGED <<input, main, cursor, indexed, channel, closed, received,
                   skipped, parts, output>>

\* The deferred calls: the slot first, then the wait group.
ReleaseSlot(i) ==
    /\ Move(i, "sent", "released")
    /\ UNCHANGED <<input, main, cursor, indexed, channel, closed, received,
                   skipped, parts, output>>

TaskDone(i) ==
    /\ Move(i, "released", "done")
    /\ UNCHANGED <<input, main, cursor, indexed, channel, closed, received,
                   skipped, parts, output>>

\* Mutant: the channel is closed once every goroutine has its slot.
CloseEarly ==
    /\ main # "start" /\ Parallel /\ ~closed
    /\ \A i \in Batch : task[i] # "waiting"
    /\ closed' = TRUE
    /\ UNCHANGED <<input, main, cursor, task, indexed, channel, received,
                   skipped, parts, output>>

CloseChannel ==
    /\ main # "start" /\ Parallel /\ ~closed
    /\ \A i \in Batch : task[i] = "done"
    /\ closed' = TRUE
    /\ UNCHANGED <<input, main, cursor, task, indexed, channel, received,
                   skipped, parts, output>>

\* Mutant: the result stays in the channel.
ReceiveAgain ==
    /\ main = "collect" /\ channel # <<>>
    /\ LET i == Head(channel)
       IN  /\ received' = Append(received, i)
           /\ skipped' = skipped + IF indexed[i] THEN 0 ELSE Len(batches[i])
    /\ UNCHANGED <<input, main, cursor, task, indexed, channel, closed, parts,
                   output>>

\* range over the channel: the next result in it ...
Receive ==
    /\ main = "collect" /\ channel # <<>>
    /\ LET i == Head(channel)
       IN  /\ received' = Append(received, i)
           /\ skipped' = skipped + IF indexed[i] THEN 0 ELSE Len(batches[i])
    /\ channel' = Tail(channel)
    /\ UNCHANGED <<input, main, cursor, task, indexed, closed, parts, output>>

\* Mutant: the results are taken in the order they came.
CollectedAsCame ==
    /\ main = "collect" /\ channel = <<>> /\ closed
    /\ parts' = SelectSeq(received, LAMBDA i : indexed[i])
    /\ main' = "assemble"
    /\ UNCHANGED <<input, cursor, task, indexed, channel, closed, received,
                   skipped, output>>

\* ... until it is closed and empty; then the results are put in the order of
\* the projects.
Collected ==
    /\ main = "collect" /\ channel = <<>> /\ closed
    /\ LET ok == {i \in Range(received) : indexed[i]}
       IN  parts' \in {p \in [1..Cardinality(ok) -> ok] :
                         Increasing(p) /\ Range(p) = ok}
    /\ main' = "assemble"
    /\ UNCHANGED <<input, cursor, task, indexed, channel, closed, received,
                   skipped, output>>

-----------------------------------------------------------------------------
(* Without the pool, and what follows both.                                *)

IndexNext ==
    /\ main = "loop" /\ cursor <= Len(batches)
    /\ cursor' = cursor + 1
    /\ \/ /\ indexed' = [indexed EXCEPT ![cursor] = TRUE]
          /\ parts' = Append(parts, cursor)
          /\ UNCHANGED skipped
       \/ /\ skipped' = skipped + Len(batches[cursor])
          /\ UNCHANGED <<indexed, parts>>
    /\ UNCHANGED <<input, main, task, channel, closed, received, output>>

LoopDone ==
    /\ main = "loop" /\ cursor > Len(batches)
    /\ main' = "assemble"
    /\ UNCHANGED <<input, cursor, task, indexed, channel, closed, received,
                   skipped, parts, output>>

\* A single TypeScript batch was converted in place; one part is copied and
\* several are merged, either of which may meet an I/O error.
Assemble ==
    /\ main = "assemble"
    /\ main' = "end"
    /\ output' \in
          IF parts = <<>> THEN {"failed"}
          ELSE IF language = "typescript" /\ Len(batches) = 1 THEN {"direct"}
          ELSE IF Len(parts) = 1 THEN {"copied", "failed"}
          ELSE {"merged", "failed"}
    /\ UNCHANGED <<input, cursor, task, indexed, channel, closed, received,
                   skipped, parts>>

Task(i) == \/ TakeSlot(i) \/ Index(i) \/ Send(i) \/ ReleaseSlot(i)
           \/ TaskDone(i)
Main    == Begin \/ Receive \/ Collected \/ IndexNext \/ LoopDone \/ Assemble

Next == Main \/ CloseChannel \/ \E i \in Batch : Task(i)

\* Batch i waits for an indexer, or for the conversion after it.
Indexing(i) == \/ task[i] = "running"
               \/ main = "loop" /\ cursor = i

\* A goroutine that can run does, except that an indexer or a version check
\* of scip need not end: the first is waited for until all it started has
\* closed its output, the other has no time limit.
Fairness == /\ WF_vars(main # "loop" /\ Main) /\ WF_vars(LoopDone)
            /\ WF_vars(CloseChannel)
            /\ \A i \in 1..MaxProjects :
                  WF_vars(i \in Batch /\ ~Indexing(i) /\ Task(i))

Spec     == Init /\ [][Next]_vars
FairSpec == Spec /\ Fairness
-----------------------------------------------------------------------------
(* Properties.                                                             *)

\* At no time do more indexers run than SCIP_CLI_INDEX_WORKERS allows.
SlotsBounded ==
    Cardinality({i \in Batch : task[i] = "running"}) <= workers

\* No goroutine ever blocks on, or panics at, the channel: it has room when a
\* result is ready, and is open until the last result is in it.
SendsSafe ==
    \A i \in Batch :
        task[i] = "indexed" => Len(channel) < Len(batches) /\ ~closed

\* Every result is on its way exactly once: it has not been sent, is in the
\* channel, or has been received.
NothingLostOrDoubled ==
    main = "collect" =>
       LET seen == channel \o received
       IN  /\ IsInjective(seen)
           /\ Range(seen) =
                 {i \in Batch : task[i] \in {"sent", "released", "done"}}

\* Whatever order the goroutines end in, the output is made of the batches
\* that were indexed, in the order of the projects, exactly as without a
\* pool; the batches share out the projects, and every project is in the
\* output or counted as skipped, once; and only a single batch, indexed, is
\* left where it was converted.
OutcomeOfTheLoop ==
    main = "end" =>
       /\ Increasing(parts) /\ Range(parts) = {i \in Batch : indexed[i]}
       /\ ProjectsOf(Batch) = 1..found
       /\ \A i, j \in Batch : i < j =>
             \A p \in Range(batches[i]), q \in Range(batches[j]) : p < q
       /\ skipped = Cardinality((1..found) \ ProjectsOf(Range(parts)))
       /\ output = "direct" => parts = <<1>>

\* If no indexer hangs, indexing ends, whatever fails.
Ends ==
    (\A i \in 1..MaxProjects : []<>(i \in Batch => ~Indexing(i))) =>
        <>(main = "end")
=============================================================================
