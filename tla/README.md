# A TLA+ model of scip-cli

scip-cli answers questions about a repository (`refs`, `search`, `deps`,
`analyze`, ...) from an SQLite index of it. The index is made by external
indexers, one run per project or batch of projects of the repository, converted
by the `scip` executable, post-processed, merged, and kept in
`~/.cache/scip-cli/projects/<slug>/`. Every command is a process of its own; the
processes share that directory and the one `scip` executable in
`~/.cache/scip-cli/bin/`. This directory holds TLA+ modules of the parts where
processes, goroutines, failures and the order of steps matter, the TLC models
that check them, and TLAPS proofs of every safety property that TLC checks and
finds to hold.

## Inventory

| component | source | state | operations | what makes it correct |
|---|---|---|---|---|
| index cache and build lock | `internal/cache`, `internal/metadata`, `GetDB` and `Reindex` in `internal/indexing`, `internal/session` | `index.db`, `index.db.next` and its sidecars, `metadata.json`, the flock on `.index.lock`, open connections | build on first query, reindex, clean up, promote, open, read | `index.db` is always whole; one builder; a build is not mixed with the remains of another; metadata belong to the index; commands end |
| scip converter download | `internal/scip` | the executable at the cached path | check, remove, download, verify, execute | callers get a scip that works; quiet means working |
| indexing worker pool | `indexDiscovered`, `indexTypescript` | semaphore, wait group, result channel | index a batch, send, collect, sort | as the sequential loop; no more indexers than allowed; no deadlock |
| index contents | `convertScipToDB`, `postprocessIndex`, `internal/merge`, `internal/exclude` | five tables of each part and of the output | prune, trim, prefix, merge | no dangling rows, no duplicates, nothing lost but what is to go |
| indexer processes | `runIndexer` and fallbacks | none | run, install, run again | a missing tool is installed once |
| discovery and scope | `internal/discover`, `internal/scope`, `internal/config`, `internal/project`, `internal/paths` | none | walk, dedupe, filter | each project once, nested ones not twice |
| resolution of names | `internal/queries`, `internal/symbols`, `internal/targets` | none | resolve a symbol or a file, rank | the best match whatever the order of rows |
| query commands | `internal/commands` | rows read and printed so far | resolve, select, page, cut, warn | nothing twice, nothing lost in silence; commands that show one relation agree |
| analysis | `internal/analyze` | row budget, sections, graph of the files, pages of a check | checks of a project, a file or a symbol; paging; components and cycles | the budget is kept and every cut told; what is called dead is dead; cycles are cycles, once |
| command line, output | `cmd/scip-cli`, `internal/output`, `internal/source`, `internal/clierr` | none | parse, print | |

How they interact: every query calls `session.Setup`, which calls `GetDB`;
`reindex` calls `Reindex`. Both take the flock, call `CleanupInProgressIndex`,
then `indexProject`, which runs the pool; each worker runs an indexer, asks
`EnsureScipBinary` for the converter (shared by all processes, of every project)
and converts and post-processes its part; the parts are copied or merged into
`index.db.next`, which `PromoteNextIndex` renames to `index.db`. Queries read
`index.db` without the lock.

What is hard: processes that interleave at every file operation; a process that
dies between any two of them; workers that overwrite each other's executable;
results in any order, some of them failures; rows that must follow ids through
three tables; filters in Go over rows that SQL has limited; searches that start
anywhere in a Go map; one budget spent by many checks. `PROJECT.json` lists each
hazard at its line with the properties that cover it, or why none does yet.

## Modules

**IndexStore** is what the cache promises: a cell, empty at first, that a build
replaces in one atomic step by a finished index and that is never emptied. A
command sees what was published when it read.

**IndexCache** is the cache as the code keeps it. `pc[p]` is the place of process
`p` in `GetDB` or `Reindex`: `find` and `recheck` are the two looks for `index.db`
around `AcquireLock`; `apply` and `write` are `ApplyMetadataUpdates` and the
truncate and write of `os.WriteFile`; `cleanup` and `cleanupWal` are
`CleanupInProgressIndex`; `load` is the reading of globs and scope, `build` the
indexing of the parts; `direct`, `copy` and `merge` are the three ways
`index.db.next` is filled; `promote` and `rename` are `PromoteNextIndex`; `abort`
and `abortWal` the cleanup after an error; `open` and `session` the connections.
An index is a record of the command that built it, the metadata it was built
with, and whether it is `partial`, `whole`, or `mixed` with the log of another
build. A crash can come at any place: the lock and the connections go, the files
stay. Every step of the code that can fail has an action that fails (`LockFails`,
`SaveFails`, `BuildFails`, `PromoteFails`, `OpenFails`). `load` is one step, although
`metadata.json` is read twice in it (indexing.go:1174 and :179): both reads are under
the lock. Abstracted: what an index holds (IndexData), how the parts are made
(IndexPool), the memory-mapped `-shm` file, which goes with the log, the removal of
the sidecars of `index.db` before the rename (cache.go:72-81), which nothing writes,
and I/O errors of the removals, which the code ignores. A process and the tools it
runs die together.

**ScipBinary** is `EnsureScipBinary` and the execution that follows, by workers
that share nothing but the file system. A file is the worker that created it, or
`Old`, what a former run left; files are written in two blocks at the writer's
offset, so that a file truncated under a writer has a hole until another fills
it. The rules of the operating system that the code relies on are in the guards:
a file that is open for writing cannot be executed, and one that is executed, be
it by a version check, cannot be opened for writing.

**IndexPool** is the pool of `indexDiscovered` and `indexTypescript`, which have
the same shape: the unit is a batch, of one project for all languages but
TypeScript. Each goroutine takes a slot, indexes, sends, gives its slot back
(deferred last, so run first) and tells the wait group; the closer closes the
channel; the caller receives, counts, and sorts. The loop that is used without
parallelism, and the assembly of the output, are in the same module. `found` is how
many projects there are; the batches are consecutive runs of them.

**IndexData** is what happens to the rows. A table is a function from ids to rows;
`Converted` is what scip writes, `PruneExcludedDocuments`, `TrimUnusedColumns` and
`TrimToKnownSymbols` are the statements of `postprocessIndex`, `Prefixed` is
`prefixDocumentPaths`, and `Merged` is `mergeOneDatabase` with its three maps. A
glob is the set of the paths or names that its expression matches; a symbol is of
one of three sorts, by what the SQL patterns tell apart: variables, structural
symbols (methods, parameters, type literals), and the others (types). Occurrences
inside chunks, line numbers and SQL indexes are left out. Definitions of a file that
two parts hold are inserted twice, as in the code: `RowsUnique` is about documents,
symbols and chunks.

**IndexDB** is a finished index as the commands read it: documents, numbered in the
order of their paths, definitions, and mentions with their roles; and the helpers
that several commands share. A symbol has one definition in a document; where the
code has no `DISTINCT` it gives a row for each of several ranges, and the model one.
`HomeOf` is the document that `defDocIDFromSymbol` takes for the one in a symbol's
name (`GLOB '*/name' LIMIT 1`): any document, not always the right one.

**OrderedRows** is `ORDER BY`, `LIMIT` and the loops that keep the rows that pass a
test: rows in order have their ranks for their places (`Ordered`), and what is kept
are the rows at some of the places (`AtPlaces`). Resolve, QueryCommands and FileGraph
use it, so that what is proved of sorting is proved once.

**Resolve** is how an argument finds symbols (`ResolveSymbol` and its two wider
attempts) and files (`ResolveFile`, `rankFileMatches`). A name is the sets of
symbols that the patterns built from it select; a statement without `ORDER BY`
gives its rows in any order, so that a choice among them is any choice
(`Candidates`), and one that has it sorts by rank. `RankFileMatches` has
the two loops and the comparison of `rankFileMatches` as they are written, as
recursive functions over the places that are left.

**QueryCommands** is `search`, `refs`, `code`, `symbols`, `rdeps`, `deps` and
`members`: a command resolves its arguments, asks for one row more than it may
print, filters, cuts, and warns. `refs` has an action for each batch of rows, as
its loop has; `search` is its two halves, for names and for patterns, and what
puts them together. `RefRows` orders the rows of a symbol by document, chunk and role,
and a chunk stands for a line; the statement sorts by path and line only, so that
SQLite may order ties in another way for each `OFFSET`, which is left out, and so are
errors of the statements.

**RowCollector** is `CollectUntilLimit`: pages of a statement, filtered until there
are enough rows. **Digraphs** says what components are, **FileGraph** how the code
finds them and the cycles: `tarjanSCCs` with its stack, indexes and low links, a
step for each call, started from the files in any order; `cyclesInSCC` with the
key that tells one cycle from another; and `CollectFromProducer`, which asks again
with a larger cap. **AnalyzeChecks** has the rows that each check finds, and
**Analyze** the runs of checks: which are selected, redundant or skipped, their
sections, and the budget. `plan` is the runs of checks that are to come and `todo`
the checks of the one that goes on, both sets: `RunsBefore` and the order of the
table of checks say which is next. In Analyze a check returns any of its rows up to
the number it was asked for: RowCollector and FileGraph are what chooses them.
**Analysis** puts the three together: a command runs one of them while the others are
idle, which is enough, as they share no state.

The modules whose names end with `Proofs` have the theorems about the module they
are named for; QueryProofs has those about Resolve too, and AnalyzeProofs those about
RowCollector and Analysis.

The modules whose names begin with `MC` give the constants their values for TLC.
A definition whose comment begins with *Mutant* is a variant of the definition
after it with one plausible mistake; it is part of no specification, and shows
that the property named for it in `PROJECT.json` would notice.

## Runs

| run | instance | checks |
|---|---|---|
| `cache_safety` | 3 processes (symmetric), 3 commands, 1 crash, 5 sorts of reindex, a scope without projects | types, mutual exclusion, `LiveIsWhole`, `NextIsMine`, `MetadataHeld`, `SuccessIsServed`, `OnlyReindexReplaces`, and that IndexCache implements IndexStore |
| `cache_liveness` | 2 processes, 3 commands, 1 crash, fairness | `CommandsEnd`, `QueriesGoOn` |
| `cache_snapshot` | 2 processes, 3 commands | `SessionReadsOneIndex`: violated |
| `cache_torn` | 2 processes, 1 crash | `MetadataNeverTorn`: violated |
| `scip_binary` | 3 workers, any state of the old file, with and without a scip on `PATH` | types, `OldNeverConverts`, `QuietMeansWorking`, `SomeoneConverts`, `WorkersEnd` |
| `scip_race` | 2 workers | `ReturnsWorking`: violated |
| `index_pool` | 0 to 4 projects, every batch size, 1 or 2 workers | types, `SlotsBounded`, `SendsSafe`, `NothingLostOrDoubled`, `OutcomeOfTheLoop`, `Ends` |
| `index_data` | 2 parts over 2 files, disjoint or the same; 3 symbols; 4 lists of globs; with and without externals | types, `NothingDangles`, `RowsUnique`, `OutputIsFiltered` |
| `analysis` | all graphs of 3 files with their rows in every order, a cycle of 4, all edges of 4 files, two cycles of 3 joined by an edge; up to 4 rows with every filter; ten command lines over indexes of 5 definitions and every two uses | types, `ComponentsExact`, `CyclesOnce`, `CyclesComplete`, `PagingIsInvisible`, `RowsWithinLimit`, `EveryCutIsTold`, `NothingLostToRedundancy`, `DeadIsDead` |
| `query_commands` | 7 symbols in 4 files, up to 8 uses besides definitions; limits 1 to 5; names that several symbols and patterns that several files fit | types, `BestFileFirst`, `SearchFindsEachOnce`, `RefsAreTheFirst`, `CutsAreTold`, `CommandsAgree` |
| `exclude_paths` | the same as `index_data` | `ExcludesAreRepoRelative`: violated |
| `trimmed_references` | the same as `index_data` | `ProjectSymbolsKept`: violated |

Bounds. Three commands are a builder that fails or dies, one that builds after
it, and one that reads or waits meanwhile; two would not show a third process
that meets the remains of the first in the hands of the second. One crash is
enough for each of its consequences, and a failure is not a crash: those are not
bounded. Three workers are needed for a removal, a truncation and a use of one
file; the commands of one process are one after the other, so that a process may
run several. Four projects give batches of 1+1+1+1, 2+2, 3+1 and 4; two workers
make four goroutines wait for slots. Two parts are one merge, and merges are done
one by one into the output; the same files in both parts stand for overlapping
TypeScript batches, a directory `lib` for a nested module.

Three files are enough for every way in which two cycles share files, and for a
component of three beside one of two; the cycle of four is longer than `MaxDepth`,
which is lowered with `KeyWidth` and `MaxScan` so that all of them are met; the two
joined cycles need a low link that must not be taken from a finished component. The
order in which Tarjan's algorithm takes its first files is chosen anew in every
behaviour and at every call. In the code a page has 50 rows, or as many as the
limit if that is larger (common.go:28-31), and at most 10 000 are looked at
(common.go:16); here 2 and 3, and four rows make a full page, a short one, an empty one
and a bound inside a page. The ten command lines of `analyze` are each of its
targets with limits that are never met, met in the first section, met between
sections, and met exactly. For the queries, limits of 1 and 2 cut what is found and
a limit of 5 does not; `refs` reads batches of 2, so that rows of one line fall into
two batches; members are capped at 2 of 3. Patterns of files select any of the four
files by their endings, by their names or in full; only combinations that no pattern
can have, such as a full path that is not an ending, are left out.

Deadlock is not checked: every model ends when its commands, workers, parts or rows
are used up.

Fairness. What a process does by itself is fair, and what it waits for from another
program is not. `scip --version` is run with no time limit at all
(scip_tool.go:66-73), also under the build lock (by way of indexing.go:575). Indexers
and conversions are killed after `IndexTimeout`, but `CombinedOutput` is used without
a `WaitDelay`, so that it still waits for any process that the killed one has started
and that holds its output open. So:

* IndexCache: `WF` of `Run` outside `build` and `direct` (`Outside`), and `WF` of
  `EndSession`: a command prints and exits. The kernel wakes a waiter when the flock is
  free, and as only `MaxCommands` commands are started, no waiter is overtaken for
  ever. Crashes, failures (`LockFails` too) and the start of commands are not fair.
  `CommandsEnd` has it as a premise that no process stays `Outside` for ever;
  `QueriesGoOn` has no premise: a build that hangs under the lock does not keep a query
  of an index that exists from ending.
* ScipBinary: `WF` of `Run` outside the two version checks (`Checking`). `WorkersEnd`
  is about each worker whose own checks return. Downloads have the time limit of the
  HTTP client; that a conversion stopped at its limit ends is assumed.
* IndexPool: goroutines that can run do, but for those that index (`Indexing`).
  `Ends` has it as a premise that no indexer hangs.

The queries and `analyze` are sequential programs without waiting; no fairness is
assumed and no liveness stated of them.

What the violated properties show:

* `cache_snapshot`: `GetDB` returns a `*sql.DB`, a pool of connections. `search`
  runs a statement for each row while the rows are open, for which the pool opens
  a second connection by path; if a reindex has renamed a new `index.db` in
  between, ids of the old index are looked up in the new one.
* `cache_torn`: `metadata.json` is truncated, then written. If the process dies
  in between, the file is taken for an empty one, and the persisted scope and
  excludes are lost without a message.
* `scip_race`: `EnsureScipBinary` returns a path that another worker may remove or
  truncate before the caller executes it; the worker's project is then skipped.
  `SomeoneConverts` and `QuietMeansWorking` say how far that can go.
* `exclude_paths`: documents are pruned before their paths are made relative to
  the repository, so that a pattern with a slash misses them in nested modules.
* `trimmed_references`: symbols without a definition in their own part are
  trimmed before the merge, so references to a type of another module or batch
  are lost. Functions are kept by their pattern.

Contrary to SKILL.md:87, which says of search that "Multiple patterns are OR'd", a
search of several patterns drops the results of names it has resolved when the
patterns that are left find nothing, and fails (search.go:346-354). The model does the
same. `SearchFindsEachOnce` says what a search that succeeds prints, and that whenever
one fails, one of its patterns finds nothing; it does not say that all of them do.

What the code does that no document contradicts, met while modelling it:

* `analyze` prints a cycle of two files that lies in a component of three or more
  twice, as a pair and among the lines of `FindLongerCycles`. `CyclesOnce` and
  `CyclesComplete` are about these lines.
* The rows of a project target are spent before those of its files; when they are
  spent exactly, the checks of the files are left out without a note.
* `dead_in_file` looks for plain references in the symbol's own file only, where
  `dead_exports` looks for any mention there (`HasSameFileUsageMention`): the first
  may call dead what the second would not, such as a symbol that is imported there.
  `DeadIsDead` takes each section at its own notion of a use: a dead file has no
  importer, a dead export no mention but definitions, a dead export in file none
  elsewhere and no plain reference at home; and a symbol that one of the sections
  calls dead is not in one that lists it for its uses (`ListedForUses`).
* The results of a search for names and of one for patterns are each cut with a
  warning, and once merged are cut again without one.
* `rdeps` applies `--path` to rows that SQL has limited already, and the module of
  a file counts against the limit of `symbols` and is then left out: both may print
  less than there is, `symbols --limit 1` nothing. `CutsAreTold` says that
  a warning is given then, but for `rdeps` with a scope.
* A name matches in any case while it is the last part of a symbol, and in its own
  case when it is anywhere else.
* `rankFileMatches` compares by three keys of which the later ones are asked
  although an earlier one has decided; what it puts first is right nevertheless.

## Proofs

`IndexCacheProofs` proves for any number of processes, commands and crashes, any
scopes and any globs, from the assumptions of IndexCache (`CacheAssumption`,
`NoFileAssumption`: the constants are distinct and the bounds are numbers) what
`cache_safety` checks on its instance. The safety properties are not inductive
one by one: that a promoted file is whole needs that the file at `promote` is the
builder's own and finished (`NextReady`), which needs that nobody else writes it
(`LockProtects`) and that no foreign log lies beside it (`NextIsMine`); that only a
reindex replaces an index needs that a query that builds has seen none and that
none can have appeared since (`QueryBuildsFirst`); that a successful reindex is
served needs that its update was in the file from the moment it was saved
(`UpdateSaved`), which rests on the idempotence of `Applied` (`AppliedTwice`). `IInv`
is their conjunction. There is a lemma for each action, by parts of `IInv`; the
theorems follow by temporal logic, and `Refinement` maps each step to a step of
IndexStore: a rename to `Publish`, an opening to `View`, an end or a death to
`Close`, the others to nothing.

`ScipBinaryProofs` proves, for any number of workers but none (`Workers # {}`), that
no conversion runs an old scip: `OldNeverConverts` needs that a worker that was given
the cached path while the old file was there was given it as one that is recent
enough (`OldIsGiven`), and that the old file never returns to the path
(`OldNeverReturns`). `QuietMeansWorking` and `SomeoneConverts` are about files that
are removed, emptied and written by several workers at once, and follow from
`QuietInv`: until a download fails or a process dies, whoever removes the cached file
is still to make a new one (`GoneIsMade`), whoever empties it is still to write what
it lacks (`MissingIsWritten`), the old file stays only where it works or until it is
removed (`OldStays`); and of the workers one has converted or has still to try
(`SomeoneWill`).

`IndexPoolProofs` proves, for any number of projects and workers and batches of any
size, `SlotsBounded`, `SendsSafe` and `NothingLostOrDoubled`. That a send finds room
is not a matter of the length of the channel: results in it are of different
batches (`PoolResults`), and the batch whose goroutine has yet to send is not among
them, so that there are fewer than the capacity. That no send meets a closed channel
rests on the closer waiting for all goroutines (`PoolClosed`). `OutcomeOfTheLoop`
states what the loop would make without running it: the parts are the batches that
were indexed, in increasing order, and `skipped` counts the projects of the others.
The proof counts the projects of the results received so far (`CountOneMore`), which
are all of them when the channel is closed and empty.

`IndexDataProofs` proves, for any repository, any globs and settings, and whichever
parts fail, `NothingDangles`, `RowsUnique`, `OutputIsFiltered` and the types, from
`InputsAssumption`:
an indexer speaks of finitely many documents, and mentions and definitions are in
documents it lists. Between the statements of `postprocessIndex` mentions may be of
symbols that are gone; `HalfFine` is what holds then, `Fine` what holds between
steps, and there is a lemma for each function: pruning, trimming, prefixing (paths
stay apart, as they all get the same prefix), converting, and merging, which rests
on the new ids of `InsertInto` being above the old ones (`Inserted`, `MaxExists`).
What a database says is the set of its documents, definitions and mentions without
their ids; each function has a lemma for what its result says, and `SaysSoFar` that
the output says what the parts merged so far say of the documents and symbols that
are kept.

`AnalyzeProofs` proves, for any finite index (`DatabasesAssumption`), any target and
any choice of checks, `RowsWithinLimit`, `EveryCutIsTold`, `NothingLostToRedundancy`
and `DeadIsDead`. `AnalyzeInv` relates the sections to the checks that are not in
`todo` any more: `printed + budget = options.limit`; a check that has no section and
is not told of as left out had no rows; a section that is not marked as cut has all
the rows of its check, as a check is asked for one row more than it may print. The
last two properties then follow from inclusions between the rows that the checks
select: what `unreferenced` finds is found by the checks that cover it, which have
printed it unless the output says that they were cut or left out.

The same module proves that `CollectUntilLimit` gives what one pass would, for
any number of rows, any filter, limit, page size and bound: what was looked at is a
prefix of the rows, as a page begins where the page before it ended (`InThePages`),
and what was kept is the accepted part of it (`KeptSoFar`). Its last theorems are about Analysis: `AnalysisTypeOK`, and all that the run
`analysis` checks, for whichever part is at work. A part that is idle stays so,
because each of its actions begins in another phase; `PartsAssumption` says that there
is an index, an option and a request for the idle ones to hold.

`QueryProofs` proves, for any index and any command lines (`QueryAssumption`: both
are finite, a pattern selects what it matches), all that `query_commands` checks.
`CutsAreTold` and `CommandsAgree` follow each command from its resolution to its
output (`rdeps` with a scope excepted). `RefsAreTheFirst` is about a loop over
batches: what has been read is a prefix of the rows, and the lines it makes are the
first of all lines, as later rows make later ones; the sorted sequences are compared
by ranks. `BestFileFirst` holds although the comparison of `rankFileMatches` is no
order, for it holds for a file that is none and a test of a later path that either is
to stand before the other: while the loops compare the file at a place, what stands
there is the best so far, and no test stands behind a file of a later path that is
none (`TestsLater`, `Compared`), so that it makes no difference.
`SearchFindsEachOnce` needs that lines found for names and lines found for patterns
are put together without repetition. Which lines they are, and that one that fails has a
pattern that finds nothing, holds when every pattern is read whole (`ReadWhole`): for a qualified name the code reads `RowsToRead` rows before it
compares qualifiers and case in Go, and keeps one more than the limit, so that what
the bound cuts off may include what was asked for; the instance has such a name
(`NameLoose`, with `QualifiedRows` of 2).

`FileGraphProofs` proves that Tarjan's algorithm is right on every graph of files
(`GraphsAssumption`: finitely many files depend on others), as a theorem of
`CycleSpec`, the part of `analysis` that looks for cycles. What a component is is
said without the algorithm: files that reach each other, where what is reached is
in every set of files that no edge leaves. The invariant `Searching` says that the
numbers increase along the stack and the call stack (`Stacks`), that finished
components are right and no edge leaves them (`Split`), that a file on the call stack
reaches all that was visited after it and is reached by all that is above it
(`Connected`), and that a link is the number of a file on the stack that is reached,
and not above that of any neighbour looked at from the files above (`Linked`).

That the check built on it takes from `FindLongerCycles` no cycle twice (`CyclesOnce`)
and, with rows to spare, all of them (`CyclesComplete`) is proved in the same module
from one invariant, `CheckInv`. A cycle lies in one component (that the components are exact is used
here), and `cyclesInSCC` starts from the files of a component in their order. So a
cycle that is new is met at its least file, where the path is its own key (`ByKey`):
for a cycle met at another file, the walks from its least file are over, and the key
is known. For completeness, with fewer cycles than the cap, a cycle through a file
that was started from is in `here`, or begins with a path on the stack (`HereSoFar`):
a path that is taken off is closed, when it is the whole cycle, or continued by the
next file of the cycle, which is inside the component and not on the path. When a
component is closed below the cap nothing was cut, so that `found` has all cycles of
the components that were walked and no other (`FoundSoFar`). `Accepting` and `Printed`
follow that through the candidates: what was looked at is a cycle, what the filter
wants of it is printed, and a call that gave fewer than it was asked for gave all.
The longest cycle fits into the key (`CyclesAssumption`: `MaxDepth <= KeyWidth`):
in the code the key is a `[8]string` and `cycles` asks `FindLongerCycles` for cycles
of up to 8 files; with a shorter key two long cycles would be taken for one.
`OrderedRowsProofs` is what both this and QueryProofs need of sorting: the ranks of a
finite set are 0, 1, ... (`RanksTell`), and rows taken at some places stay in order.

All bounds that TLC needs are constants of the modules, so that the theorems hold for
the values in the code. Assumptions about constants are evaluated by the runs.

Only model-checked: liveness (`CommandsEnd`, `QueriesGoOn`, `WorkersEnd`, `Ends`),
which is out of the prover's reach, and the five violated properties, whose counterexamples need no proof.

## Plan

Done: all modules above, with their runs, and a theorem for every invariant that a
passing run checks. What could come next, in this order:

1. Children that outlive a killed scip-cli, as writers of their own in IndexCache.
2. `runIndexer` and its fallbacks, as the part of IndexPool that decides an outcome.
3. `dedupeNested` and the roots of `discover`, over a small file tree.

## Not modelled

* `runIndexer` and its fallbacks (`go install`, `rustup`, `npx`): sequential runs of
  external programs, of which IndexPool has the outcome. That words in the output of
  an indexer decide whether another is installed is among the hazards. Children that
  outlive a killed scip-cli would need files that are written after they were removed
  in IndexCache.
* Discovery of projects, configured roots and scopes: pure functions of the file
  tree. IndexPool and IndexData begin with the projects they yield; that a scope may
  match none is in IndexCache. That projects around others are dropped is among the
  hazards.
* Flag parsing, dispatch, formatting, the reading of source snippets (`--full`,
  `--offset`, the cap on characters), `--names-only` and `--paths-only`: sequential,
  no state.
* Which text a pattern, a glob or a list of noisy names matches: a parameter of the
  modules, as a set.
* The comparison harness and the benchmarks: test tooling.
