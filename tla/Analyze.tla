------------------------------- MODULE Analyze -------------------------------
(***************************************************************************)
(* analyze: AnalyzeMain resolves its target and runs the checks of the     *)
(* project, of files or of a symbol, one RunChecks after the other.  All   *)
(* of them spend one budget of rows; a check is asked for one row more     *)
(* than it may print, which tells whether its output was cut.              *)
(***************************************************************************)
EXTENDS AnalyzeChecks

CONSTANTS Databases,    \* the indexes to be analyzed
          Options,      \* targets, limits and the choice of checks
          MaxDirFiles   \* files of a directory that are analyzed one by one

\* The kinds of targets; a limit below one is refused.
ASSUME OptionsAssumption ==
    \A o \in Options : /\ o.target.kind \in {"project", "dir", "file", "symbol"}
                       /\ o.limit \in Nat /\ o.perCheckLimit \in Int

\* An index is a file of SQLite.
ASSUME DatabasesAssumption ==
    \A d \in Databases : /\ IsDatabase(d)
                         /\ IsFiniteSet(d.docs) /\ IsFiniteSet(d.defs)
                         /\ IsFiniteSet(d.mentions)

VARIABLES db,        \* the index
          options,   \* the command line
          plan,      \* the runs of checks that are to come
          run,       \* the run that goes on, or NoRun
          todo,      \* its checks that are to come
          budget,    \* rows that may still be printed
          sections,  \* the output so far
          printed    \* how many rows it has

analyzeVars == <<db, options, plan, run, todo, budget, sections, printed>>

NoRun == [kind |-> "none"]
AllChecks == {}  \* no --check and no --priority

\* Options: target, limit, perCheckLimit (0 for none), tests, keys, priorities.

-----------------------------------------------------------------------------
(* The runs of a target, and the checks of a run.                          *)

ProjectRun(scope, tests) == [kind |-> "project", scope |-> scope, tests |-> tests]
FileRun(doc, top) == [kind |-> "file", doc |-> doc, top |-> top]
SymbolRun(s) == [kind |-> "symbol", sym |-> s]

\* ListDirFiles, and those of its files that are within the bound.
ListDirFiles(scope) == {d \in db.docs \cap scope : options.tests \/ d \notin Tests}
DirFiles(scope) ==
    {d \in ListDirFiles(scope) :
        Cardinality({e \in ListDirFiles(scope) : e < d}) < MaxDirFiles}

\* A file that is a test is analyzed with tests.
Plan ==
    LET target == options.target
    IN  CASE target.kind = "project" -> {ProjectRun(db.docs, options.tests)}
          [] target.kind = "dir" ->
                {ProjectRun(target.scope, options.tests)} \cup
                {FileRun(d, FALSE) : d \in DirFiles(target.scope)}
          [] target.kind = "file" ->
                {ProjectRun({target.doc}, options.tests \/ target.doc \in Tests),
                 FileRun(target.doc, TRUE)}
          [] target.kind = "symbol" -> {SymbolRun(target.sym)}

\* The checks of the project come before those of files, and these come in the
\* order of the paths.
RunsBefore(r, other) ==
    \/ r.kind = "project"
    \/ r.kind = "file" /\ other.kind = "file" /\ r.doc < other.doc

\* In the order in which RunChecks sorts them: by priority, then by key.
HighChecks   == <<"consumer_files", "cycles", "dead_exports", "dead_files",
                  "dead_in_file", "dependencies", "stale_types", "unreferenced",
                  "unused_imports">>
MediumChecks == <<"change_surface", "file_consumers", "same_file_only">>
LowChecks    == <<"affected", "bottlenecks", "coupling", "def_context", "hotspots",
                  "imports_summary", "symbol_pressure", "test_only", "top_coupling",
                  "top_symbols">>
ChecksByOrder == HighChecks \o MediumChecks \o LowChecks

PlaceOf(key) == CHOOSE i \in DOMAIN ChecksByOrder : ChecksByOrder[i] = key

PriorityOf(key) == IF key \in ToSet(HighChecks) THEN "high"
                   ELSE IF key \in ToSet(MediumChecks) THEN "medium" ELSE "low"

ChecksOf(r) ==
    CASE r.kind = "project" ->
            {"cycles", "unreferenced", "dead_exports", "dead_files", "stale_types",
             "same_file_only", "test_only", "top_coupling", "bottlenecks", "hotspots"}
      [] r.kind = "file" ->
            {"unreferenced", "dead_in_file", "unused_imports", "same_file_only",
             "change_surface", "file_consumers", "coupling", "imports_summary"}
            \cup IF r.top THEN {"top_symbols"} ELSE {}
      [] r.kind = "symbol" ->
            {"consumer_files", "dependencies", "affected", "symbol_pressure", "def_context"}

ProjectRows(o, key) ==
    CASE key = "cycles"         -> Cycles(db, o)
      [] key = "unreferenced"   -> Unreferenced(db, o)
      [] key = "dead_exports"   -> DeadExports(db, o)
      [] key = "dead_files"     -> DeadFiles(db, o)
      [] key = "stale_types"    -> StaleTypes(db, o)
      [] key = "same_file_only" -> SameFileOnly(db, o)
      [] key = "test_only"      -> TestOnly(db, o)
      [] key = "top_coupling"   -> TopCoupling(db, o)
      [] key = "bottlenecks"    -> Bottlenecks(db, o)
      [] key = "hotspots"       -> Hotspots(db, o)

FileRows(doc, key) ==
    CASE key = "unreferenced"    -> UnreferencedInFile(db, doc)
      [] key = "dead_in_file"    -> DeadInFile(db, doc)
      [] key = "unused_imports"  -> UnusedImports(db, doc)
      [] key = "same_file_only"  -> SameFileOnlyInFile(db, doc)
      [] key = "change_surface"  -> ChangeSurface(db, doc)
      [] key = "file_consumers"  -> FileConsumers(db, doc)
      [] key = "coupling"        -> CouplingForFile(db, doc)
      [] key = "imports_summary" -> ImportsSummary(db, doc)
      [] key = "top_symbols"     -> TopSymbols(db, doc)

SymbolRows(s, key) ==
    CASE key = "consumer_files"  -> ConsumerFiles(db, s)
      [] key = "dependencies"    -> SymbolDependencies(db, s)
      [] key = "affected"        -> Affected(db, s)
      [] key = "symbol_pressure" -> {"pressure"}
      [] key = "def_context"     -> {"name", "file", "display name"}

Rows(r, key) == IF r.kind = "project"
                THEN ProjectRows([scope |-> r.scope, tests |-> r.tests], key)
                ELSE IF r.kind = "file" THEN FileRows(r.doc, key)
                ELSE SymbolRows(r.sym, key)

\* The checks asked for, by key and by priority.
Requested(r) ==
    {k \in ChecksOf(r) : /\ options.keys = AllChecks \/ k \in options.keys
                         /\ options.priorities = AllChecks
                               \/ PriorityOf(k) \in options.priorities}

\* Mutant: the checks that are left out are those that stale_types covers too.
CoveredByTypes == [unreferenced |-> {"dead_exports", "dead_in_file", "stale_types"}]
RedundantIfCovered == [unreferenced |-> {"dead_exports", "dead_in_file"}]

Redundant(r, key) == /\ key \in DOMAIN RedundantIfCovered
                     /\ RedundantIfCovered[key] \cap Requested(r) # {}

Selected(r) == {k \in Requested(r) : ~Redundant(r, k)}

-----------------------------------------------------------------------------

AnalyzeInit == /\ db \in Databases /\ options \in Options
               /\ plan = Plan
               /\ run = NoRun /\ todo = {}
               /\ budget = options.limit
               /\ sections = <<>> /\ printed = 0

\* Another command is running.
AnalyzeIdle == /\ db = CHOOSE d \in Databases : TRUE
               /\ options = CHOOSE o \in Options : TRUE
               /\ plan = {} /\ run = NoRun /\ todo = {}
               /\ budget = options.limit
               /\ sections = <<>> /\ printed = 0

\* The later runs of a target are left out once the budget is spent.
StartRun ==
    /\ run = NoRun /\ plan # {}
    /\ IF budget <= 0
       THEN /\ plan' = {}
            /\ UNCHANGED <<run, todo>>
       ELSE \E r \in plan :
               /\ \A other \in plan \ {r} : RunsBefore(r, other)
               /\ run'  = r
               /\ todo' = Selected(r)
               /\ plan' = plan \ {r}
    /\ UNCHANGED <<db, options, budget, sections, printed>>

\* CheckRowCap.
RowCap == IF options.perCheckLimit > 0 /\ options.perCheckLimit < budget
          THEN options.perCheckLimit ELSE budget

\* Mutant: the check is asked for no more than it may print.
AsksForTheCap(cap) == cap
AsksFor(cap) == cap + 1

\* What a check returns: as many of its rows as it is asked for, those that
\* come first in the order of its statement.
Returned(all, n) ==
    IF Cardinality(all) <= n THEN {all} ELSE kSubset(n, all)

\* Mutant: the row that shows the cut is printed.
PrintsAll(raw, cap) == {raw}
PrintedOf(raw, cap) == Returned(raw, cap)

RunCheck ==
    /\ run # NoRun /\ budget > 0
    /\ \E key \in todo :
          /\ \A other \in todo : PlaceOf(key) <= PlaceOf(other)
          /\ \E raw \in Returned(Rows(run, key), AsksFor(RowCap)) :
             \E rows \in PrintedOf(raw, RowCap) :
                /\ sections' = Append(sections,
                       [run |-> run, key |-> key, rows |-> rows,
                        truncated |-> Cardinality(raw) > RowCap])
                /\ budget'  = budget - Cardinality(rows)
                /\ printed' = printed + Cardinality(rows)
          /\ todo' = todo \ {key}
    /\ UNCHANGED <<db, options, plan, run>>

\* The checks that are left when the budget is spent are told of in a note.
SkipRest ==
    /\ run # NoRun /\ todo # {} /\ budget <= 0
    /\ sections' = Append(sections, [run |-> run, key |-> "note", rows |-> {},
                                     truncated |-> TRUE])
    /\ run' = NoRun /\ todo' = {}
    /\ UNCHANGED <<db, options, plan, budget, printed>>

EndRun == /\ run # NoRun /\ todo = {}
          /\ run' = NoRun
          /\ UNCHANGED <<db, options, plan, todo, budget, sections, printed>>

AnalyzeNext == StartRun \/ RunCheck \/ SkipRest \/ EndRun

AnalyzeSpec == AnalyzeInit /\ [][AnalyzeNext]_analyzeVars

-----------------------------------------------------------------------------
(* Properties.                                                             *)

AnalyzeTypeOK ==
    /\ IsDatabase(db) /\ options \in Options
    /\ run = NoRun \/ run.kind \in {"project", "file", "symbol"}
    /\ todo \subseteq ToSet(ChecksByOrder)
    /\ budget \in Int /\ printed \in Nat

\* The rows of all sections together are no more than --limit, and those of one
\* section no more than --per-check-limit, whatever the checks find.
RowsWithinLimit ==
    /\ budget >= 0 /\ printed + budget = options.limit
    /\ \A i \in DOMAIN sections :
          options.perCheckLimit > 0
             => Cardinality(sections[i].rows) <= options.perCheckLimit

SectionsOf(r) == {i \in DOMAIN sections : sections[i].run = r}
NoteIn(r) == \E i \in SectionsOf(r) : sections[i].key = "note"

Ended(r) == run # r /\ SectionsOf(r) # {}

\* Of every run that ended, the output has all rows of a check, or says that
\* they were cut or that the check was left out.
EveryCutIsTold ==
    \A i \in DOMAIN sections :
       LET r == sections[i].run
       IN  Ended(r) => \A key \in Selected(r) :
              \/ NoteIn(r)
              \/ \E j \in SectionsOf(r) :
                    /\ sections[j].key = key
                    /\ sections[j].truncated \/ sections[j].rows = Rows(r, key)

\* Leaving out "unreferenced" loses no symbol: what it would have printed is in
\* the section of a check that covers it, unless the output says that this one
\* was cut or left out.
NothingLostToRedundancy ==
    \A i \in DOMAIN sections :
       LET r == sections[i].run
       IN  Ended(r) => \A key \in Requested(r) : Redundant(r, key) =>
              \/ NoteIn(r)
              \/ \E j \in SectionsOf(r) : /\ sections[j].key \in RedundantIfCovered[key]
                                           /\ sections[j].truncated
              \/ Rows(r, key) \subseteq UNION {sections[j].rows :
                    j \in {k \in SectionsOf(r) :
                              sections[k].key \in RedundantIfCovered[key]}}

ListedForUses == {"same_file_only", "test_only", "bottlenecks"}

\* What the output calls dead has no user that matters to the check, and none
\* in another section: a dead file has no file in its rdeps; a dead export of
\* the project no mention but definitions; a dead export in file none in other
\* files, and in its own file none that is a plain reference, although it may
\* be imported there; and no section lists such a symbol for the uses it has.
DeadIsDead ==
    \A i \in DOMAIN sections : LET r == sections[i] IN
       /\ r.key = "dead_files" =>
             \A d \in r.rows : ImporterPaths(db, FileSymbols(db, d), d) = {}
       /\ r.key = "dead_exports" =>
             \A x \in r.rows : ~\E m \in Uses(db) : m.sym = x[1]
       /\ r.key = "dead_in_file" =>
             \A x \in r.rows : \A m \in Uses(db) :
                m.sym = x[1] => m.doc = x[2] /\ m.role # 0
       /\ r.key \in {"dead_exports", "dead_in_file"} =>
             \A j \in DOMAIN sections : sections[j].key \in ListedForUses =>
                r.rows \cap sections[j].rows = {}
=============================================================================
