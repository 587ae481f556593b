---------------------------- MODULE AnalyzeChecks ----------------------------
(***************************************************************************)
(* The checks of analyze: for each, the rows its SQL statement selects and *)
(* its filter accepts.  How many of them a check returns, and how they are *)
(* fetched, is in Analyze and in RowCollector.  A row is the pair of a     *)
(* symbol and its document, unless the comment says otherwise; statements  *)
(* that group by symbols are meant for symbols with one definition.        *)
(***************************************************************************)
EXTENDS IndexDB, Digraphs

CONSTANTS Noisy,          \* symbols the checks leave out by their names
          StaleTypeNoise  \* definitions that are never stale types: component
                          \* properties, by name, and settings, by path

-----------------------------------------------------------------------------
(* live.go: what the index says is alive for other reasons.                *)

IsModule(s) == KindOf[s] = "module"
ExportValueBase(s) == IF KindOf[s] \in {"function", "type"} THEN BaseOf[s] ELSE NoBase

\* Documents imported as a whole, and names exported under an alias that
\* another document uses.
LiveModuleDocs(db) ==
    {def[2] : def \in {x \in db.defs : IsModule(x[1]) /\ UsedOutside(db, x[1], x[2])}}
LiveAliasBases(db) ==
    {BaseOf[s] : s \in {x \in Symbols : /\ KindOf[x] = "alias"
                                        /\ HomeOf[x] \in db.docs
                                        /\ UsedOutside(db, x, HomeOf[x])}}

\* PossiblyLiveLabel, SameFileExportNoise and StaleTypeLiveNoise ask the same
\* of a symbol that is no module.
ExportedAlive(db, s, doc) ==
    /\ ExportValueBase(s) # NoBase
    /\ ExportValueBase(s) \in LiveAliasBases(db) \/ doc \in LiveModuleDocs(db)

DeadExportNoise(db, s, doc) == IsModule(s) \/ ExportedAlive(db, s, doc)

AnalyzeNoise(s, doc, includeTests) ==
    \/ ~includeTests /\ doc \in Tests
    \/ s \in Noisy
    \/ doc \in Loaders

FileHasImporters(db, doc) ==
    \/ doc \in LiveModuleDocs(db)
    \/ ImporterPaths(db, FileSymbols(db, doc), doc) # {}

\* IsLowSignalDeadFile: a document of modules and types alone.
LowSignal(db, doc) ==
    /\ FileSymbols(db, doc) # {}
    /\ \A s \in FileSymbols(db, doc) : KindOf[s] \in {"module", "type"}

-----------------------------------------------------------------------------
(* Project checks.  A scope is the set of documents in it.                 *)

DefsIn(db, opts) ==
    {x \in db.defs : x[2] \in opts.scope /\ ~AnalyzeNoise(x[1], x[2], opts.tests)}

InFileUse(db, s, doc) == ReferredTo(db, s, doc) \/ UsedInside(db, s, doc)

NotDeadExport(db, s, doc) == InFileUse(db, s, doc) \/ DeadExportNoise(db, s, doc)

DeadExports(db, opts) ==
    {x \in DefsIn(db, opts) : /\ ~UsedOutside(db, x[1], x[2])
                              /\ ~NotDeadExport(db, x[1], x[2])}

Unreferenced(db, opts) ==
    {x \in DefsIn(db, opts) : /\ ~\E m \in db.mentions : m.sym = x[1] /\ m.role = 0
                              /\ ~UsedOutside(db, x[1], x[2])
                              /\ ~NotDeadExport(db, x[1], x[2])}

\* The rows are documents.
DeadFiles(db, opts) ==
    {doc \in db.docs \cap opts.scope :
        /\ ~\E s \in FileSymbols(db, doc) : UsedOutside(db, s, doc)
        /\ opts.tests \/ doc \notin Tests
        /\ doc \notin Loaders
        /\ ~LowSignal(db, doc)}

StaleTypes(db, opts) ==
    {x \in DefsIn(db, opts) : /\ KindOf[x[1]] = "type"
                              /\ ~\E y \in db.defs : y[1] = x[1] /\ UsedOutside(db, y[1], y[2])
                              /\ x \notin StaleTypeNoise
                              /\ ~ReferredTo(db, x[1], x[2])
                              /\ ~ExportedAlive(db, x[1], x[2])}

SameFileOnly(db, opts) ==
    {x \in DefsIn(db, opts) : /\ ReferredTo(db, x[1], x[2])
                              /\ ~\E doc \in db.docs \ {x[2]} : ReferredTo(db, x[1], doc)
                              /\ ~ExportedAlive(db, x[1], x[2])
                              /\ FileHasImporters(db, x[2])}

TestOnly(db, opts) ==
    IF opts.tests THEN {}
    ELSE {x \in DefsIn(db, opts) :
             LET users == ImporterPaths(db, {x[1]}, x[2])
             IN  users # {} /\ users \subseteq Tests /\ ~ReferredTo(db, x[1], x[2])}

\* The rows are pairs of documents.
TopCoupling(db, opts) ==
    {p \in db.docs \X db.docs :
        /\ p[1] # p[2] /\ (p[1] \in opts.scope \/ p[2] \in opts.scope)
        /\ p[2] \in ImporterPaths(db, FileSymbols(db, p[1]), p[1])
        /\ opts.tests \/ {p[1], p[2]} \cap Tests = {}}

Callees(db, doc) == {y \in db.defs : y[2] # doc /\ UsedBesideImports(db, y[1], doc)}

Bottlenecks(db, opts) ==
    {x \in DefsIn(db, opts) : /\ ~IsModule(x[1])
                              /\ UsedOutside(db, x[1], x[2])
                              /\ Callees(db, x[2]) # {}}

Hotspots(db, opts) ==
    {x \in DefsIn(db, opts) : /\ ~IsModule(x[1])
                              /\ \E m \in Uses(db) : m.sym = x[1]}

\* The rows are cycles of documents; types alone make no edge.
FileEdges(db) ==
    [d \in db.docs |->
        SetToSeq({y[2] : y \in {z \in db.defs :
                     /\ z[2] # d /\ UsedInside(db, z[1], d)
                     /\ KindOf[z[1]] \notin {"module", "type"}}})]
Cycles(db, opts) ==
    LET g == FileEdges(db)
    IN  {p \in TwoWayPairs(g) \cup {Append(q, q[1]) : q \in SimpleCycles(g, 8)} :
            /\ opts.tests \/ Range(p) \cap Tests = {}
            /\ Range(p) \cap opts.scope # {}}

-----------------------------------------------------------------------------
(* File checks.                                                            *)

DefsOf(db, doc) ==
    {x \in db.defs : x[2] = doc /\ ~AnalyzeNoise(x[1], doc, TRUE)}

UnreferencedInFile(db, doc) ==
    {x \in DefsOf(db, doc) : /\ ~\E m \in db.mentions : m.sym = x[1] /\ m.role = 0
                             /\ ~UsedOutside(db, x[1], doc)
                             /\ ~DeadExportNoise(db, x[1], doc)}

\* Mutant: whether the file itself refers to the symbol is not asked.
DeadForOthers(db, doc) ==
    {x \in DefsOf(db, doc) : /\ ~UsedOutside(db, x[1], doc)
                             /\ ~DeadExportNoise(db, x[1], doc)}

\* An import in the file itself is no reason to leave the symbol out, as it is
\* in DeadExports.
DeadInFile(db, doc) ==
    {x \in DefsOf(db, doc) : /\ ~UsedOutside(db, x[1], doc)
                             /\ ~ReferredTo(db, x[1], doc)
                             /\ ~DeadExportNoise(db, x[1], doc)}

SameFileOnlyInFile(db, doc) ==
    {x \in DefsOf(db, doc) : /\ ReferredTo(db, x[1], doc)
                             /\ ~\E d \in db.docs \ {doc} : ReferredTo(db, x[1], d)
                             /\ ~ExportedAlive(db, x[1], doc)
                             /\ FileHasImporters(db, doc)}

\* The rows are mentions: an import in several chunks has a row for each.
ImportsOf(db, doc) == {m \in db.mentions : m.doc = doc /\ m.role = 2}

UnusedImports(db, doc) ==
    {m \in ImportsOf(db, doc) : ~UsedBesideImports(db, m.sym, doc)}

ChangeSurface(db, doc) == FileSymbols(db, doc)

FileConsumers(db, doc) == ImporterPaths(db, FileSymbols(db, doc), doc)

\* Partners of both directions, each with its own count.
CouplingForFile(db, doc) ==
    {<<"uses it", d>> : d \in FileConsumers(db, doc)} \cup
    {<<"used by it", y[2]>> :
        y \in {z \in db.defs : z[2] # doc /\ UsedInside(db, z[1], doc)}}

\* A line with the total, and one for each mention that is an import and each
\* document that defines its symbol, or 0 if none does.
ImportsSummary(db, doc) ==
    LET origins(s) == {y[2] : y \in {z \in db.defs : z[1] = s}}
    IN  {<<[sym |-> "total"], 0>>} \cup
        UNION {{<<m, d>> : d \in IF origins(m.sym) = {} THEN {0} ELSE origins(m.sym)} :
                  m \in ImportsOf(db, doc)}

\* At most five, whatever the limit is; which ones the order of SQL says.
PressedSymbols(db, doc) == {s \in FileSymbols(db, doc) : UsedOutside(db, s, doc)}
TopSymbolRows == 5
TopSymbols(db, doc) ==
    LET all == SetToSeq(PressedSymbols(db, doc))
    IN  ToSet(SubSeq(all, 1, Min({Len(all), TopSymbolRows})))

-----------------------------------------------------------------------------
(* Symbol checks.                                                          *)

DocsOf(db, s) == {x[2] : x \in {y \in db.defs : y[1] = s}}

ConsumerFiles(db, s) == UNION {ImporterPaths(db, {s}, d) : d \in DocsOf(db, s)}

SymbolDependencies(db, s) == UNION {Callees(db, d) : d \in DocsOf(db, s)}

\* What may be affected by a change, with the number of steps to it.
StepsFrom(db, s) ==
    LET near(syms) == UNION {{y[1] : y \in {z \in db.defs :
                                 UsedInside(db, x, z[2]) /\ z[1] # x}} : x \in syms}
        at[n \in 0..5] == IF n = 0 THEN {s} ELSE near(at[n - 1])
    IN  at

Affected(db, s) ==
    {row \in {<<n, x[1], x[2]>> : n \in 1..5, x \in db.defs} :
        row[2] \in StepsFrom(db, s)[row[1]]}
=============================================================================
