---------------------------- MODULE AnalyzeProofs ----------------------------
(***************************************************************************)
(* Proofs about Analyze, for every index, target and choice of checks,     *)
(* about the pages in which a check collects its rows (RowCollector), and  *)
(* about the types of all parts together (Analysis).                       *)
(***************************************************************************)
EXTENDS Analysis, FileGraphProofs, FiniteSetTheorems, SequenceTheorems, TLAPS

-----------------------------------------------------------------------------
(* Finite sets and sequences.                                              *)

LEMMA ImageFinite ==
    ASSUME NEW S, IsFiniteSet(S), NEW f
    PROVE  IsFiniteSet({f[x] : x \in S})
<1> DEFINE T == {f[x] : x \in S}
           g == [x \in S |-> f[x]]
<1>1. g \in Surjection(S, T)
  BY DEF Surjection
<1> QED
  BY <1>1, FS_Surjection

\* A function is the set of its pairs.
LEMMA FunctionsFinite ==
    ASSUME NEW S, IsFiniteSet(S), NEW T, IsFiniteSet(T)
    PROVE  IsFiniteSet([S -> T])
<1> DEFINE graph == [f \in [S -> T] |-> {<<x, f[x]>> : x \in S}]
<1>1. IsFiniteSet(SUBSET (S \X T))
  BY FS_Product, FS_SUBSET
<1>2. graph \in [[S -> T] -> SUBSET (S \X T)]
  OBVIOUS
<1>3. ASSUME NEW f \in [S -> T], NEW g \in [S -> T], graph[f] = graph[g]
      PROVE  f = g
  <2>1. ASSUME NEW x \in S PROVE f[x] = g[x]
    <3>1. <<x, f[x]>> \in {<<y, g[y]>> : y \in S}
      BY <1>3
    <3> QED
      BY <3>1
  <2> QED
    BY <2>1
<1>4. graph \in Injection([S -> T], SUBSET (S \X T))
  <2> HIDE DEF graph
  <2> QED
    BY <1>2, <1>3 DEF Injection, IsInjective
<1> QED
  BY <1>1, <1>4, FS_Injection

LEMMA SetToSeqOfSet ==
    ASSUME NEW S, IsFiniteSet(S)
    PROVE  /\ Cardinality(S) \in Nat
           /\ SetToSeq(S) \in [1..Cardinality(S) -> S]
<1>1. Cardinality(S) \in Nat /\ ExistsBijection(1..Cardinality(S), S)
  BY FS_CardinalityType
<1>2. PICK f : f \in Bijection(1..Cardinality(S), S)
  BY <1>1 DEF ExistsBijection
<1>3. f \in [1..Cardinality(S) -> S] /\ IsInjective(f)
  BY <1>2 DEF Bijection, Injection, IsInjective
<1> QED
  BY <1>1, <1>3 DEF SetToSeq

LEMMA MinOfTwo ==
    ASSUME NEW a \in Nat, NEW b \in Nat
    PROVE  Min({a, b}) \in Nat /\ Min({a, b}) <= a /\ Min({a, b}) <= b
<1>1. \E x \in {a, b} : \A y \in {a, b} : x <= y
  OBVIOUS
<1> QED
  BY <1>1 DEF Min
-----------------------------------------------------------------------------
(* What a check finds in an index is finite.                               *)

IndexOK == /\ IsDatabase(db)
           /\ IsFiniteSet(db.docs) /\ IsFiniteSet(db.defs) /\ IsFiniteSet(db.mentions)

Defined   == {x[1] : x \in db.defs}
Mentioned == {m.sym : m \in db.mentions}

LEMMA SymbolsFinite ==
    ASSUME IndexOK
    PROVE  IsFiniteSet(Defined) /\ IsFiniteSet(Mentioned)
<1> DEFINE first == [x \in db.defs |-> x[1]]
           sym   == [m \in db.mentions |-> m.sym]
<1>1. Defined = {first[x] : x \in db.defs} /\ Mentioned = {sym[m] : m \in db.mentions}
  BY DEF Defined, Mentioned
<1> HIDE DEF first, sym
<1> QED
  BY <1>1, ImageFinite DEF IndexOK

\* The sets that the rows of the checks are taken from.
LEMMA RowSources ==
    ASSUME IndexOK
    PROVE  /\ \A doc : FileSymbols(db, doc) \subseteq Defined
           /\ \A doc : ImportsOf(db, doc) \subseteq db.mentions
           /\ \A syms, doc : ImporterPaths(db, syms, doc) \subseteq db.docs
           /\ \A doc : Callees(db, doc) \subseteq db.defs
           /\ \A x \in db.defs : x[2] \in db.docs
<1>1. \A x \in db.defs : x = <<x[1], x[2]>> /\ x[2] \in db.docs
  BY DEF IndexOK, IsDatabase
<1>2. \A m \in db.mentions : m.doc \in db.docs
  BY DEF IndexOK, IsDatabase
<1>3. \A doc : FileSymbols(db, doc) \subseteq Defined
  BY DEF FileSymbols, Defined
<1>4. \A doc : ImportsOf(db, doc) \subseteq db.mentions
  BY DEF ImportsOf
<1>5. \A syms, doc : ImporterPaths(db, syms, doc) \subseteq db.docs
  BY <1>2 DEF ImporterPaths, Uses
<1> QED
  BY <1>1, <1>3, <1>4, <1>5 DEF Callees

LEMMA CyclesFinite ==
    ASSUME IndexOK, NEW o
    PROVE  IsFiniteSet(Cycles(db, o))
<1> DEFINE g == FileEdges(db)
           files == FilesOf(g)
           longest == Min({8, Cardinality(files)})
           near(d) == {y[2] : y \in {z \in db.defs :
                          /\ z[2] # d /\ UsedInside(db, z[1], d)
                          /\ KindOf[z[1]] \notin {"module", "type"}}}
           closed == [q \in SimpleCycles(g, 8) |-> Append(q, q[1])]
<1>1. \A d \in DOMAIN g : ToSet(g[d]) \subseteq db.docs
  <2>1. SUFFICES ASSUME NEW d \in db.docs PROVE ToSet(g[d]) \subseteq db.docs
    BY DEF FileEdges
  <2>2. g[d] = SetToSeq(near(d))
    BY <2>1 DEF FileEdges
  <2>3. near(d) \subseteq db.docs
    BY RowSources
  <2> HIDE DEF near, g
  <2>4. IsFiniteSet(near(d))
    BY <2>3, FS_Subset DEF IndexOK
  <2>5. SetToSeq(near(d)) \in [1..Cardinality(near(d)) -> near(d)]
    BY <2>4, SetToSeqOfSet
  <2> QED
    BY <2>2, <2>3, <2>5 DEF ToSet
<1>2. files \subseteq db.docs
  <2>1. DOMAIN g = db.docs
    BY DEF FileEdges
  <2> HIDE DEF g
  <2> QED
    BY <1>1, <2>1 DEF FilesOf
<1>3. IsFiniteSet(files) /\ Cardinality(files) \in Nat
  BY <1>2, FS_Subset, FS_CardinalityType DEF IndexOK
<1>4. longest \in Nat
  BY <1>3, MinOfTwo
<1> HIDE DEF g, files, longest
<1>5. \A n \in 2..longest : IsFiniteSet([1..n -> files])
  <2>1. SUFFICES ASSUME NEW n \in 2..longest PROVE IsFiniteSet([1..n -> files])
    OBVIOUS
  <2>2. n \in Int
    BY <1>4
  <2>3. IsFiniteSet(1..n)
    BY <2>2, FS_Interval
  <2> QED
    BY <1>3, <2>3, FunctionsFinite
<1>6. IsFiniteSet(UNION {[1..n -> files] : n \in 2..longest})
  <2> DEFINE walks == [n \in 2..longest |-> [1..n -> files]]
  <2>1. IsFiniteSet(2..longest)
    BY <1>4, FS_Interval
  <2>2. IsFiniteSet({walks[n] : n \in 2..longest})
    BY <2>1, ImageFinite
  <2>3. {walks[n] : n \in 2..longest} = {[1..n -> files] : n \in 2..longest}
    OBVIOUS
  <2> QED
    BY <1>5, <2>2, <2>3, FS_UNION
<1>7. SimpleCycles(g, 8) \subseteq UNION {[1..n -> files] : n \in 2..longest}
  BY DEF SimpleCycles, files, longest
<1>8. IsFiniteSet(SimpleCycles(g, 8))
  BY <1>6, <1>7, FS_Subset
<1>9. IsFiniteSet({Append(q, q[1]) : q \in SimpleCycles(g, 8)})
  <2>1. {Append(q, q[1]) : q \in SimpleCycles(g, 8)}
           = {closed[q] : q \in SimpleCycles(g, 8)}
    OBVIOUS
  <2> HIDE DEF closed
  <2> QED
    BY <1>8, <2>1, ImageFinite
<1>10. IsFiniteSet(TwoWayPairs(g))
  <2>1. TwoWayPairs(g) \subseteq files \X files
    BY DEF TwoWayPairs, files
  <2> QED
    BY <1>3, <2>1, FS_Product, FS_Subset
<1>11. IsFiniteSet(TwoWayPairs(g) \cup {Append(q, q[1]) : q \in SimpleCycles(g, 8)})
  BY <1>9, <1>10, FS_Union
<1>12. Cycles(db, o) \subseteq
          TwoWayPairs(g) \cup {Append(q, q[1]) : q \in SimpleCycles(g, 8)}
  BY DEF Cycles, g
<1> QED
  BY <1>11, <1>12, FS_Subset

LEMMA ProjectRowsFinite ==
    ASSUME IndexOK, NEW r, r.kind = "project", NEW key \in ChecksOf(r)
    PROVE  IsFiniteSet(Rows(r, key))
<1> DEFINE o == [scope |-> r.scope, tests |-> r.tests]
<1>1. Rows(r, key) = ProjectRows(o, key)
  BY DEF Rows
<1>2. key \in {"cycles", "unreferenced", "dead_exports", "dead_files", "stale_types",
               "same_file_only", "test_only", "top_coupling", "bottlenecks", "hotspots"}
  BY DEF ChecksOf
<1> HIDE DEF o
<1>3. CASE key = "cycles"
  BY <1>1, <1>3, CyclesFinite DEF ProjectRows
<1>4. CASE key = "dead_files"
  <2>1. Rows(r, key) \subseteq db.docs
    BY <1>1, <1>4 DEF ProjectRows, DeadFiles
  <2> QED
    BY <2>1, FS_Subset DEF IndexOK
<1>5. CASE key = "top_coupling"
  <2>1. Rows(r, key) \subseteq db.docs \X db.docs
    BY <1>1, <1>5 DEF ProjectRows, TopCoupling
  <2> QED
    BY <2>1, FS_Product, FS_Subset DEF IndexOK
<1>6. CASE key \notin {"cycles", "dead_files", "top_coupling"}
  <2>1. DefsIn(db, o) \subseteq db.defs
    BY DEF DefsIn
  <2>2. Rows(r, key) \subseteq DefsIn(db, o)
    BY <1>1, <1>2, <1>6 DEF ProjectRows, Unreferenced, DeadExports, StaleTypes,
                            SameFileOnly, TestOnly, Bottlenecks, Hotspots
  <2> QED
    BY <2>1, <2>2, FS_Subset DEF IndexOK
<1> QED
  BY <1>3, <1>4, <1>5, <1>6

LEMMA TopSymbolsFinite ==
    ASSUME IndexOK, NEW doc
    PROVE  IsFiniteSet(TopSymbols(db, doc))
<1> DEFINE pressed == PressedSymbols(db, doc)
           all == SetToSeq(pressed)
           n == Min({Len(all), TopSymbolRows})
<1>1. IsFiniteSet(pressed)
  BY SymbolsFinite, RowSources, FS_Subset DEF PressedSymbols
<1>2. all \in [1..Cardinality(pressed) -> pressed] /\ Cardinality(pressed) \in Nat
  BY <1>1, SetToSeqOfSet
<1>3. TopSymbols(db, doc) = ToSet(SubSeq(all, 1, n))
  BY DEF TopSymbols
<1> HIDE DEF pressed, all
<1>4. Len(all) = Cardinality(pressed)
  BY <1>2
<1>5. n \in Nat /\ n <= Len(all)
  BY <1>2, <1>4, MinOfTwo DEF TopSymbolRows
<1> HIDE DEF n
<1>6. \A i \in 1..n : all[i] \in pressed
  BY <1>2, <1>4, <1>5
<1>7. SubSeq(all, 1, n) \in Seq(pressed)
  BY <1>5, <1>6, SubSeqProperties
<1>8. ToSet(SubSeq(all, 1, n)) \subseteq pressed
  BY <1>7, LenProperties DEF ToSet
<1> QED
  BY <1>1, <1>3, <1>8, FS_Subset

LEMMA FileRowsFinite ==
    ASSUME IndexOK, NEW r, r.kind = "file", NEW key \in ChecksOf(r)
    PROVE  IsFiniteSet(Rows(r, key))
<1> DEFINE doc == r.doc
<1>1. Rows(r, key) = FileRows(doc, key)
  BY DEF Rows
<1>2. key \in {"unreferenced", "dead_in_file", "unused_imports", "same_file_only",
               "change_surface", "file_consumers", "coupling", "imports_summary",
               "top_symbols"}
  BY DEF ChecksOf
<1> HIDE DEF doc
<1>3. IsFiniteSet(Defined) /\ IsFiniteSet(Mentioned) /\ IsFiniteSet(db.docs)
  BY SymbolsFinite DEF IndexOK
<1>4. CASE key \in {"unreferenced", "dead_in_file", "same_file_only"}
  <2>1. Rows(r, key) \subseteq db.defs
    BY <1>1, <1>4 DEF FileRows, UnreferencedInFile, DeadInFile, SameFileOnlyInFile, DefsOf
  <2> QED
    BY <2>1, FS_Subset DEF IndexOK
<1>5. CASE key = "unused_imports"
  <2>1. Rows(r, key) \subseteq db.mentions
    BY <1>1, <1>5, RowSources DEF FileRows, UnusedImports
  <2> QED
    BY <2>1, FS_Subset DEF IndexOK
<1>6. CASE key = "change_surface"
  <2>1. Rows(r, key) \subseteq Defined
    BY <1>1, <1>6, RowSources DEF FileRows, ChangeSurface
  <2> QED
    BY <1>3, <2>1, FS_Subset
<1>7. CASE key = "file_consumers"
  <2>1. Rows(r, key) \subseteq db.docs
    BY <1>1, <1>7, RowSources DEF FileRows, FileConsumers
  <2> QED
    BY <1>3, <2>1, FS_Subset
<1>8. CASE key = "coupling"
  <2> DEFINE ways == {"uses it"} \cup {"used by it"}
  <2>1. IsFiniteSet(ways \X db.docs)
    BY <1>3, FS_Singleton, FS_Union, FS_Product
  <2>2. Rows(r, key) = CouplingForFile(db, doc)
    BY <1>1, <1>8 DEF FileRows
  <2>3. FileConsumers(db, doc) \subseteq db.docs
    BY RowSources DEF FileConsumers
  <2>4. \A y \in db.defs : y[2] \in db.docs
    BY RowSources
  <2>5. CouplingForFile(db, doc) \subseteq ways \X db.docs
    <3>1. {<<"uses it", d>> : d \in FileConsumers(db, doc)} \subseteq ways \X db.docs
      <4>1. \A d \in db.docs : <<"uses it", d>> \in ways \X db.docs
        OBVIOUS
      <4> HIDE DEF ways
      <4> QED
        BY <2>3, <4>1
    <3>2. {<<"used by it", y[2]>> : y \in {z \in db.defs : z[2] # doc
                                                      /\ UsedInside(db, z[1], doc)}}
             \subseteq ways \X db.docs
      <4>1. \A d \in db.docs : <<"used by it", d>> \in ways \X db.docs
        OBVIOUS
      <4> HIDE DEF ways
      <4> QED
        BY <2>4, <4>1
    <3> HIDE DEF ways
    <3> QED
      BY <3>1, <3>2 DEF CouplingForFile
  <2> QED
    BY <2>1, <2>2, <2>5, FS_Subset
<1>9. CASE key = "imports_summary"
  <2> DEFINE total == [sym |-> "total"]
             imported == (db.mentions \cup {total}) \X (db.docs \cup {0})
  <2> HIDE DEF total
  <2>1. IsFiniteSet(imported)
    BY <1>3, FS_AddElement, FS_Product DEF IndexOK
  <2>2. Rows(r, key) \subseteq imported
    BY <1>1, <1>9, RowSources DEF FileRows, ImportsSummary, total
  <2> QED
    BY <2>1, <2>2, FS_Subset
<1>10. CASE key = "top_symbols"
  BY <1>1, <1>10, TopSymbolsFinite DEF FileRows
<1> QED
  BY <1>2, <1>4, <1>5, <1>6, <1>7, <1>8, <1>9, <1>10

LEMMA AffectedFinite ==
    ASSUME IndexOK, NEW s
    PROVE  IsFiniteSet(Affected(db, s))
<1> DEFINE hops  == (1..5) \X db.defs
           row   == [p \in hops |-> <<p[1], p[2][1], p[2][2]>>]
           rows  == {<<n, x[1], x[2]>> : n \in 1..5, x \in db.defs}
<1>1. IsFiniteSet(1..5)
  <2>1. 1 \in Int /\ 5 \in Int
    OBVIOUS
  <2> QED
    BY <2>1, FS_Interval
<1>2. IsFiniteSet(hops)
  BY <1>1, FS_Product DEF IndexOK
<1>3. Affected(db, s) \subseteq rows
  <2>1. Affected(db, s) = {t \in rows : t[2] \in StepsFrom(db, s)[t[1]]}
    BY DEF Affected
  <2> HIDE DEF rows
  <2> QED
    BY <2>1
<1>4. ASSUME NEW n \in 1..5, NEW x \in db.defs
      PROVE  <<n, x[1], x[2]>> \in {row[p] : p \in hops}
  <2>1. <<n, x>> \in hops /\ row[<<n, x>>] = <<n, x[1], x[2]>>
    OBVIOUS
  <2> HIDE DEF row, hops
  <2> QED
    BY <2>1, Zenon
<1>5. rows \subseteq {row[p] : p \in hops}
  <2> DEFINE images == {row[p] : p \in hops}
  <2>1. \A n \in 1..5, x \in db.defs : <<n, x[1], x[2]>> \in images
    BY <1>4
  <2> HIDE DEF images
  <2>2. ASSUME NEW t \in rows PROVE t \in images
    <3>1. PICK n \in 1..5, x \in db.defs : t = <<n, x[1], x[2]>>
      BY <2>2
    <3> QED
      BY <2>1, <3>1
  <2> HIDE DEF rows
  <2>3. rows \subseteq images
    BY <2>2
  <2> QED
    BY <2>3 DEF images
<1> HIDE DEF hops, row, rows
<1>6. IsFiniteSet({row[p] : p \in hops})
  BY <1>2, ImageFinite
<1> QED
  BY <1>3, <1>5, <1>6, FS_Subset

LEMMA SymbolRowsFinite ==
    ASSUME IndexOK, NEW r, r.kind = "symbol", NEW key \in ChecksOf(r)
    PROVE  IsFiniteSet(Rows(r, key))
<1> DEFINE s == r.sym
<1>1. Rows(r, key) = SymbolRows(s, key)
  BY DEF Rows
<1>2. key \in {"consumer_files", "dependencies", "affected", "symbol_pressure",
               "def_context"}
  BY DEF ChecksOf
<1> HIDE DEF s
<1>3. CASE key = "consumer_files"
  <2>1. Rows(r, key) \subseteq db.docs
    BY <1>1, <1>3, RowSources DEF SymbolRows, ConsumerFiles
  <2> QED
    BY <2>1, FS_Subset DEF IndexOK
<1>4. CASE key = "dependencies"
  <2>1. Rows(r, key) \subseteq db.defs
    BY <1>1, <1>4, RowSources DEF SymbolRows, SymbolDependencies
  <2> QED
    BY <2>1, FS_Subset DEF IndexOK
<1>5. CASE key = "affected"
  BY <1>1, <1>5, AffectedFinite DEF SymbolRows
<1>6. CASE key = "symbol_pressure"
  BY <1>1, <1>6, FS_Singleton DEF SymbolRows
<1>7. CASE key = "def_context"
  <2>1. Rows(r, key) = {"name", "file", "display name"}
    BY <1>1, <1>7 DEF SymbolRows
  <2>2. \A a, b, c : IsFiniteSet({a, b, c})
    <3>1. ASSUME NEW a, NEW b, NEW c PROVE IsFiniteSet({a, b, c})
      <4>1. IsFiniteSet({a} \cup {b})
        BY FS_Singleton, FS_Union
      <4>2. IsFiniteSet(({a} \cup {b}) \cup {c})
        BY <4>1, FS_Singleton, FS_Union
      <4>3. {a, b, c} = ({a} \cup {b}) \cup {c}
        OBVIOUS
      <4> QED
        BY <4>2, <4>3
    <3> QED
      BY <3>1
  <2>3. IsFiniteSet({"name", "file", "display name"})
    BY <2>2, Zenon
  <2> QED
    BY <2>1, <2>3
<1> QED
  BY <1>2, <1>3, <1>4, <1>5, <1>6, <1>7

Kinds == {"project", "file", "symbol"}

LEMMA RowsFinite ==
    ASSUME IndexOK, NEW r, r.kind \in Kinds, NEW key \in ChecksOf(r)
    PROVE  IsFiniteSet(Rows(r, key))
BY ProjectRowsFinite, FileRowsFinite, SymbolRowsFinite DEF Kinds

-----------------------------------------------------------------------------
(* The inductive invariant.                                                *)

\* A section is a note, or it has rows that its check found: all of them, or
\* it says that it was cut.
SectionOK(s) ==
    /\ s.run.kind \in Kinds
    /\ options.perCheckLimit > 0 => Cardinality(s.rows) <= options.perCheckLimit
    /\ \/ s.key = "note" /\ s.rows = {} /\ s.truncated
       \/ /\ s.key \in ChecksOf(s.run)
          /\ s.rows \subseteq Rows(s.run, s.key)
          /\ s.truncated \/ s.rows = Rows(s.run, s.key)

\* The sections are of no one set: what is in a row depends on the check.
SectionsOK == \E S : sections \in Seq(S) /\ \A s \in S : SectionOK(s)

\* The checks of a run are to come, in its sections, or left out with a note.
HasSection(r, key) == \E j \in SectionsOf(r) : sections[j].key = key
Covered(r) == \A key \in Selected(r) :
                 (run = r /\ key \in todo) \/ NoteIn(r) \/ HasSection(r, key)
CoverInv == /\ run # NoRun => Covered(run)
            /\ \A i \in DOMAIN sections : Covered(sections[i].run)

\* What is printed and what is left of the budget make up the limit.
RunsInv == /\ db \in Databases /\ options \in Options
           /\ \A r \in plan : r.kind \in Kinds
           /\ run # NoRun => run.kind \in Kinds /\ todo \subseteq Selected(run)
           /\ budget \in Nat /\ printed \in Nat /\ printed + budget = options.limit

AnalyzeInv == RunsInv /\ SectionsOK /\ CoverInv

-----------------------------------------------------------------------------
(* The steps.                                                              *)

LEMMA RunsIndexOK == RunsInv => IndexOK
BY DatabasesAssumption DEF RunsInv, IndexOK

\* The index and the command line stay the same, and what is computed of them.
Same == db' = db /\ options' = options

LEMMA SameRows ==
    ASSUME Same, NEW r
    PROVE  Selected(r)' = Selected(r) /\ \A key : Rows(r, key)' = Rows(r, key)
<1>1. Selected(r)' = Selected(r)
  BY DEF Same, Selected, Redundant, Requested
<1>2. ASSUME NEW key PROVE Rows(r, key)' = Rows(r, key)
  BY DEF Same, Rows, ProjectRows, FileRows, SymbolRows
<1> QED
  BY <1>1, <1>2

LEMMA SameSectionOK ==
    ASSUME Same, NEW s, SectionOK(s)
    PROVE  SectionOK(s)'
BY SameRows DEF SectionOK, Same

\* A new section is a good one, and no old one is lost.
LEMMA SectionStep ==
    ASSUME SectionsOK, Same, NEW new, sections' = Append(sections, new), SectionOK(new)
    PROVE  /\ SectionsOK'
           /\ \A r, key : HasSection(r, key) => HasSection(r, key)'
           /\ HasSection(new.run, new.key)'
           /\ \A i \in DOMAIN sections' :
                 \/ i \in DOMAIN sections /\ sections'[i] = sections[i]
                 \/ sections'[i] = new
<1>1. PICK S : sections \in Seq(S) /\ \A s \in S : SectionOK(s)
  BY DEF SectionsOK
<1>2. sections \in Seq(S \cup {new})
  BY <1>1, SeqMonotonic
<1>3. /\ DOMAIN sections = 1..Len(sections) /\ Len(sections) \in Nat
      /\ sections' \in Seq(S \cup {new}) /\ Len(sections') = Len(sections) + 1
      /\ \A i \in 1..Len(sections) : sections'[i] = sections[i]
      /\ sections'[Len(sections) + 1] = new
  BY <1>2, LenProperties, AppendProperties
<1>4. DOMAIN sections' = 1..(Len(sections) + 1)
  BY <1>3, LenProperties
<1>5. \A s \in S \cup {new} : SectionOK(s)'
  BY <1>1, SameSectionOK
<1>6. SectionsOK'
  BY <1>3, <1>5 DEF SectionsOK
<1>7. \A r, key : HasSection(r, key) => HasSection(r, key)'
  BY <1>3, <1>4 DEF HasSection, SectionsOf
<1>8. HasSection(new.run, new.key)'
  BY <1>3, <1>4 DEF HasSection, SectionsOf
<1> QED
  BY <1>3, <1>4, <1>6, <1>7, <1>8

LEMMA SectionsStay ==
    ASSUME SectionsOK, Same, sections' = sections
    PROVE  SectionsOK' /\ \A r, key : HasSection(r, key) => HasSection(r, key)'
<1>1. SectionsOK'
  BY SameSectionOK DEF SectionsOK
<1> QED
  BY <1>1 DEF HasSection, SectionsOf

\* The run of a section is none but a run of checks.
LEMMA SectionsAreOfRuns ==
    ASSUME SectionsOK, NEW i \in DOMAIN sections
    PROVE  SectionOK(sections[i])
BY LenProperties DEF SectionsOK

\* What a check returns and what is printed of it.
LEMMA PrintedRows ==
    ASSUME NEW all, IsFiniteSet(all), NEW cap \in Nat,
           NEW raw \in Returned(all, AsksFor(cap)), NEW rows \in PrintedOf(raw, cap)
    PROVE  /\ Cardinality(rows) \in Nat /\ Cardinality(rows) <= cap
           /\ rows \subseteq all
           /\ Cardinality(raw) > cap \/ rows = all
<1>1. raw \subseteq all
  BY DEF Returned, kSubset
<1>2. IsFiniteSet(raw) /\ Cardinality(raw) \in Nat
  BY <1>1, FS_Subset, FS_CardinalityType
<1>3. rows \subseteq raw /\ ((Cardinality(raw) <= cap /\ rows = raw) \/ Cardinality(rows) = cap)
  BY DEF PrintedOf, Returned, kSubset
<1>4. IsFiniteSet(rows) /\ Cardinality(rows) \in Nat
  BY <1>2, <1>3, FS_Subset, FS_CardinalityType
<1>5. raw = all \/ Cardinality(raw) = cap + 1
  BY DEF Returned, AsksFor, kSubset
<1>6. Cardinality(raw) > cap \/ rows = all
  BY <1>2, <1>3, <1>5 DEF PrintedOf, Returned
<1> QED
  BY <1>1, <1>3, <1>4, <1>6

\* A run is covered as long as none of its sections, notes or checks to come
\* is lost.
LEMMA CoverStays ==
    ASSUME Same, NEW r, Covered(r),
           \A key : HasSection(r, key) => HasSection(r, key)',
           \A key : run = r /\ key \in todo =>
              (run' = r /\ key \in todo') \/ NoteIn(r)' \/ HasSection(r, key)'
    PROVE  Covered(r)'
<1>1. NoteIn(r) => NoteIn(r)'
  BY DEF NoteIn, HasSection
<1>2. Selected(r)' = Selected(r)
  BY SameRows
<1> QED
  BY <1>1, <1>2 DEF Covered

LEMMA InitInv == AnalyzeInit => AnalyzeInv
<1> SUFFICES ASSUME AnalyzeInit PROVE AnalyzeInv
  OBVIOUS
<1>1. \A r \in plan : r.kind \in Kinds
  <2>1. plan = Plan /\ options.target.kind \in {"project", "dir", "file", "symbol"}
    BY OptionsAssumption DEF AnalyzeInit
  <2> QED
    BY <2>1 DEF Plan, ProjectRun, FileRun, SymbolRun, Kinds
<1>2. sections = <<>> /\ run = NoRun
  BY DEF AnalyzeInit
<1>3. SectionsOK
  <2>1. sections \in Seq({}) /\ \A s \in {} : SectionOK(s)
    BY <1>2, EmptySeq
  <2> QED
    BY <2>1 DEF SectionsOK
<1>4. CoverInv
  BY <1>2 DEF CoverInv
<1>5. RunsInv
  BY <1>1, OptionsAssumption DEF RunsInv, AnalyzeInit
<1> QED
  BY <1>3, <1>4, <1>5 DEF AnalyzeInv

LEMMA StartRunStep == AnalyzeInv /\ StartRun => AnalyzeInv'
<1> SUFFICES ASSUME AnalyzeInv, StartRun PROVE AnalyzeInv'
  OBVIOUS
<1> USE DEF AnalyzeInv
<1>1. Same /\ sections' = sections /\ run = NoRun
  BY DEF StartRun, Same
<1>2. SectionsOK' /\ \A r, key : HasSection(r, key) => HasSection(r, key)'
  BY <1>1, SectionsStay
<1>3. \A i \in DOMAIN sections : sections[i].run # NoRun
  BY SectionsAreOfRuns DEF SectionOK, Kinds, NoRun
<1>4. ASSUME NEW i \in DOMAIN sections PROVE Covered(sections[i].run)'
  <2>1. PICK r : r = sections[i].run
    OBVIOUS
  <2>2. Covered(r) /\ r # NoRun
    BY <1>3, <2>1 DEF CoverInv
  <2>3. Covered(r)'
    BY <1>1, <1>2, <2>2, CoverStays
  <2> QED
    BY <1>1, <2>1, <2>3
<1>5. CASE budget <= 0
  <2>1. plan' = {} /\ run' = run /\ todo' = todo
    BY <1>5 DEF StartRun
  <2> QED
    BY <1>1, <1>2, <1>4, <2>1 DEF RunsInv, CoverInv, Same, StartRun
<1>6. CASE ~(budget <= 0)
  <2>1. PICK r \in plan : run' = r /\ todo' = Selected(r) /\ plan' = plan \ {r}
    BY <1>6 DEF StartRun
  <2>2. r.kind \in Kinds /\ Selected(r)' = Selected(r)
    BY <1>1, <2>1, SameRows DEF RunsInv
  <2>3. Covered(r)'
    BY <2>1, <2>2 DEF Covered
  <2>4. RunsInv'
    <3>1. todo' \subseteq Selected(run)'
      BY <2>1, <2>2
    <3> QED
      BY <2>1, <2>2, <3>1 DEF RunsInv, StartRun
  <2> QED
    BY <1>1, <1>2, <1>4, <2>1, <2>3, <2>4 DEF CoverInv
<1> QED
  BY <1>5, <1>6

LEMMA RunCheckStep == AnalyzeInv /\ RunCheck => AnalyzeInv'
<1> SUFFICES ASSUME AnalyzeInv, RunCheck PROVE AnalyzeInv'
  OBVIOUS
<1> USE DEF AnalyzeInv
<1>1. PICK key, raw, rows :
          /\ key \in todo
          /\ raw \in Returned(Rows(run, key), AsksFor(RowCap))
          /\ rows \in PrintedOf(raw, RowCap)
          /\ sections' = Append(sections,
                 [run |-> run, key |-> key, rows |-> rows,
                  truncated |-> Cardinality(raw) > RowCap])
          /\ budget'  = budget - Cardinality(rows)
          /\ printed' = printed + Cardinality(rows)
          /\ todo' = todo \ {key}
  BY DEF RunCheck
<1>2. /\ Same /\ run' = run /\ plan' = plan
      /\ run # NoRun /\ run.kind \in Kinds /\ key \in ChecksOf(run)
  BY <1>1 DEF RunCheck, Same, RunsInv, Selected, Requested
<1>3. /\ RowCap \in Nat /\ RowCap <= budget
      /\ options.perCheckLimit > 0 => RowCap <= options.perCheckLimit
  BY OptionsAssumption DEF RowCap, RunsInv
<1>4. IsFiniteSet(Rows(run, key))
  BY <1>2, RowsFinite, RunsIndexOK
<1>5. /\ Cardinality(rows) \in Nat /\ Cardinality(rows) <= RowCap
      /\ rows \subseteq Rows(run, key)
      /\ Cardinality(raw) > RowCap \/ rows = Rows(run, key)
  BY <1>1, <1>3, <1>4, PrintedRows
<1>6. PICK new : /\ new.run = run /\ new.key = key /\ new.rows = rows
                 /\ Cardinality(raw) > RowCap => new.truncated
                 /\ sections' = Append(sections, new)
  <2> DEFINE s == [run |-> run, key |-> key, rows |-> rows,
                   truncated |-> Cardinality(raw) > RowCap]
  <2>1. /\ s.run = run /\ s.key = key /\ s.rows = rows
        /\ Cardinality(raw) > RowCap => s.truncated
        /\ sections' = Append(sections, s)
    BY <1>1
  <2> HIDE DEF s
  <2> QED
    BY <2>1
<1>7. options.perCheckLimit \in Int
  BY OptionsAssumption DEF RunsInv
<1>8. SectionOK(new)
  <2>1. options.perCheckLimit > 0 => Cardinality(new.rows) <= options.perCheckLimit
    BY <1>3, <1>5, <1>6, <1>7
  <2>2. new.truncated \/ new.rows = Rows(new.run, new.key)
    BY <1>5, <1>6
  <2> QED
    BY <1>2, <1>5, <1>6, <2>1, <2>2 DEF SectionOK
<1>9. /\ SectionsOK'
      /\ \A r, k : HasSection(r, k) => HasSection(r, k)'
      /\ HasSection(new.run, new.key)'
      /\ \A i \in DOMAIN sections' :
            (i \in DOMAIN sections /\ sections'[i] = sections[i]) \/ sections'[i] = new
  BY <1>2, <1>6, <1>8, SectionStep
<1>10. ASSUME NEW r, Covered(r) PROVE Covered(r)'
  BY <1>1, <1>2, <1>9, <1>10, CoverStays
<1>11. CoverInv'
  <2>1. \A i \in DOMAIN sections' : Covered(sections[i].run)'
    <3>1. SUFFICES ASSUME NEW i \in DOMAIN sections' PROVE Covered(sections[i].run)'
      OBVIOUS
    <3>2. PICK r : r = sections'[i].run
      OBVIOUS
    <3>3. Covered(r)
      BY <1>2, <1>6, <1>9, <3>2 DEF CoverInv
    <3>4. Covered(r)'
      BY <1>10, <3>3
    <3> QED
      BY <3>2, <3>4
  <2>2. Covered(run)'
    <3>1. PICK r : r = run
      OBVIOUS
    <3>2. Covered(r)'
      BY <1>2, <1>10, <3>1 DEF CoverInv
    <3> QED
      BY <1>2, <3>1, <3>2
  <2> QED
    BY <2>1, <2>2 DEF CoverInv
<1>12. RunsInv'
  <2>1. budget' \in Nat /\ printed' \in Nat /\ printed' + budget' = options'.limit
    BY <1>1, <1>2, <1>3, <1>5, OptionsAssumption DEF RunsInv, Same
  <2>2. todo' \subseteq Selected(run)'
    <3>1. PICK r : r = run
      OBVIOUS
    <3>2. todo' \subseteq Selected(r) /\ Selected(r)' = Selected(r)
      BY <1>1, <1>2, <3>1, SameRows DEF RunsInv
    <3> QED
      BY <1>2, <3>1, <3>2
  <2> QED
    BY <1>2, <2>1, <2>2 DEF RunsInv, Same
<1> QED
  BY <1>9, <1>11, <1>12

LEMMA SkipRestStep == AnalyzeInv /\ SkipRest => AnalyzeInv'
<1> SUFFICES ASSUME AnalyzeInv, SkipRest PROVE AnalyzeInv'
  OBVIOUS
<1> USE DEF AnalyzeInv
<1>1. PICK note : /\ note.run = run /\ note.key = "note" /\ note.rows = {}
                  /\ note.truncated /\ sections' = Append(sections, note)
  <2> DEFINE new == [run |-> run, key |-> "note", rows |-> {}, truncated |-> TRUE]
  <2>1. /\ new.run = run /\ new.key = "note" /\ new.rows = {} /\ new.truncated
        /\ sections' = Append(sections, new)
    BY DEF SkipRest
  <2> HIDE DEF new
  <2> QED
    BY <2>1
<1>2. Same /\ run # NoRun /\ run' = NoRun /\ plan' = plan
  BY DEF SkipRest, Same
<1>3. SectionOK(note)
  <2>1. Cardinality(note.rows) = 0
    BY <1>1, FS_EmptySet
  <2>2. options.perCheckLimit > 0 => Cardinality(note.rows) <= options.perCheckLimit
    BY <2>1, OptionsAssumption DEF RunsInv
  <2> QED
    BY <1>1, <1>2, <2>2 DEF SectionOK, RunsInv
<1>4. /\ SectionsOK'
      /\ \A r, k : HasSection(r, k) => HasSection(r, k)'
      /\ HasSection(note.run, note.key)'
      /\ \A i \in DOMAIN sections' :
            (i \in DOMAIN sections /\ sections'[i] = sections[i]) \/ sections'[i] = note
  BY <1>1, <1>2, <1>3, SectionStep
<1>5. ASSUME NEW r, Covered(r) PROVE Covered(r)'
  <2>1. run = r => NoteIn(r)'
    BY <1>1, <1>4 DEF HasSection, NoteIn
  <2> QED
    BY <1>2, <1>4, <1>5, <2>1, CoverStays
<1>6. ASSUME NEW i \in DOMAIN sections' PROVE Covered(sections[i].run)'
  <2>1. PICK r : r = sections'[i].run
    OBVIOUS
  <2>2. Covered(r)
    BY <1>1, <1>2, <1>4, <2>1 DEF CoverInv
  <2>3. Covered(r)'
    BY <1>5, <2>2
  <2> QED
    BY <2>1, <2>3
<1>7. RunsInv'
  BY <1>2 DEF RunsInv, SkipRest
<1> QED
  BY <1>2, <1>4, <1>6, <1>7 DEF CoverInv

LEMMA EndRunStep == AnalyzeInv /\ EndRun => AnalyzeInv'
<1> SUFFICES ASSUME AnalyzeInv, EndRun PROVE AnalyzeInv'
  OBVIOUS
<1> USE DEF AnalyzeInv
<1>1. Same /\ sections' = sections /\ run' = NoRun /\ todo = {}
  BY DEF EndRun, Same
<1>2. SectionsOK' /\ \A r, key : HasSection(r, key) => HasSection(r, key)'
  BY <1>1, SectionsStay
<1>3. ASSUME NEW i \in DOMAIN sections PROVE Covered(sections[i].run)'
  <2>1. PICK r : r = sections[i].run
    OBVIOUS
  <2>2. Covered(r)
    BY <2>1 DEF CoverInv
  <2>3. Covered(r)'
    BY <1>1, <1>2, <2>2, CoverStays
  <2> QED
    BY <1>1, <2>1, <2>3
<1>4. RunsInv'
  BY <1>1 DEF RunsInv, EndRun
<1> QED
  BY <1>1, <1>2, <1>3, <1>4 DEF CoverInv

LEMMA AnalyzeStep == AnalyzeInv /\ [AnalyzeNext]_analyzeVars => AnalyzeInv'
<1> SUFFICES ASSUME AnalyzeInv, [AnalyzeNext]_analyzeVars PROVE AnalyzeInv'
  OBVIOUS
<1>1. CASE UNCHANGED analyzeVars
  <2>1. Same /\ sections' = sections /\ plan' = plan /\ run' = run /\ todo' = todo
        /\ budget' = budget /\ printed' = printed
    BY <1>1 DEF analyzeVars, Same
  <2>2. SectionsOK' /\ \A r, key : HasSection(r, key) => HasSection(r, key)'
    BY <2>1, SectionsStay DEF AnalyzeInv
  <2>3. ASSUME NEW r, Covered(r) PROVE Covered(r)'
    BY <2>1, <2>2, <2>3, CoverStays
  <2>4. ASSUME NEW i \in DOMAIN sections PROVE Covered(sections[i].run)'
    <3>1. PICK r : r = sections[i].run
      OBVIOUS
    <3>2. Covered(r)'
      BY <2>3, <3>1 DEF CoverInv, AnalyzeInv
    <3> QED
      BY <2>1, <3>1, <3>2
  <2>5. PICK r : r = run
    OBVIOUS
  <2>6. Selected(r)' = Selected(r) /\ (run # NoRun => Covered(r)')
    BY <2>1, <2>3, <2>5, SameRows DEF CoverInv, AnalyzeInv
  <2>7. CoverInv'
    BY <2>1, <2>4, <2>5, <2>6 DEF CoverInv
  <2>8. RunsInv'
    BY <2>1, <2>5, <2>6 DEF RunsInv, Same, AnalyzeInv
  <2> QED
    BY <2>2, <2>7, <2>8 DEF AnalyzeInv
<1> QED
  BY <1>1, StartRunStep, RunCheckStep, SkipRestStep, EndRunStep DEF AnalyzeNext

\* runAnalyze at every moment: what is printed and what is left of the budget make
\* up the limit, each section has the rows of its check or is marked as cut, and
\* each check of a run is to come, printed, or left out with a note.
THEOREM AnalyzeInvHolds == AnalyzeSpec => []AnalyzeInv
BY InitInv, AnalyzeStep, PTL DEF AnalyzeSpec

-----------------------------------------------------------------------------
(* What the invariant says of the output.                                  *)

LEMMA BudgetFromInv == AnalyzeInv => RowsWithinLimit
BY SectionsAreOfRuns DEF AnalyzeInv, RunsInv, RowsWithinLimit, SectionOK

LEMMA CutsFromInv == AnalyzeInv => EveryCutIsTold
<1> SUFFICES ASSUME AnalyzeInv, NEW i \in DOMAIN sections, NEW r, r = sections[i].run,
                    Ended(r), NEW key \in Selected(r), ~NoteIn(r)
             PROVE  \E j \in SectionsOf(r) :
                       /\ sections[j].key = key
                       /\ sections[j].truncated \/ sections[j].rows = Rows(r, key)
  BY DEF EveryCutIsTold
<1>1. run # r /\ Covered(r)
  BY DEF Ended, AnalyzeInv, CoverInv
<1>2. PICK j \in SectionsOf(r) : sections[j].key = key
  BY <1>1 DEF Covered, HasSection
<1>3. sections[j].key # "note"
  BY <1>2 DEF NoteIn
<1>4. SectionOK(sections[j]) /\ sections[j].run = r
  BY SectionsAreOfRuns DEF AnalyzeInv, SectionsOf
<1> QED
  BY <1>2, <1>3, <1>4 DEF SectionOK

\* A symbol that is not used anywhere is not used in its file either.
LEMMA CoversUnreferenced ==
    /\ \A o : Unreferenced(db, o) \subseteq DeadExports(db, o)
    /\ \A doc : UnreferencedInFile(db, doc) \subseteq DeadInFile(db, doc)
BY DEF Unreferenced, DeadExports, UnreferencedInFile, DeadInFile, ReferredTo

LEMMA RedundancyFromInv == AnalyzeInv => NothingLostToRedundancy
<1> SUFFICES ASSUME AnalyzeInv, NEW i \in DOMAIN sections, NEW r, r = sections[i].run,
                    Ended(r), NEW key \in Requested(r), Redundant(r, key), ~NoteIn(r),
                    ~\E j \in SectionsOf(r) : /\ sections[j].key \in RedundantIfCovered[key]
                                              /\ sections[j].truncated
             PROVE  Rows(r, key) \subseteq UNION {sections[j].rows :
                       j \in {k \in SectionsOf(r) :
                                 sections[k].key \in RedundantIfCovered[key]}}
  BY DEF NothingLostToRedundancy
<1>1. /\ key = "unreferenced"
      /\ RedundantIfCovered[key] = {"dead_exports", "dead_in_file"}
  BY DEF Redundant, RedundantIfCovered
<1>2. PICK cover \in {"dead_exports", "dead_in_file"} : cover \in Requested(r)
  BY <1>1 DEF Redundant
<1>3. cover \in Selected(r) /\ cover # "note"
  BY <1>2 DEF Selected, Redundant, RedundantIfCovered
<1>4. run # r /\ Covered(r)
  BY DEF Ended, AnalyzeInv, CoverInv
<1>5. ASSUME NEW j \in SectionsOf(r)
      PROVE  SectionOK(sections[j]) /\ sections[j].run = r
  BY SectionsAreOfRuns DEF AnalyzeInv, SectionsOf
<1>6. PICK j \in SectionsOf(r) : sections[j].key = cover
  BY <1>3, <1>4 DEF Covered, HasSection
<1>7. sections[j].rows = Rows(r, cover)
  BY <1>1, <1>3, <1>5, <1>6 DEF SectionOK
<1>8. r.kind \in Kinds /\ cover \in ChecksOf(r)
  BY <1>2, <1>5, <1>6 DEF SectionOK, Requested
<1>9. Rows(r, key) \subseteq Rows(r, cover)
  <2>1. CASE r.kind = "project"
    <3>1. cover = "dead_exports"
      BY <1>8, <2>1 DEF ChecksOf
    <3> QED
      BY <1>1, <2>1, <3>1, CoversUnreferenced DEF Rows, ProjectRows
  <2>2. CASE r.kind = "file"
    <3>1. cover = "dead_in_file"
      BY <1>8, <2>2 DEF ChecksOf
    <3> QED
      BY <1>1, <2>2, <3>1, CoversUnreferenced DEF Rows, FileRows
  <2>3. CASE r.kind = "symbol"
    BY <1>8, <2>3 DEF ChecksOf
  <2> QED
    BY <1>8, <2>1, <2>2, <2>3 DEF Kinds
<1> QED
  BY <1>1, <1>6, <1>7, <1>9

LEMMA DeadFileHasNoImporter ==
    ASSUME NEW o, NEW d \in DeadFiles(db, o)
    PROVE  ImporterPaths(db, FileSymbols(db, d), d) = {}
BY DEF DeadFiles, ImporterPaths, UsedOutside

LEMMA DeadExportHasNoUse ==
    ASSUME NEW o, NEW x \in DeadExports(db, o)
    PROVE  ~\E m \in Uses(db) : m.sym = x[1]
BY DEF DeadExports, NotDeadExport, InFileUse, UsedInside, UsedOutside

LEMMA DeadInFileHasNoReference ==
    ASSUME NEW doc, NEW x \in DeadInFile(db, doc), NEW m \in Uses(db), m.sym = x[1]
    PROVE  m.doc = x[2] /\ m.role # 0
BY DEF DeadInFile, DefsOf, UsedOutside, ReferredTo, Uses

\* What the checks for dead symbols find is not referred to in its file nor used
\* outside it; what those find that list symbols for their uses, is.
LEMMA RowsOfDead ==
    ASSUME NEW r, r.kind \in Kinds, NEW key \in ChecksOf(r), NEW x \in Rows(r, key)
    PROVE  /\ key \in {"dead_exports", "dead_in_file"}
                 => ~ReferredTo(db, x[1], x[2]) /\ ~UsedOutside(db, x[1], x[2])
           /\ key \in ListedForUses
                 => ReferredTo(db, x[1], x[2]) \/ UsedOutside(db, x[1], x[2])
<1> USE DEF ListedForUses
<1>1. CASE r.kind = "project"
  <2>1. key # "dead_in_file"
    BY <1>1 DEF ChecksOf
  <2>2. key = "test_only" => UsedOutside(db, x[1], x[2])
    BY <1>1 DEF Rows, ProjectRows, TestOnly, ImporterPaths, UsedOutside
  <2> QED
    BY <1>1, <2>1, <2>2 DEF Rows, ProjectRows, DeadExports, NotDeadExport, InFileUse,
                            SameFileOnly, Bottlenecks
<1>2. CASE r.kind = "file"
  <2>1. key \notin {"dead_exports", "test_only", "bottlenecks"}
    BY <1>2 DEF ChecksOf
  <2> QED
    BY <1>2, <2>1 DEF Rows, FileRows, DeadInFile, SameFileOnlyInFile, DefsOf
<1>3. CASE r.kind = "symbol"
  BY <1>3 DEF ChecksOf
<1> QED
  BY <1>1, <1>2, <1>3 DEF Kinds

LEMMA DeadFromInv == AnalyzeInv => DeadIsDead
<1> SUFFICES ASSUME AnalyzeInv, NEW i \in DOMAIN sections, NEW s, s = sections[i]
             PROVE  /\ s.key = "dead_files" =>
                          \A d \in s.rows : ImporterPaths(db, FileSymbols(db, d), d) = {}
                    /\ s.key = "dead_exports" =>
                          \A x \in s.rows : ~\E m \in Uses(db) : m.sym = x[1]
                    /\ s.key = "dead_in_file" =>
                          \A x \in s.rows : \A m \in Uses(db) :
                             m.sym = x[1] => m.doc = x[2] /\ m.role # 0
                    /\ s.key \in {"dead_exports", "dead_in_file"} =>
                          \A j \in DOMAIN sections : sections[j].key \in ListedForUses =>
                             s.rows \cap sections[j].rows = {}
  BY DEF DeadIsDead
<1>1. \A j \in DOMAIN sections :
         sections[j].key # "note" => /\ sections[j].run.kind \in Kinds
                                    /\ sections[j].key \in ChecksOf(sections[j].run)
                                    /\ sections[j].rows
                                          \subseteq Rows(sections[j].run, sections[j].key)
  BY SectionsAreOfRuns DEF AnalyzeInv, SectionOK
<1>2. PICK r : r = s.run
  OBVIOUS
<1>3. s.key # "note" => /\ r.kind \in Kinds /\ s.key \in ChecksOf(r)
                        /\ s.rows \subseteq Rows(r, s.key)
  BY <1>1, <1>2
<1>4. CASE s.key = "dead_files"
  <2>1. r.kind = "project"
    BY <1>3, <1>4 DEF ChecksOf, Kinds
  <2>2. s.rows \subseteq DeadFiles(db, [scope |-> r.scope, tests |-> r.tests])
    BY <1>3, <1>4, <2>1 DEF Rows, ProjectRows
  <2> QED
    BY <1>4, <2>2, DeadFileHasNoImporter
<1>5. s.key = "dead_exports" => \A x \in s.rows : ~\E m \in Uses(db) : m.sym = x[1]
  <2>1. SUFFICES ASSUME s.key = "dead_exports"
                 PROVE  \A x \in s.rows : ~\E m \in Uses(db) : m.sym = x[1]
    OBVIOUS
  <2>2. r.kind = "project"
    BY <1>3, <2>1 DEF ChecksOf, Kinds
  <2>3. s.rows \subseteq DeadExports(db, [scope |-> r.scope, tests |-> r.tests])
    BY <1>3, <2>1, <2>2 DEF Rows, ProjectRows
  <2> QED
    BY <2>3, DeadExportHasNoUse
<1>6. ASSUME s.key \in {"dead_exports", "dead_in_file"},
             NEW j \in DOMAIN sections, sections[j].key \in ListedForUses
      PROVE  s.rows \cap sections[j].rows = {}
  <2>1. \A x \in s.rows : ~ReferredTo(db, x[1], x[2]) /\ ~UsedOutside(db, x[1], x[2])
    BY <1>3, <1>6, RowsOfDead
  <2>2. \A x \in sections[j].rows : \/ ReferredTo(db, x[1], x[2])
                                     \/ UsedOutside(db, x[1], x[2])
    <3>1. PICK t, key : t = sections[j].run /\ key = sections[j].key
      OBVIOUS
    <3>2. /\ t.kind \in Kinds /\ key \in ChecksOf(t) /\ key \in ListedForUses
          /\ sections[j].rows \subseteq Rows(t, key)
      BY <1>1, <1>6, <3>1 DEF ListedForUses
    <3> QED
      BY <3>2, RowsOfDead
  <2> QED
    BY <2>1, <2>2
<1>7. s.key = "dead_in_file" =>
         \A x \in s.rows : \A m \in Uses(db) : m.sym = x[1] => m.doc = x[2] /\ m.role # 0
  <2>1. SUFFICES ASSUME s.key = "dead_in_file"
                 PROVE  \A x \in s.rows : \A m \in Uses(db) :
                           m.sym = x[1] => m.doc = x[2] /\ m.role # 0
    OBVIOUS
  <2>2. r.kind = "file"
    BY <1>3, <2>1 DEF ChecksOf, Kinds
  <2>3. s.rows \subseteq DeadInFile(db, r.doc)
    BY <1>3, <2>1, <2>2 DEF Rows, FileRows
  <2> QED
    BY <2>3, DeadInFileHasNoReference
<1> QED
  BY <1>4, <1>5, <1>6, <1>7

-----------------------------------------------------------------------------

\* All sections together never have more rows than --limit, and none more than
\* --per-check-limit.
THEOREM LimitHolds == AnalyzeSpec => []RowsWithinLimit
BY AnalyzeInvHolds, BudgetFromInv, PTL

\* When a run has ended, each of its checks printed all that it found, or the
\* output says that it was cut or left out.
THEOREM CutsTold == AnalyzeSpec => []EveryCutIsTold
BY AnalyzeInvHolds, CutsFromInv, PTL

\* What "unreferenced" would have printed, had it not been left out, is printed
\* by the checks that cover it, unless the output says that they were cut or
\* left out.
THEOREM RedundancyLosesNothing == AnalyzeSpec => []NothingLostToRedundancy
BY AnalyzeInvHolds, RedundancyFromInv, PTL

\* A dead file has no importer, a dead export of the project no use, one in file
\* none but imports and the like in its own file, and no symbol is called dead
\* in one section and listed for its uses in another.
THEOREM DeadHasNoUser == AnalyzeSpec => []DeadIsDead
BY AnalyzeInvHolds, DeadFromInv, PTL

-----------------------------------------------------------------------------
(* RowCollector, for every query, filter, limit, page size and bound.  The *)
(* rows kept are at every moment the accepted ones among the rows looked   *)
(* at, and those are the first rows of the query, because a page begins    *)
(* where the page before it ended.                                         *)

\* The accepted rows among the first n, up to the bound.
Kept(n) == {r \in request.accepted : r <= n /\ r <= MaxScanned}

Collecting ==
    /\ request \in Requests
    /\ step \in {"fetch", "scan", "done"}
    /\ offset \in Nat /\ pageLen \in Nat /\ inPage \in Nat
    /\ scanned \in Nat /\ count \in Nat

\* Where the loop is: before a page, or in one, or at the end.
InThePages ==
    /\ step = "fetch" => scanned = offset
    /\ step = "scan"  => /\ scanned = offset + inPage /\ inPage <= pageLen
                         /\ pageLen = RowsAt(offset)
                         /\ count < request.limit
    /\ step # "done"  => scanned <= MaxScanned
    /\ step = "done" /\ count < request.limit
                      => scanned >= MaxScanned \/ scanned >= request.rows

KeptSoFar ==
    /\ taken = Kept(scanned)
    /\ IsFiniteSet(taken) /\ count = Cardinality(taken)
    /\ count <= request.limit

CollectInv == Collecting /\ InThePages /\ KeptSoFar

-----------------------------------------------------------------------------
(* The arguments of a call.                                                *)

\* What the assumption says of one request, its page size and its bound.
LEMMA RequestFacts ==
    ASSUME request \in Requests
    PROVE  /\ request.rows \in Nat /\ request.limit \in Nat
           /\ request.accepted \subseteq 1..request.rows
           /\ PageSize \in Nat /\ PageSize > 0 /\ MaxScanned \in Nat
<1>1. /\ request \in [rows : Nat, accepted : SUBSET Nat, limit : Nat,
                      pageSize : Nat, maxScan : Nat]
      /\ request.accepted \subseteq 1..request.rows
  BY RequestsAssumption
<1> QED
  BY <1>1, RequestsAssumption DEF PageSize, MaxScanned

\* A page has rows only before the end of the query, and one that is not full
\* ends there.
LEMMA PageFacts ==
    ASSUME request \in Requests, NEW n \in Nat
    PROVE  /\ RowsAt(n) \in Nat
           /\ RowsAt(n) = 0 => n >= request.rows
           /\ RowsAt(n) < PageSize => n + RowsAt(n) >= request.rows
  BY RequestFacts DEF RowsAt

-----------------------------------------------------------------------------
(* The steps.                                                              *)

LEMMA CollectInitInv == CollectInit => CollectInv
<1> SUFFICES ASSUME CollectInit PROVE CollectInv
  OBVIOUS
<1>1. request \in Requests
  BY DEF CollectInit
<1>2. Collecting /\ InThePages
  BY <1>1, RequestFacts DEF CollectInit, Collecting, InThePages
<1>3. taken = Kept(scanned)
  BY <1>1, RequestFacts DEF CollectInit, Kept
<1>4. IsFiniteSet(taken) /\ Cardinality(taken) = 0
  BY FS_EmptySet DEF CollectInit
<1> QED
  BY <1>1, <1>2, <1>3, <1>4, RequestFacts DEF CollectInv, KeptSoFar, CollectInit

LEMMA FetchPageInv == CollectInv /\ FetchPage => CollectInv'
<1> SUFFICES ASSUME CollectInv, FetchPage PROVE CollectInv'
  OBVIOUS
<1>1. request \in Requests /\ offset \in Nat
  BY DEF CollectInv, Collecting
<1>2. PageSize' = PageSize /\ MaxScanned' = MaxScanned /\ RowsAt(offset)' = RowsAt(offset)
  BY DEF FetchPage, PageSize, MaxScanned, RowsAt
<1>3. Collecting'
  BY <1>1, PageFacts DEF CollectInv, Collecting, FetchPage
<1>4. InThePages'
  <2>1. CASE count >= request.limit \/ RowsAt(offset) = 0
    BY <1>1, <1>2, <2>1, PageFacts, RequestFacts
       DEF CollectInv, Collecting, InThePages, FetchPage
  <2>2. CASE ~(count >= request.limit \/ RowsAt(offset) = 0)
    BY <1>1, <1>2, <2>2, PageFacts, RequestFacts
       DEF CollectInv, Collecting, InThePages, FetchPage
  <2> QED
    BY <2>1, <2>2
<1>5. KeptSoFar'
  BY <1>2 DEF CollectInv, KeptSoFar, Kept, FetchPage
<1> QED
  BY <1>3, <1>4, <1>5 DEF CollectInv

LEMMA LookAtRowInv == CollectInv /\ LookAtRow => CollectInv'
<1> SUFFICES ASSUME CollectInv, LookAtRow PROVE CollectInv'
  OBVIOUS
<1>1. request \in Requests /\ request' = request
  BY DEF CollectInv, Collecting, LookAtRow
<1>2. PageSize' = PageSize /\ MaxScanned' = MaxScanned
      /\ RowsAt(offset)' = RowsAt(offset)
  BY DEF LookAtRow, PageSize, MaxScanned, RowsAt
<1>3. offset + inPage' = scanned'
  BY DEF CollectInv, Collecting, InThePages, LookAtRow
<1>4. Kept(scanned)' = IF Accept THEN Kept(scanned) \cup {scanned'} ELSE Kept(scanned)
  BY <1>1, <1>2, <1>3, RequestFacts
     DEF CollectInv, Collecting, LookAtRow, Kept, Accept
<1>5. scanned' \notin taken
  BY DEF CollectInv, Collecting, KeptSoFar, Kept, LookAtRow
<1>6. taken' = Kept(scanned)' /\ IsFiniteSet(taken') /\ count' = Cardinality(taken')
  <2>1. CASE Accept
    <3>1. taken' = taken \cup {scanned'} /\ count' = count + 1
      BY <1>3, <2>1 DEF LookAtRow
    <3>2. IsFiniteSet(taken) /\ count = Cardinality(taken)
      BY DEF CollectInv, KeptSoFar
    <3>3. IsFiniteSet(taken') /\ Cardinality(taken') = Cardinality(taken) + 1
      BY <1>5, <3>1, <3>2, FS_AddElement
    <3> QED
      BY <1>4, <2>1, <3>1, <3>2, <3>3 DEF CollectInv, KeptSoFar
  <2>2. CASE ~Accept
    BY <1>4, <2>2 DEF CollectInv, KeptSoFar, LookAtRow
  <2> QED
    BY <2>1, <2>2
<1>7. Collecting' /\ count' <= request.limit
  BY <1>1, RequestFacts DEF CollectInv, Collecting, InThePages, LookAtRow
<1>8. InThePages'
  BY <1>1, <1>2, <1>3, RequestFacts
     DEF CollectInv, Collecting, InThePages, LookAtRow
<1> QED
  BY <1>1, <1>6, <1>7, <1>8 DEF CollectInv, KeptSoFar

LEMMA EndPageInv == CollectInv /\ EndPage => CollectInv'
<1> SUFFICES ASSUME CollectInv, EndPage PROVE CollectInv'
  OBVIOUS
<1>1. request \in Requests /\ offset \in Nat /\ pageLen \in Nat
  BY DEF CollectInv, Collecting
<1>2. PageSize' = PageSize /\ MaxScanned' = MaxScanned
  BY DEF EndPage, PageSize, MaxScanned
<1>3. pageLen = RowsAt(offset) /\ scanned = offset + pageLen
  BY DEF CollectInv, InThePages, EndPage
<1>4. Collecting'
  BY <1>1 DEF CollectInv, Collecting, EndPage, NextOffset
<1>5. InThePages'
  <2>1. CASE pageLen < PageSize
    BY <1>1, <1>2, <1>3, <2>1, PageFacts, RequestFacts
       DEF CollectInv, Collecting, InThePages, EndPage
  <2>2. CASE ~(pageLen < PageSize)
    BY <1>1, <1>2, <1>3, <2>2 DEF CollectInv, InThePages, EndPage, NextOffset
  <2> QED
    BY <2>1, <2>2
<1>6. KeptSoFar'
  BY <1>2 DEF CollectInv, KeptSoFar, Kept, EndPage
<1> QED
  BY <1>4, <1>5, <1>6 DEF CollectInv

LEMMA CollectStepInv == CollectInv /\ [CollectNext]_collectVars => CollectInv'
<1> SUFFICES ASSUME CollectInv, [CollectNext]_collectVars PROVE CollectInv'
  OBVIOUS
<1>1. CASE FetchPage
  BY <1>1, FetchPageInv
<1>2. CASE LookAtRow
  BY <1>2, LookAtRowInv
<1>3. CASE EndPage
  BY <1>3, EndPageInv
<1>4. CASE UNCHANGED collectVars
  BY <1>4 DEF collectVars, CollectInv, Collecting, InThePages, KeptSoFar, Kept,
              RowsAt, PageSize, MaxScanned
<1> QED
  BY <1>1, <1>2, <1>3, <1>4 DEF CollectNext

THEOREM CollectInvariant == CollectSpec => []CollectInv
  BY CollectInitInv, CollectStepInv, PTL DEF CollectSpec

-----------------------------------------------------------------------------

\* The places and the counts of the loop are numbers, and what it keeps are rows
\* that the filter accepts.
THEOREM CollectTypeCorrect == CollectSpec => []CollectTypeOK
<1>1. CollectInv => CollectTypeOK
  BY DEF CollectInv, Collecting, KeptSoFar, Kept, CollectTypeOK
<1> QED
  BY <1>1, CollectInvariant, PTL

LEMMA PagingFromInv == CollectInv => PagingIsInvisible
<1> SUFFICES ASSUME CollectInv PROVE PagingIsInvisible
  OBVIOUS
<1>1. /\ request.rows \in Nat /\ MaxScanned \in Nat /\ scanned \in Nat
      /\ request.accepted \subseteq 1..request.rows
  BY RequestFacts DEF CollectInv, Collecting
<1>2. taken = Kept(scanned) /\ count = Cardinality(taken) /\ count <= request.limit
  BY DEF CollectInv, KeptSoFar
<1>3. \A r \in taken : \A q \in request.accepted : q < r => q \in taken
  BY <1>1, <1>2 DEF Kept
<1>4. \A r \in taken : r <= MaxScanned
  BY <1>2 DEF Kept
<1>5. ASSUME step = "done", count < request.limit,
             NEW r \in request.accepted, r <= MaxScanned
      PROVE  r \in taken
  BY <1>1, <1>2, <1>5 DEF CollectInv, InThePages, Kept
<1> QED
  BY <1>2, <1>3, <1>4, <1>5 DEF PagingIsInvisible

\* Whatever the page size, a check gets the first rows that its filter accepts,
\* each once, as many as it asked for, or all there are within the bound.
THEOREM PagingCorrect == CollectSpec => []PagingIsInvisible
BY CollectInvariant, PagingFromInv, PTL

-----------------------------------------------------------------------------
(* The types of the sections.                                              *)

\* Between two runs no check is to come.
NothingLeft == run = NoRun => todo = {}

LEMMA NothingLeftStep ==
    ASSUME NothingLeft, [AnalyzeNext]_analyzeVars, AnalyzeInv
    PROVE  NothingLeft'
<1>1. CASE StartRun
  <2>1. CASE budget <= 0
    BY <1>1, <2>1 DEF StartRun, NothingLeft
  <2>2. CASE ~(budget <= 0)
    <3>1. PICK r \in plan : run' = r
      BY <1>1, <2>2 DEF StartRun
    <3>2. r # NoRun
      BY DEF AnalyzeInv, RunsInv, Kinds, NoRun
    <3> QED
      BY <3>1, <3>2 DEF NothingLeft, NoRun
  <2> QED
    BY <2>1, <2>2
<1>2. CASE RunCheck
  BY <1>2 DEF RunCheck, NothingLeft, NoRun
<1>3. CASE SkipRest \/ EndRun
  BY <1>3 DEF SkipRest, EndRun, NothingLeft
<1>4. CASE UNCHANGED analyzeVars
  BY <1>4 DEF analyzeVars, NothingLeft, NoRun
<1> QED
  BY <1>1, <1>2, <1>3, <1>4 DEF AnalyzeNext

LEMMA SetOfConcat ==
    ASSUME NEW T, NEW s \in Seq(T), NEW t \in Seq(T)
    PROVE  s \o t \in Seq(T) /\ ToSet(s \o t) = ToSet(s) \cup ToSet(t)
<1>1. /\ s \o t \in Seq(T) /\ Len(s) \in Nat /\ Len(t) \in Nat
      /\ Len(s \o t) = Len(s) + Len(t)
      /\ \A i \in 1..(Len(s) + Len(t)) :
            (s \o t)[i] = IF i <= Len(s) THEN s[i] ELSE t[i - Len(s)]
  BY ConcatProperties, LenProperties
<1>2. /\ ToSet(s) = {s[i] : i \in 1..Len(s)} /\ ToSet(t) = {t[i] : i \in 1..Len(t)}
      /\ ToSet(s \o t) = {(s \o t)[i] : i \in 1..(Len(s) + Len(t))}
  BY <1>1, SequenceSet
<1>3. \A i \in 1..Len(s) : i \in 1..(Len(s) + Len(t)) /\ (s \o t)[i] = s[i]
  BY <1>1
<1>4. \A i \in 1..Len(t) : /\ Len(s) + i \in 1..(Len(s) + Len(t))
                          /\ (s \o t)[Len(s) + i] = t[i]
  BY <1>1
<1>5. \A i \in 1..(Len(s) + Len(t)) :
         (s \o t)[i] \in {s[j] : j \in 1..Len(s)} \cup {t[j] : j \in 1..Len(t)}
  <2> TAKE i \in 1..(Len(s) + Len(t))
  <2>1. CASE i <= Len(s)
    BY <1>1, <2>1
  <2>2. CASE ~(i <= Len(s))
    <3>1. i - Len(s) \in 1..Len(t) /\ (s \o t)[i] = t[i - Len(s)]
      BY <1>1, <2>2
    <3> QED
      BY <3>1
  <2> QED
    BY <2>1, <2>2
<1> DEFINE A == {s[i] : i \in 1..Len(s)}
           B == {t[i] : i \in 1..Len(t)}
           C == {(s \o t)[i] : i \in 1..(Len(s) + Len(t))}
<1>6. A \subseteq C /\ B \subseteq C
  BY <1>3, <1>4
<1>7. C \subseteq A \cup B
  BY <1>5
<1>8. ToSet(s) = A /\ ToSet(t) = B /\ ToSet(s \o t) = C
  BY <1>2
<1> HIDE DEF A, B, C
<1> QED
  BY <1>1, <1>6, <1>7, <1>8

\* Every check has a place among the others.
LEMMA ChecksHavePlaces ==
    ASSUME NEW r, r.kind \in Kinds
    PROVE  ChecksOf(r) \subseteq ToSet(ChecksByOrder)
<1> DEFINE T == ToSet(HighChecks) \cup ToSet(MediumChecks) \cup ToSet(LowChecks)
           s == HighChecks \o MediumChecks
<1>1. ToSet(HighChecks) =
         {"consumer_files", "cycles", "dead_exports", "dead_files", "dead_in_file",
          "dependencies", "stale_types", "unreferenced", "unused_imports"}
  BY DEF HighChecks, ToSet
<1>2. ToSet(MediumChecks) = {"change_surface", "file_consumers", "same_file_only"}
  BY DEF MediumChecks, ToSet
<1>3. ToSet(LowChecks) =
         {"affected", "bottlenecks", "coupling", "def_context", "hotspots",
          "imports_summary", "symbol_pressure", "test_only", "top_coupling", "top_symbols"}
  BY DEF LowChecks, ToSet
<1>4. HighChecks \in Seq(T) /\ MediumChecks \in Seq(T) /\ LowChecks \in Seq(T)
  <2>1. HighChecks \in Seq(T)
    BY <1>1 DEF HighChecks
  <2>2. MediumChecks \in Seq(T)
    BY <1>2 DEF MediumChecks
  <2>3. LowChecks \in Seq(T)
    BY <1>3 DEF LowChecks
  <2> QED
    BY <2>1, <2>2, <2>3
<1>5. ToSet(ChecksByOrder) = T
  <2> DEFINE K == T
  <2>1. HighChecks \in Seq(K) /\ MediumChecks \in Seq(K) /\ LowChecks \in Seq(K)
    BY <1>4
  <2> HIDE DEF K
  <2>2. s \in Seq(K) /\ ToSet(s) = ToSet(HighChecks) \cup ToSet(MediumChecks)
    BY <2>1, SetOfConcat
  <2> HIDE DEF s
  <2>3. ToSet(s \o LowChecks) = ToSet(s) \cup ToSet(LowChecks)
    BY <2>1, <2>2, SetOfConcat
  <2> QED
    BY <2>2, <2>3 DEF s, ChecksByOrder
<1> QED
  BY <1>1, <1>2, <1>3, <1>5 DEF ChecksOf, Kinds

LEMMA AnalyzeTypeFromInv ==
    ASSUME AnalyzeInv, NothingLeft
    PROVE  AnalyzeTypeOK
<1>1. RunsInv /\ IndexOK
  BY RunsIndexOK DEF AnalyzeInv
<1>2. IsDatabase(db) /\ options \in Options /\ budget \in Int /\ printed \in Nat
  BY <1>1, DatabasesAssumption DEF RunsInv
<1>3. CASE run = NoRun
  BY <1>2, <1>3 DEF NothingLeft, AnalyzeTypeOK
<1>4. CASE run # NoRun
  <2>1. run.kind \in Kinds /\ todo \subseteq ChecksOf(run)
    BY <1>1, <1>4 DEF RunsInv, Selected, Requested
  <2> QED
    BY <1>2, <2>1, ChecksHavePlaces DEF Kinds, AnalyzeTypeOK
<1> QED
  BY <1>3, <1>4

\* The checks that are to come are some that RunChecks knows, and there are none
\* between two runs.
THEOREM AnalyzeTypeCorrect == AnalyzeSpec => []AnalyzeTypeOK
<1>1. AnalyzeInit => AnalyzeInv /\ NothingLeft
  BY InitInv DEF AnalyzeInit, NothingLeft
<1>2. AnalyzeInv /\ NothingLeft /\ [AnalyzeNext]_analyzeVars => AnalyzeInv' /\ NothingLeft'
  BY AnalyzeStep, NothingLeftStep
<1>3. AnalyzeInv /\ NothingLeft => AnalyzeTypeOK
  BY AnalyzeTypeFromInv
<1> QED
  BY <1>1, <1>2, <1>3, PTL DEF AnalyzeSpec

-----------------------------------------------------------------------------
(* All parts together.  A part that is idle stays so, since none of its    *)
(* actions begins in that state.                                           *)

CyclesGoOn  == CycleIdle \/ (CycleInv /\ CheckInv /\ CheckTyped)
PagesGoOn   == CollectIdle \/ CollectInv
ChecksGoOn  == AnalyzeInv /\ NothingLeft

LEMMA PartsInit ==
    ASSUME Init
    PROVE  CyclesGoOn /\ PagesGoOn /\ ChecksGoOn
<1>1. CycleInit => CyclesGoOn
  BY CycleInitCheck, CycleInitTyped DEF CycleInit, CycleInv, CyclesGoOn
<1>2. CollectInit => PagesGoOn
  BY CollectInitInv DEF PagesGoOn
<1>3. AnalyzeInit => ChecksGoOn
  BY InitInv DEF AnalyzeInit, NothingLeft, ChecksGoOn
<1>4. ASSUME AnalyzeIdle PROVE ChecksGoOn
  <2>1. db \in Databases /\ options \in Options
    BY <1>4, PartsAssumption DEF AnalyzeIdle
  <2>2. /\ plan = {} /\ run = NoRun /\ todo = {} /\ sections = <<>>
        /\ printed = 0 /\ budget = options.limit /\ budget \in Nat
    BY <1>4, <2>1, OptionsAssumption DEF AnalyzeIdle
  <2>3. SectionsOK
    <3>1. sections \in Seq({}) /\ \A s \in {} : SectionOK(s)
      BY <2>2, EmptySeq
    <3> QED
      BY <3>1 DEF SectionsOK
  <2>4. CoverInv
    BY <2>2 DEF CoverInv
  <2>5. RunsInv
    BY <2>1, <2>2 DEF RunsInv
  <2> QED
    BY <2>2, <2>3, <2>4, <2>5 DEF AnalyzeInv, NothingLeft, ChecksGoOn
<1> QED
  BY <1>1, <1>2, <1>3, <1>4 DEF Init, CyclesGoOn, PagesGoOn

LEMMA CyclesPartStep ==
    ASSUME CyclesGoOn, [CycleNext]_cycleVars
    PROVE  CyclesGoOn'
<1>1. CASE CycleInv /\ CheckInv /\ CheckTyped
  BY <1>1, CycleStep, CheckStep, TypeStep DEF CyclesGoOn
<1>2. CASE CycleIdle
  <2>1. phase = "idle"
    BY <1>2 DEF CycleIdle
  <2>2. ~CycleNext
    BY <2>1 DEF CycleNext, CollectPairs, Produce, AcceptCandidate, AskAgain, PickRoot,
                LookAtNeighbour, LeaveVertex, StartWalks, AllVisited, OpenComponent,
                NoMoreComponents, StartAtOrigin, Walk, CloseComponent
  <2>3. UNCHANGED cycleVars
    BY <2>2
  <2> QED
    BY <1>2, <2>3 DEF CyclesGoOn, CycleIdle, NoSearch, cycleVars, graphVars,
                      tarjanVars, walkVars, checkVars
<1> QED
  BY <1>1, <1>2 DEF CyclesGoOn

LEMMA PagesPartStep ==
    ASSUME PagesGoOn, [CollectNext]_collectVars
    PROVE  PagesGoOn'
<1>1. CASE CollectInv
  BY <1>1, CollectStepInv DEF PagesGoOn
<1>2. CASE CollectIdle
  BY <1>2 DEF PagesGoOn, CollectIdle, CollectNext, FetchPage, LookAtRow, EndPage,
              collectVars
<1> QED
  BY <1>1, <1>2 DEF PagesGoOn

LEMMA PartsStep ==
    ASSUME CyclesGoOn, PagesGoOn, ChecksGoOn,
           [Next]_<<cycleVars, collectVars, analyzeVars>>
    PROVE  CyclesGoOn' /\ PagesGoOn' /\ ChecksGoOn'
<1>1. [CycleNext]_cycleVars /\ [CollectNext]_collectVars /\ [AnalyzeNext]_analyzeVars
  BY DEF Next
<1> QED
  BY <1>1, CyclesPartStep, PagesPartStep, AnalyzeStep, NothingLeftStep DEF ChecksGoOn

LEMMA PartsTyped ==
    ASSUME CyclesGoOn, PagesGoOn, ChecksGoOn
    PROVE  AnalysisTypeOK
<1>1. ASSUME CycleIdle PROVE CycleTypeOK
  <2>1. /\ phase = "idle" /\ lowlink = <<>> /\ indices = <<>> /\ frames = <<>>
        /\ components = <<>> /\ pairs = <<>> /\ lines = <<>> /\ rowLimit = 0
    BY <1>1 DEF CycleIdle, NoSearch
  <2>2. /\ DOMAIN indices = {} /\ DOMAIN frames = {} /\ DOMAIN components = {}
        /\ ToSet(lines) = {} /\ Len(pairs) = 0 /\ Len(lines) = 0
        /\ lowlink \in [{} -> 0..Cardinality(Files)]
    BY <2>1, EmptySeq DEF ToSet
  <2> QED
    BY <2>1, <2>2 DEF CycleTypeOK, Visited
<1>2. CycleTypeOK
  BY <1>1, TypeFromInv DEF CyclesGoOn
<1>3. ASSUME CollectIdle PROVE CollectTypeOK
  <2>1. request \in Requests
    BY <1>3, PartsAssumption DEF CollectIdle
  <2> QED
    BY <1>3, <2>1 DEF CollectIdle, CollectTypeOK
<1>4. CollectTypeOK
  BY <1>3 DEF PagesGoOn, CollectInv, Collecting, KeptSoFar, Kept, CollectTypeOK
<1>5. AnalyzeTypeOK
  BY AnalyzeTypeFromInv DEF ChecksGoOn
<1> QED
  BY <1>2, <1>4, <1>5 DEF AnalysisTypeOK

LEMMA PartsCorrect ==
    ASSUME CyclesGoOn, PagesGoOn, ChecksGoOn
    PROVE  /\ ComponentsExact /\ CyclesOnce /\ CyclesComplete /\ PagingIsInvisible
           /\ RowsWithinLimit /\ EveryCutIsTold /\ NothingLostToRedundancy /\ DeadIsDead
<1>1. ASSUME CycleIdle PROVE ComponentsExact /\ CyclesOnce /\ CyclesComplete
  <2>1. phase = "idle" /\ lines = <<>>
    BY <1>1 DEF CycleIdle, NoSearch
  <2>2. ToSet(lines) = {} /\ Len(lines) = 0 /\ Cardinality({}) = 0
    BY <2>1, EmptySeq, FS_EmptySet DEF ToSet
  <2>3. {MinRotation(p) : p \in ToSet(lines)} = {}
    BY <2>2
  <2> QED
    BY <2>1, <2>2, <2>3 DEF ComponentsExact, AllVisited, CyclesOnce, CyclesComplete
<1>2. ComponentsExact /\ CyclesOnce /\ CyclesComplete
  BY <1>1, SearchedIsExact, PrintedOnce, AllPrinted DEF CyclesGoOn, ComponentsExact
<1>3. ASSUME CollectIdle PROVE PagingIsInvisible
  <2>1. request \in Requests /\ step = "idle" /\ taken = {} /\ count = 0
    BY <1>3, PartsAssumption DEF CollectIdle
  <2> QED
    BY <2>1, RequestFacts, FS_EmptySet DEF PagingIsInvisible
<1>4. PagingIsInvisible
  BY <1>3, PagingFromInv DEF PagesGoOn
<1> QED
  BY <1>2, <1>4, BudgetFromInv, CutsFromInv, RedundancyFromInv, DeadFromInv DEF ChecksGoOn

\* Whichever part of analyze is at work, the state of each has its type.
THEOREM AnalysisTypeCorrect == Spec => []AnalysisTypeOK
<1>1. Init => CyclesGoOn /\ PagesGoOn /\ ChecksGoOn
  BY PartsInit
<1>2. CyclesGoOn /\ PagesGoOn /\ ChecksGoOn /\ [Next]_<<cycleVars, collectVars, analyzeVars>>
         => CyclesGoOn' /\ PagesGoOn' /\ ChecksGoOn'
  BY PartsStep
<1>3. CyclesGoOn /\ PagesGoOn /\ ChecksGoOn => AnalysisTypeOK
  BY PartsTyped
<1> QED
  BY <1>1, <1>2, <1>3, PTL DEF Spec

\* Whichever part of analyze is at work, what the parts promise holds: cycles,
\* pages and sections do not disturb each other.
THEOREM AnalysisCorrect ==
    Spec => []( /\ ComponentsExact /\ CyclesOnce /\ CyclesComplete /\ PagingIsInvisible
                /\ RowsWithinLimit /\ EveryCutIsTold /\ NothingLostToRedundancy
                /\ DeadIsDead )
<1>1. Init => CyclesGoOn /\ PagesGoOn /\ ChecksGoOn
  BY PartsInit
<1>2. CyclesGoOn /\ PagesGoOn /\ ChecksGoOn /\ [Next]_<<cycleVars, collectVars, analyzeVars>>
         => CyclesGoOn' /\ PagesGoOn' /\ ChecksGoOn'
  BY PartsStep
<1>3. CyclesGoOn /\ PagesGoOn /\ ChecksGoOn =>
         /\ ComponentsExact /\ CyclesOnce /\ CyclesComplete /\ PagingIsInvisible
         /\ RowsWithinLimit /\ EveryCutIsTold /\ NothingLostToRedundancy /\ DeadIsDead
  BY PartsCorrect
<1> QED
  BY <1>1, <1>2, <1>3, PTL DEF Spec
=============================================================================
