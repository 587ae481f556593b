---------------------------- MODULE QueryCommands ----------------------------
(***************************************************************************)
(* The commands that read a finished index: search, refs, code, symbols,   *)
(* rdeps, deps and members.  A command resolves its arguments, asks for    *)
(* one row more than it may print, prints the others, and warns of the     *)
(* cut on another stream.                                                  *)
(***************************************************************************)
EXTENDS Resolve

CONSTANTS Databases,   \* the indexes
          Commands,    \* the command lines
          LabelOf,     \* the line and the name that search prints of a symbol
          Noisy,       \* modules, parameters and parts of type literals
          MembersOf,   \* the symbols whose names begin with that of a symbol
          DirectOf,    \* those of them that are its own members
          MinBatch,    \* rows of a batch of references, unless the limit is large
          MinScan,     \* rows search looks at, unless the limit is large
          ScanFactor,  \* and for each row it may print
          MembersCap   \* members that are read

NoFile == 0

\* A command line as main.go accepts it: --limit is at least 1.
IsCommand(c) ==
    /\ c.limit \in Nat \ {0}
    /\ c.names \in Seq(ToSet(c.names))
    /\ \A name \in ToSet(c.names) : name.like \cup name.inside \subseteq Symbols
    /\ IsPattern(c.file)

ASSUME QueryAssumption ==
    /\ IsFiniteSet(Symbols) /\ Docs \subseteq Nat \ {NoFile}
    /\ \A d \in Databases : /\ IsDatabase(d) /\ IsFiniteSet(d.docs)
                            /\ IsFiniteSet(d.defs) /\ IsFiniteSet(d.mentions)
                            /\ d.mentions \subseteq [sym : Symbols, doc : d.docs,
                                                    chunk : Nat, role : Nat]
    /\ \A c \in Commands : IsCommand(c)
    /\ \A s \in Symbols : MembersOf[s] \subseteq Symbols
    /\ {QualifiedFactor, QualifiedRows, MinBatch, MinScan, ScanFactor, MembersCap}
          \subseteq Nat \ {0}

VARIABLES db,        \* the index
          command,   \* the command line
          step,      \* what the command does
          names,     \* the names that are to be resolved
          syms,      \* the symbols that are to be looked up
          like,      \* search: the patterns that no symbol was resolved for
          file,      \* the file it is about
          offset,    \* refs: rows of the earlier batches
          refs,      \* refs: what they gave
          out,       \* what is printed
          warned,    \* a cut was told of
          exit       \* the exit code

workVars  == <<names, syms, like, file, offset, refs>>
queryVars == <<db, command, step, workVars, out, warned, exit>>

Limit == command.limit
Scope == command.scope

\* LimitAndWarn.  Mutant: it keeps the row that tells of the cut.
CutTooLate(rows) == Prefix(rows, Limit + 1)
Cut(rows) == Prefix(rows, Limit)
TooMany(rows) == Len(rows) > Limit

\* Mutant: a command asks for no more than it may print.
AsksForLimit(limit) == limit
AsksFor(limit) == limit + 1

Start == /\ step = "resolve"
         /\ names = command.names
         /\ syms = <<>> /\ like = <<>> /\ file = NoFile
         /\ offset = 0 /\ refs = <<>> /\ out = <<>>
         /\ warned = FALSE /\ exit = 0

QueryInit == db \in Databases /\ command \in Commands /\ Start

Fail == step' = "done" /\ exit' = 1 /\ UNCHANGED <<out, warned>>

Show(rows) == /\ step' = "done"
               /\ out' = Cut(rows)
               /\ warned' = (warned \/ TooMany(rows))
               /\ UNCHANGED exit

-----------------------------------------------------------------------------
(* search.                                                                 *)

\* A qualified pattern is resolved; one that is not, or resolves to nothing, is
\* looked for in the names of the symbols.
ResolvePattern ==
    /\ command.verb = "search" /\ step = "resolve" /\ names # <<>>
    /\ LET pattern == Head(names)
       IN  \E found \in IF pattern.qualified
                        THEN ResolveSymbol(db, pattern, command.kind, AsksFor(Limit), Scope)
                        ELSE {<<>>} :
              /\ syms' = syms \o found
              /\ like' = IF found = <<>> THEN Append(like, pattern) ELSE like
    /\ names' = Tail(names)
    /\ UNCHANGED <<db, command, step, file, offset, refs, out, warned, exit>>

Line(s) == <<LocationOf(db, s), LabelOf[s]>>
Lines(rows) == [i \in DOMAIN rows |-> Line(rows[i])]

\* searchResultsFromSymbols.
Resolved == Prefix(Distinct(Lines(syms)), Limit + 1)

\* The rows of a pattern, a symbol once for each definition; noisy symbols are
\* dropped when they have been read.
RowsOfLike ==
    {r \in Symbols \X (db.docs \cup {NoFile}) :
        /\ \E i \in DOMAIN like : r[1] \in like[i].inside
        /\ command.kind = AnyKind \/ KindOf[r[1]] = command.kind
        /\ IF r[2] = NoFile THEN DefinitionsOf(db, r[1]) = {} /\ Scope = NoScope
           ELSE r \in db.defs /\ InScope(r[2], Scope)}
ScanLimit == Max({Limit * ScanFactor, MinScan})
Collected(rows) ==
    LET kept == Where(rows, LAMBDA r : r[1] \notin Noisy)
    IN  Prefix(Distinct([i \in DOMAIN kept |-> Line(kept[i][1])]), Limit + 1)

\* Mutant: a symbol that both kinds of patterns find is printed twice.
MergedAsIs(first, more) == first \o more
MergedWith(first, more) == first \o Where(more, LAMBDA r : r \notin ToSet(first))

PrintResolved == /\ command.verb = "search" /\ step = "resolve" /\ names = <<>>
                 /\ like = <<>>
                 /\ Show(Resolved)
                 /\ UNCHANGED <<db, command, workVars>>

\* When the patterns of the second kind find nothing, the command fails with
\* what the others found; what both find is cut again, without a warning.
SearchLike ==
    /\ command.verb = "search" /\ step = "resolve" /\ names = <<>> /\ like # <<>>
    /\ \E rows \in Select(RowsOfLike, ScanLimit) :
          LET more == Collected(rows)
          IN  IF more = <<>> THEN Fail
              ELSE /\ step' = "done"
                   /\ out' = Cut(MergedWith(Cut(Resolved), Cut(more)))
                   /\ warned' = (TooMany(Resolved) \/ TooMany(more))
                   /\ UNCHANGED exit
    /\ UNCHANGED <<db, command, workVars>>

-----------------------------------------------------------------------------
(* refs and code.                                                          *)

ResolveName ==
    /\ command.verb \in {"refs", "code"} /\ step = "resolve"
    /\ names # <<>>
    /\ \E found \in ResolveSymbol(db, Head(names), command.kind, AsksFor(Limit), Scope) :
          /\ syms' = syms \o Cut(found)
          /\ warned' = (warned \/ TooMany(found))
    /\ names' = Tail(names)
    /\ UNCHANGED <<db, command, step, like, file, offset, refs, out, exit>>

NamesResolved ==
    /\ command.verb \in {"refs", "code"} /\ step = "resolve" /\ names = <<>>
    /\ step' = command.verb
    /\ UNCHANGED <<db, command, workVars, out, warned, exit>>

\* A reference is in a chunk of a document; one chunk has a row for each role.
RefRows(s) ==
    Ordered({m \in Uses(db) : m.sym = s /\ InScope(m.doc, Scope)},
            LAMBDA a, b : \/ a.doc < b.doc
                          \/ a.doc = b.doc /\ a.chunk < b.chunk
                          \/ a.doc = b.doc /\ a.chunk = b.chunk /\ a.role < b.role)

BatchSize == Max({Limit * 3, MinBatch})
Batch(s) == SubSeq(RefRows(s), offset + 1, Min({offset + BatchSize, Len(RefRows(s))}))

\* Mutant: the first batch is taken for all there is.
FirstIsAll(batch) == TRUE
IsLast(batch) == Len(batch) < BatchSize

ReadBatch ==
    /\ step = "refs" /\ syms # <<>>
    /\ LET batch == Batch(Head(syms))
       IN  /\ refs' = Prefix(Distinct(refs \o [i \in DOMAIN batch |->
                                                  <<batch[i].doc, batch[i].chunk>>]),
                             Limit + 1)
           /\ IF TooMany(refs') \/ IsLast(batch)
              THEN step' = "print refs" /\ UNCHANGED offset
              ELSE offset' = offset + Len(batch) /\ UNCHANGED step
    /\ UNCHANGED <<db, command, names, syms, like, file, out, warned, exit>>

\* A symbol without references has no group in the output.
EndRefs ==
    /\ step = "print refs"
    /\ out' = IF refs = <<>> THEN out
              ELSE Append(out, [sym |-> Head(syms), refs |-> Cut(refs), cut |-> TooMany(refs)])
    /\ syms' = Tail(syms)
    /\ refs' = <<>> /\ offset' = 0
    /\ step' = "refs"
    /\ UNCHANGED <<db, command, names, like, file, warned, exit>>

RefsDone == /\ step = "refs" /\ syms = <<>>
            /\ step' = "done"
            /\ exit' = IF out = <<>> THEN 1 ELSE 0
            /\ UNCHANGED <<db, command, workVars, out, warned>>

\* code prints the definition of each symbol that has one.
PrintCode ==
    /\ step = "code"
    /\ \E shown \in SUBSET {s \in ToSet(syms) : Located(db, s)} :
          /\ Defined(db) \cap ToSet(syms) \subseteq shown
          /\ out' = Where(syms, LAMBDA s : s \in shown)
    /\ step' = "done"
    /\ exit' = IF out' = <<>> THEN 1 ELSE 0
    /\ UNCHANGED <<db, command, workVars, warned>>

-----------------------------------------------------------------------------
(* symbols, rdeps and deps of a file.                                      *)

OnFile(verb) == command.verb = verb /\ step = "query" /\ file # NoFile

ResolveTheFile ==
    /\ command.verb \in {"symbols", "rdeps", "deps"} /\ step = "resolve"
    /\ names = <<>>
    /\ \E files \in ResolveFile(db, command.file, Scope) :
          IF files = <<>>
          THEN Fail /\ UNCHANGED file
          ELSE /\ file' = files[1]
               /\ step' = "query"
               /\ UNCHANGED <<out, warned, exit>>
    /\ UNCHANGED <<db, command, names, syms, like, offset, refs>>

\* The module itself is left out of what is printed.
SymbolsMain ==
    /\ OnFile("symbols")
    /\ \E rows \in Select(FileSymbols(db, file), AsksFor(Limit)) :
          IF rows = <<>> THEN Fail
          ELSE /\ step' = "done"
               /\ out' = Where(Cut(rows), LAMBDA s : KindOf[s] # "module")
               /\ warned' = TooMany(rows)
               /\ UNCHANGED exit
    /\ UNCHANGED <<db, command, workVars>>

\* The scope is applied to the rows that the limit left.
RdepsMain ==
    /\ OnFile("rdeps")
    /\ LET importers == SelectSorted(ImporterPaths(db, FileSymbols(db, file), file))
           rdeps == Where(Prefix(importers, AsksFor(Limit)), LAMBDA d : InScope(d, Scope))
       IN  IF rdeps = <<>> THEN Fail ELSE Show(rdeps)
    /\ UNCHANGED <<db, command, workVars>>

PrintDeps(deps) == \E rows \in Select(deps, AsksFor(Limit)) :
                      IF rows = <<>> THEN Fail ELSE Show(rows)

DepsOfFile == /\ OnFile("deps")
              /\ PrintDeps(DepsFromFile(db, file))
              /\ UNCHANGED <<db, command, workVars>>

-----------------------------------------------------------------------------
(* deps and members of a symbol.                                           *)

ResolveTheSymbol ==
    /\ command.verb \in {"deps", "members"} /\ step = "resolve"
    /\ names # <<>>
    /\ \E found \in ResolveOneSymbol(db, Head(names), Scope) :
          IF found = <<>>
          THEN Fail /\ UNCHANGED syms
          ELSE /\ syms' = <<found[1]>>
               /\ step' = "query"
               /\ UNCHANGED <<out, warned, exit>>
    /\ UNCHANGED <<db, command, names, like, file, offset, refs>>

DepsOfSymbol ==
    /\ command.verb = "deps" /\ step = "query" /\ syms # <<>>
    /\ LET s == syms[1]
       IN  IF DefinitionsOf(db, s) = {} THEN Fail
           ELSE PrintDeps(DepsFromSymbol(db, s, LocationOf(db, s)))
    /\ UNCHANGED <<db, command, workVars>>

\* A member is read once for each definition.  The bound on what is read is for
\* members of members too.
MemberRows(s) ==
    {r \in MembersOf[s] \X (db.docs \cup {NoFile}) :
        IF r[2] = NoFile THEN DefinitionsOf(db, r[1]) = {} ELSE r \in db.defs}

MembersMain ==
    /\ command.verb = "members" /\ step = "query"
    /\ \E rows \in Select(MemberRows(syms[1]), MembersCap + 1) :
          LET direct == Prefix(Where(rows, LAMBDA r : r[1] \in DirectOf[syms[1]]), MembersCap)
          IN  IF direct = <<>>
              THEN /\ step' = "done" /\ exit' = 1
                   /\ warned' = (Len(rows) > MembersCap)
                   /\ UNCHANGED out
              ELSE /\ step' = "done"
                   /\ out' = Cut(direct)
                   /\ warned' = (TooMany(direct) \/ Len(rows) > MembersCap)
                   /\ UNCHANGED exit
    /\ UNCHANGED <<db, command, workVars>>

QueryNext == \/ ResolvePattern \/ PrintResolved \/ SearchLike
             \/ ResolveName \/ NamesResolved \/ ReadBatch \/ EndRefs \/ RefsDone
             \/ PrintCode \/ ResolveTheFile \/ SymbolsMain \/ RdepsMain
             \/ DepsOfFile \/ ResolveTheSymbol \/ DepsOfSymbol \/ MembersMain

QuerySpec == QueryInit /\ [][QueryNext]_queryVars

-----------------------------------------------------------------------------
(* Properties.                                                             *)

Done(verb) == command.verb = verb /\ step = "done"

QueryTypeOK ==
    /\ IsDatabase(db) /\ command \in Commands
    /\ step \in {"resolve", "query", "refs", "print refs", "code", "done"}
    /\ ToSet(syms) \subseteq Symbols
    /\ file \in db.docs \cup {NoFile}
    /\ offset \in Nat /\ Len(refs) <= Limit + 1
    /\ Len(out) <= Limit * Max({1, Len(command.names)})
    /\ warned \in BOOLEAN /\ exit \in {0, 1}

\* The file a command is about is the best of the candidates: one with the very
\* name before one that only resembles it, then one that is no test, then the
\* first path, although the comparison of rankFileMatches is no order.
Better(d, f, exact) ==
    \/ d \in exact /\ f \notin exact
    \/ /\ d \in exact <=> f \in exact
       /\ \/ d \notin Specs /\ f \in Specs
          \/ (d \in Specs <=> f \in Specs) /\ d < f
BestFileFirst ==
    file # NoFile =>
       \A files \in ResolveFile(db, command.file, Scope) :
          \A d \in ToSet(files) : ~Better(d, file, command.file.exact)

\* What search may find for a pattern: for a qualified one that is resolved the
\* symbols it names, or else the symbols that hold it.
FoundBy(pattern) ==
    LET named == SymbolsFor(db, pattern.like, command.kind, Scope)
        held  == SymbolsFor(db, pattern.inside, command.kind, Scope)
        cased == IF named = {} THEN held \cap pattern.cased ELSE named
    IN  IF pattern.qualified /\ cased \cap pattern.matching # {}
        THEN cased \cap pattern.matching
        ELSE held \ Noisy

\* Of the symbols a qualified pattern may name all are read, as far as the bound
\* on rows goes, and of those it does name all are kept.
ReadWhole(pattern) ==
    LET named == SymbolsFor(db, pattern.like, command.kind, Scope)
        held  == SymbolsFor(db, pattern.inside, command.kind, Scope)
        limit == AsksFor(Limit)
    IN  pattern.qualified =>
           IF named # {}
           THEN /\ Cardinality(named) <= RowsToRead(pattern, limit)
                /\ Cardinality(named \cap pattern.matching) <= limit
           ELSE /\ Cardinality(held) <= RowsToRead(pattern, limit)
                /\ Cardinality(held \cap pattern.cased \cap pattern.matching) <= limit

\* One of the patterns finds nothing, if all of them are read as far as it takes.
OneFindsNothing ==
    /\ \A i \in DOMAIN command.names : ReadWhole(command.names[i])
    /\ Cardinality(RowsOfLike) <= ScanLimit
    => \E i \in DOMAIN command.names : FoundBy(command.names[i]) = {}

\* A search that does not fail prints no line twice and no more than the limit,
\* although two kinds of patterns find the same symbols.  Unless a bound on what
\* is read for a qualified pattern cuts off what it names, search prints only what
\* it was asked for, and if it has room left what every one of its patterns finds.
\* A search fails for no other reason than that one of its patterns finds nothing:
\* for that it may, although another has found something and SKILL.md:87 says that
\* patterns are OR'd.
SearchFindsEachOnce ==
    /\ Done("search") /\ exit = 0 =>
       LET wanted == {Line(s) : s \in UNION {FoundBy(command.names[i]) :
                                                i \in DOMAIN command.names}}
       IN  /\ IsInjective(out) /\ Len(out) <= Limit
           /\ (\A i \in DOMAIN command.names : ReadWhole(command.names[i]))
              => /\ ToSet(out) \subseteq wanted
                 /\ Len(out) < Limit /\ Cardinality(RowsOfLike) <= ScanLimit
                    => ToSet(out) = wanted
    /\ Done("search") /\ exit # 0 => OneFindsNothing

\* The references printed of a symbol are the first ones in the order of paths and
\* lines, each once, however many batches they were read in and however many
\* rows there are for one of them; and a cut is told of just when there are more.
RefsAreTheFirst ==
    command.verb = "refs" =>
       \A i \in DOMAIN out :
          LET before(a, b) == a[1] < b[1] \/ (a[1] = b[1] /\ a[2] < b[2])
              all == Ordered({<<m.doc, m.chunk>> : m \in ToSet(RefRows(out[i].sym))}, before)
          IN  out[i].refs = Cut(all) /\ out[i].cut = TooMany(all)

\* What a command would print without a limit.
Whole == CASE command.verb = "symbols" -> {s \in FileSymbols(db, file) : KindOf[s] # "module"}
           [] command.verb = "rdeps"   -> ImporterPaths(db, FileSymbols(db, file), file)
           [] command.verb = "deps"    ->
                 IF file # NoFile THEN DepsFromFile(db, file)
                 ELSE IF DefinitionsOf(db, syms[1]) = {} THEN {}
                 ELSE DepsFromSymbol(db, syms[1], LocationOf(db, syms[1]))
           [] command.verb = "members" -> {r \in MemberRows(syms[1]) : r[1] \in DirectOf[syms[1]]}

\* A command that has resolved its argument and gives no warning has printed all
\* there is, so that nothing printed means that there is nothing.
CutsAreTold ==
    /\ command.verb \in {"symbols", "rdeps", "deps", "members"} /\ step = "done"
    /\ file # NoFile \/ syms # <<>>
    /\ command.verb = "rdeps" => Scope = NoScope
    /\ ~warned
    => ToSet(out) = Whole

\* rdeps and deps are two views of one relation: a file is among the rdeps of
\* another just when its deps have a symbol that the other one defines.
CommandsAgree ==
    /\ \A s \in Symbols : Cardinality(DefinitionsOf(db, s)) <= 1
    /\ Scope = NoScope /\ ~warned /\ file # NoFile
    => /\ Done("rdeps") =>
             ToSet(out) = {d \in db.docs \ {file} :
                             DepsFromFile(db, d) \cap FileSymbols(db, file) # {}}
       /\ Done("deps") =>
             {LocationOf(db, s) : s \in ToSet(out)} =
                {d \in db.docs \ {file} : file \in ImporterPaths(db, FileSymbols(db, d), d)}
=============================================================================
