------------------------------ MODULE IndexData ------------------------------
(***************************************************************************)
(* What an index holds.  Each part of a repository is indexed on its own:  *)
(* convertScipToDB has scip write a database with the part's rows, prunes  *)
(* and trims it (postprocessIndex), and puts the part's directory before   *)
(* its paths (prefixDocumentPaths).  MergeSQLiteIndexes then makes the     *)
(* databases one, giving the rows of the later ones new ids.               *)
(*                                                                         *)
(* A table with a primary key is a function from ids to rows.  Paths are   *)
(* sequences of names, and a glob is the set of what its expression        *)
(* matches.  The parts share nothing until they are merged, so one order   *)
(* of converting them stands for all.                                      *)
(***************************************************************************)
EXTENDS Naturals, Sequences, FiniteSets, SequencesExt, FiniteSetsExt

CONSTANTS Names,        \* the names of files and directories
          Variables,    \* symbols of constants and variables
          Structural,   \* symbols of methods, parameters and type literals
          Inputs,       \* the repositories, settings and globs to index with
          NoDB          \* no database

\* A path, relative to the directory of its part or to the repository.
Paths == Seq(Names)

\* A part is a directory, and what the indexer says of the documents in it:
\* what they mention, in which of their chunks and as what, and what is
\* defined in them.
ASSUME InputsAssumption ==
    \A i \in Inputs :
        /\ Len(i.source) \in Nat /\ DOMAIN i.source = 1..Len(i.source)
        /\ \A n \in DOMAIN i.source : LET part == i.source[n] IN
              /\ part.dir \in Paths /\ part.docs \subseteq Paths
              /\ IsFiniteSet(part.docs) /\ IsFiniteSet(part.mentions)
              /\ IsFiniteSet(part.defined)
              /\ \A m \in part.mentions : m[1] \in part.docs
              /\ \A d \in part.defined : d = <<d[1], d[2]>> /\ d[1] \in part.docs

VARIABLES input,    \* the repository, a sequence of parts, and the settings
          phase,    \* what is to be done next
          current,  \* the part that is being indexed
          db,       \* its database
          parts,    \* the databases that are ready
          indexed,  \* the numbers of their parts
          merged,   \* how many of them are in the output
          output    \* index.db.next

vars == <<input, phase, current, db, parts, indexed, merged, output>>

Source == input.source

Init == /\ input \in Inputs
        /\ phase = "convert" /\ current = 1
        /\ db = NoDB /\ parts = <<>> /\ indexed = <<>>
        /\ merged = 0 /\ output = NoDB

-----------------------------------------------------------------------------
(* Tables.                                                                 *)

\* SQLite gives a new row the id after the last one.
LastId(table) == Max((DOMAIN table) \cup {0})

InsertInto(table, rows) ==
    LET new  == SetToSeq(rows)
        last == LastId(table)
    IN  [id \in (DOMAIN table) \cup {last + k : k \in DOMAIN new} |->
            IF id \in DOMAIN table THEN table[id] ELSE new[id - last]]

Keep(table, Test(_)) == Restrict(table, {id \in DOMAIN table : Test(table[id])})

\* scip expt-convert.
Converted(part) ==
    LET docs    == SetToSeq(part.docs)
        symbols == SetToSeq({m[3] : m \in part.mentions}
                               \cup {d[2] : d \in part.defined})
        doc(p)  == CHOOSE i \in DOMAIN docs : docs[i] = p
        sym(s)  == CHOOSE i \in DOMAIN symbols : symbols[i] = s
        chunks  == SetToSeq({[doc |-> doc(m[1]), index |-> m[2]] :
                                m \in part.mentions})
        home(m) == CHOOSE i \in DOMAIN chunks :
                      chunks[i] = [doc |-> doc(m[1]), index |-> m[2]]
    IN  [docs     |-> docs,
         symbols  |-> symbols,
         chunks   |-> chunks,
         mentions |->
            {[chunk |-> home(m), symbol |-> sym(m[3]), role |-> m[4]] :
                m \in part.mentions},
         ranges   |-> SetToSeq({[doc |-> doc(d[1]), symbol |-> sym(d[2])] :
                                   d \in part.defined})]

-----------------------------------------------------------------------------
(* postprocessIndex.                                                       *)

\* A pattern with a slash is matched against the path, another against its
\* last name.
PathMatchesGlob(path, glob) ==
    (IF glob.slash THEN path ELSE <<Last(path)>>) \in glob.matches

PathMatchesAnyGlob(path, globs) == \E g \in globs : PathMatchesGlob(path, g)

\* trimMentionsToKnownSymbols and trimDefnToKnownSymbols
TrimToKnownSymbols(d) ==
    [d EXCEPT !.mentions = {m \in @ : m.symbol \in DOMAIN d.symbols},
              !.ranges = Keep(@, LAMBDA r : r.symbol \in DOMAIN d.symbols)]

Mentioned(d) == {m.symbol : m \in d.mentions}
Defined(d)   == {r.symbol : r \in Range(d.ranges)}

\* Mutant: the mentions in an excluded document stay.
OnlyNoMentions(d, docs) ==
    LET chunks == Keep(d.chunks, LAMBDA c : c.doc \in DOMAIN docs)
    IN  [d EXCEPT !.docs = docs, !.chunks = chunks,
                  !.ranges = Keep(@, LAMBDA r : r.doc \in DOMAIN docs)]

\* Documents go with their chunks, the mentions in those and their definitions.
OnlyDocuments(d, docs) ==
    LET chunks == Keep(d.chunks, LAMBDA c : c.doc \in DOMAIN docs)
    IN  [d EXCEPT !.docs = docs,
                  !.chunks = chunks,
                  !.mentions = {m \in @ : m.chunk \in DOMAIN chunks},
                  !.ranges = Keep(@, LAMBDA r : r.doc \in DOMAIN docs)]

\* Symbols go that nothing mentions and nothing defines.
OnlyUsedSymbols(d) ==
    [d EXCEPT !.symbols = Restrict(@, (DOMAIN @) \cap (Mentioned(d) \cup Defined(d)))]

PruneExcludedDocuments(d, globs) ==
    LET docs == Keep(d.docs, LAMBDA p : ~PathMatchesAnyGlob(p, globs))
    IN  IF docs = d.docs THEN d
        ELSE TrimToKnownSymbols(OnlyUsedSymbols(OnlyDocuments(d, docs)))

\* Mutant: variables that have a definition stay.
TrimExternal(d, keepExternal) ==
    [d EXCEPT !.symbols = Restrict(@,
        {s \in DOMAIN @ : \/ keepExternal
                          \/ s \in Defined(d)
                          \/ @[s] \in Structural})]

\* trimUnusedColumns: variables go, and so do symbols that look external.
TrimUnusedColumns(d, keepExternal) ==
    [d EXCEPT !.symbols = Restrict(@,
        {s \in DOMAIN @ : /\ @[s] \notin Variables
                          /\ \/ keepExternal
                             \/ s \in Defined(d)
                             \/ @[s] \in Structural})]

Postprocessed(d) ==
    TrimToKnownSymbols(
        TrimUnusedColumns(PruneExcludedDocuments(d, input.globs),
                          input.keepExternal))

Prefixed(d, dir) == [d EXCEPT !.docs = [i \in DOMAIN @ |-> dir \o @[i]]]

-----------------------------------------------------------------------------
(* mergeOneDatabase.                                                       *)

\* Mutant: rows that are there already are inserted as well.
All(rows, table) == rows

Missing(rows, table) == rows \ Range(table)

\* Mutant: the ids are taken over.
SameId(old, new) ==
    {p \in (DOMAIN old) \X (DOMAIN new) : p[1] = p[2]}

\* The pairs of an id in one table and an id in another with equal rows.
SameRow(old, new) ==
    {p \in (DOMAIN old) \X (DOMAIN new) : old[p[1]] = new[p[2]]}

Merged(dest, src) ==
    LET docs    == InsertInto(dest.docs, Missing(Range(src.docs), dest.docs))
        docMap  == SameRow(src.docs, docs)
        symbols == InsertInto(dest.symbols,
                       Missing(Range(src.symbols) \ Variables, dest.symbols))
        symMap  == SameRow(src.symbols, symbols)
        moved   == {[doc |-> x[2][2], index |-> x[1].index] :
                       x \in {y \in Range(src.chunks) \X docMap : y[1].doc = y[2][1]}}
        chunks  == InsertInto(dest.chunks, Missing(moved, dest.chunks))
        cMap    == {p \in (DOMAIN src.chunks) \X (DOMAIN chunks) :
                       /\ <<src.chunks[p[1]].doc, chunks[p[2]].doc>> \in docMap
                       /\ src.chunks[p[1]].index = chunks[p[2]].index}
    IN  [docs     |-> docs,
         symbols  |-> symbols,
         chunks   |-> chunks,
         mentions |->
            dest.mentions \cup
               {[chunk |-> x[2][2], symbol |-> x[3][2], role |-> x[1].role] :
                   x \in {y \in src.mentions \X cMap \X symMap :
                             /\ y[1].chunk = y[2][1]
                             /\ y[1].symbol = y[3][1]}},
         ranges   |-> InsertInto(dest.ranges,
                        {[doc |-> x[2][2], symbol |-> x[3][2]] :
                            x \in {y \in Range(src.ranges) \X docMap \X symMap :
                                      /\ y[1].doc = y[2][1]
                                      /\ y[1].symbol = y[3][1]}})]

-----------------------------------------------------------------------------
(* The steps.                                                              *)

Convert ==
    /\ phase = "convert" /\ current <= Len(Source)
    /\ db' = Converted(Source[current])
    /\ phase' = "postprocess"
    /\ UNCHANGED <<input, current, parts, indexed, merged, output>>

PostprocessIndex ==
    /\ phase = "postprocess"
    /\ db' = Postprocessed(db)
    /\ phase' = "prefix"
    /\ UNCHANGED <<input, current, parts, indexed, merged, output>>

PrefixDocumentPaths ==
    /\ phase = "prefix"
    /\ parts' = Append(parts, Prefixed(db, Source[current].dir))
    /\ indexed' = Append(indexed, current)
    /\ db' = NoDB
    /\ current' = current + 1
    /\ phase' = "convert"
    /\ UNCHANGED <<input, merged, output>>

\* The indexer, the conversion or a statement fails: the part is left out.
SkipPart ==
    /\ phase \in {"convert", "postprocess", "prefix"}
    /\ current <= Len(Source)
    /\ db' = NoDB
    /\ current' = current + 1
    /\ phase' = "convert"
    /\ UNCHANGED <<input, parts, indexed, merged, output>>

\* The first part is copied, or there is none and the build fails ...
StartOutput ==
    /\ phase = "convert" /\ current > Len(Source)
    /\ IF parts = <<>>
       THEN phase' = "failed" /\ UNCHANGED <<merged, output>>
       ELSE phase' = "merge" /\ output' = parts[1] /\ merged' = 1
    /\ UNCHANGED <<input, current, db, parts, indexed>>

\* ... and the others are merged into it, a transaction for each.
MergeOneDatabase ==
    /\ phase = "merge" /\ merged < Len(parts)
    /\ output' = Merged(output, parts[merged + 1])
    /\ merged' = merged + 1
    /\ UNCHANGED <<input, phase, current, db, parts, indexed>>

EndOutput ==
    /\ phase = "merge" /\ merged = Len(parts)
    /\ phase' = "done"
    /\ UNCHANGED <<input, current, db, parts, indexed, merged, output>>

Next == \/ Convert \/ PostprocessIndex \/ PrefixDocumentPaths \/ SkipPart
        \/ StartOutput \/ MergeOneDatabase \/ EndOutput

Spec == Init /\ [][Next]_vars
-----------------------------------------------------------------------------
(* Properties.                                                             *)

Databases == ({db, output} \cup Range(parts)) \ {NoDB}

Ids == Nat \ {0}

TypeOK ==
    /\ phase \in {"convert", "postprocess", "prefix", "merge", "done", "failed"}
    /\ current \in 1..(Len(Source) + 1)
    /\ merged \in 0..Len(parts) /\ Len(indexed) = Len(parts)
    /\ \A d \in Databases :
          /\ UNION {DOMAIN d.docs, DOMAIN d.symbols, DOMAIN d.chunks,
                   DOMAIN d.ranges} \subseteq Ids
          /\ Range(d.symbols) \cap Variables = {} \/ d = db

\* No row of any table, in any database and at any step, refers to a row that
\* pruning, trimming or renumbering has taken away: the queries join on the
\* ids and would pass over it in silence.
NothingDangles ==
    \A d \in Databases :
        /\ \A c \in Range(d.chunks) : c.doc \in DOMAIN d.docs
        /\ \A m \in d.mentions : /\ m.chunk \in DOMAIN d.chunks
                                 /\ m.symbol \in DOMAIN d.symbols
        /\ \A r \in Range(d.ranges) : /\ r.doc \in DOMAIN d.docs
                                      /\ r.symbol \in DOMAIN d.symbols

\* A document, a symbol and a chunk of a document have one row, also when
\* several parts hold the same file.
RowsUnique ==
    \A d \in Databases : /\ IsInjective(d.docs)
                         /\ IsInjective(d.symbols)
                         /\ IsInjective(d.chunks)

\* What a database says, its ids resolved.
Mentions(d) == {<<d.docs[d.chunks[m.chunk].doc], d.chunks[m.chunk].index,
                  d.symbols[m.symbol], m.role>> : m \in d.mentions}
Definitions(d) == {<<d.docs[r.doc], d.symbols[r.symbol]>> :
                      r \in Range(d.ranges)}

Kept(part) == {p \in part.docs : ~PathMatchesAnyGlob(p, input.globs)}
Local(part, symbol) == \E p \in Kept(part) : <<p, symbol>> \in part.defined

WantedMentions(part) ==
    {<<part.dir \o m[1], m[2], m[3], m[4]>> :
        m \in {n \in part.mentions :
                 /\ n[1] \in Kept(part)
                 /\ n[3] \notin Variables
                 /\ \/ input.keepExternal
                    \/ n[3] \in Structural
                    \/ Local(part, n[3])}}
WantedDefinitions(part) ==
    {<<part.dir \o d[1], d[2]>> :
        d \in {e \in part.defined : /\ e[1] \in Kept(part)
                                    /\ e[2] \notin Variables}}

Union(Of(_)) == UNION {Of(Source[indexed[i]]) : i \in DOMAIN indexed}

\* The index says exactly what the indexed parts say of the documents no glob
\* matches and of the symbols worth keeping, nothing of it lost and nothing
\* moved to another document, chunk or symbol, whatever the parts share.
OutputIsFiltered ==
    phase = "done" =>
        /\ Range(output.docs) = Union(LAMBDA p : {p.dir \o q : q \in Kept(p)})
        /\ Mentions(output) = Union(WantedMentions)
        /\ Definitions(output) = Union(WantedDefinitions)

\* Patterns with a slash match repo-relative paths: no document of the index
\* is one that a pattern matches.
ExcludesAreRepoRelative ==
    phase = "done" =>
        \A p \in Range(output.docs) : ~PathMatchesAnyGlob(p, input.globs)

\* Symbols that are defined in the project are kept: what an indexed document
\* says of a symbol that has its definition in the index is in the index.
ProjectSymbolsKept ==
    phase = "done" =>
        \A i \in DOMAIN indexed :
            LET part == Source[indexed[i]]
            IN  \A m \in part.mentions :
                   /\ m[1] \in Kept(part)
                   /\ \E d \in Definitions(output) : d[2] = m[3]
                   => <<part.dir \o m[1], m[2], m[3], m[4]>>
                         \in Mentions(output)
=============================================================================
