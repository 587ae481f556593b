------------------------------- MODULE Resolve -------------------------------
(***************************************************************************)
(* How a command finds the symbols and the files that its arguments name.  *)
(* A name is what it matches: the sets of symbols or of documents that the *)
(* patterns built from it select.  A statement without ORDER BY gives its  *)
(* rows in any order, of which a LIMIT keeps the first.                    *)
(***************************************************************************)
EXTENDS IndexDB, OrderedRows

CONSTANTS Specs,            \* documents whose names say that they are tests
          QualifiedFactor,  \* rows read for a qualified name, for each wanted
          QualifiedRows     \* and at most

NoScope == {}  \* no --path; else the documents in scope
AnyKind == "any kind"

InScope(doc, scope) == scope = NoScope \/ doc \in scope

\* SELECT ... LIMIT n.
Select(S, n) == {Prefix(rows, n) : rows \in SetToSeqs(S)}

-----------------------------------------------------------------------------
(* Symbols.  A name has                                                    *)
(*   like       the symbols it is the last part of, in any case            *)
(*   inside     those it is a part of, in any case                         *)
(*   cased      those it is a part of                                      *)
(*   qualified  whether it has a dot                                       *)
(*   matching   those whose containers are its qualifiers                  *)

SymbolsFor(db, S, kind, scope) ==
    {s \in S : /\ kind = AnyKind \/ KindOf[s] = kind
               /\ scope = NoScope \/ \E d \in scope : <<s, d>> \in db.defs}

RowsToRead(name, limit) == IF name.qualified THEN Min({limit * QualifiedFactor, QualifiedRows})
                           ELSE limit

\* The results ResolveSymbol may give: the symbols that end with the name, or
\* if there are none those that hold it, of these the ones that the qualifiers fit.
ResolveSymbol(db, name, kind, limit, scope) ==
    LET read   == RowsToRead(name, limit)
        exact  == Select(SymbolsFor(db, name.like, kind, scope), read)
        loose  == {Where(rows, LAMBDA s : s \in name.cased) :
                      rows \in Select(SymbolsFor(db, name.inside, kind, scope), read)}
        found  == IF exact = {<<>>} THEN loose ELSE exact
    IN  IF name.qualified
        THEN {Prefix(Where(rows, LAMBDA s : s \in name.matching), limit) : rows \in found}
        ELSE found

\* ResolveOneSymbol takes the first of two.
ResolveOneSymbol(db, name, scope) == ResolveSymbol(db, name, AnyKind, 2, scope)

-----------------------------------------------------------------------------
(* Files.  A pattern has                                                   *)
(*   equal   the document of this path, if there is one                    *)
(*   ending  the documents whose paths end with it, in any case            *)
(*   stems   those whose names without extension are the pattern           *)
(*   inside  those whose paths hold it, in any case                        *)
(*   exact   those whose names are it, with or without extension           *)

\* rankFileMatches exchanges two files for one of three reasons.
WrongOrder(p, exact, q) ==
    /\ ~(p \in exact /\ q \notin exact)
    /\ \/ p \notin exact /\ q \in exact
       \/ p \in Specs /\ q \notin Specs
       \/ p > q

Exchange(files, i, j) == [files EXCEPT ![i] = files[j], ![j] = files[i]]

\* Mutant: each file is only compared with the one after it.
OnlyNeighbours(i, n) == {i + 1} \cap 1..n
ComparedWith(i, n) == (i + 1)..n

\* The file at a place is compared with those behind it, then the next one.
Settle(files, exact, i) ==
    LET n == Len(files)
        after[j \in i..n] ==
            IF j = i THEN files
            ELSE LET l == after[j - 1]
                 IN  IF j \in ComparedWith(i, n) /\ WrongOrder(l[i], exact, l[j])
                     THEN Exchange(l, i, j) ELSE l
    IN  after[n]

RankFileMatches(files, exact) ==
    LET settled[i \in 0..Len(files)] ==
            IF i = 0 THEN files ELSE Settle(settled[i - 1], exact, i)
    IN  settled[Len(files)]

\* What the statements find for a pattern, each file where it is first found.
Candidates(db, pattern, stems) ==
    LET listed == SetToSeq(pattern.equal \cap db.docs)
                     \o SelectSorted(pattern.ending \cap db.docs) \o stems
    IN  IF listed = <<>> THEN SelectSorted(pattern.inside \cap db.docs) ELSE Distinct(listed)

\* The results ResolveFile may give.
ResolveFile(db, pattern, scope) ==
    {Where(RankFileMatches(Candidates(db, pattern, stems), pattern.exact),
           LAMBDA d : InScope(d, scope)) : stems \in SetToSeqs(pattern.stems \cap db.docs)}

\* The names of the candidates are that of the pattern, but for upper and lower
\* case, or the pattern with an extension, which no test has; so of those with
\* the very name all are tests or none, and what is found by its whole path or
\* by its stem either has the very name or is not among tests.
IsPattern(p) ==
    LET found == p.equal \cup p.ending \cup p.stems
    IN  \A class \in {found \cap p.exact, found \ p.exact} :
           \/ class \cap (p.equal \cup p.stems) = {}
           \/ class \cap Specs = {} \/ class \subseteq Specs

-----------------------------------------------------------------------------
(* Where a symbol is defined, and what it depends on.                      *)

DefinitionsOf(db, s) == {def[2] : def \in {x \in db.defs : x[1] = s}}

\* ResolveDefLocation, of a symbol with several definitions the first; without
\* one, the file that the symbol names, if its text shows the definition.
LocationOf(db, s) == IF DefinitionsOf(db, s) # {} THEN Min(DefinitionsOf(db, s)) ELSE HomeOf[s]
Located(db, s) == DefinitionsOf(db, s) # {} \/ HomeOf[s] \in db.docs

Defined(db) == {def[1] : def \in db.defs}

\* Mutant: definitions are mentions of the symbol too.
AnyMention(db) == db.mentions
Mentioned(db) == Uses(db)

DepsFromFile(db, doc) ==
    {m.sym : m \in {x \in Mentioned(db) : x.doc = doc}} \cap (Defined(db) \ FileSymbols(db, doc))

\* The range of a definition is in the chunks from its first to its last.
DepsFromSymbol(db, s, doc) ==
    {m.sym : m \in {x \in Mentioned(db) :
                       x.doc = doc /\ x.chunk \in db.range[<<s, doc>>] /\ x.sym # s}}
       \cap Defined(db)
=============================================================================
