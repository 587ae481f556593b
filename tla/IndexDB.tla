------------------------------- MODULE IndexDB -------------------------------
(***************************************************************************)
(* A finished index as the commands read it.  Documents are numbers, in    *)
(* the order of their paths.  A database has documents, the ranges in      *)
(* which symbols are defined, and the mentions of symbols; a mention is in *)
(* a chunk of a document and has a role: 1 for a definition, 2 for an      *)
(* import, 0 for a use of which the indexer tells no more, and other       *)
(* numbers for uses of which it does.  A symbol is taken to be defined in  *)
(* a document by one range; statements without DISTINCT give a row for     *)
(* each.                                                                   *)
(* A command opens the database once and nothing writes to it meanwhile.   *)
(***************************************************************************)
EXTENDS Naturals, FiniteSets

CONSTANTS Symbols,   \* the symbols of all databases
          KindOf,    \* "module", "alias", "function", "type", "variable"
          BaseOf,    \* the name a symbol is exported by
          HomeOf,    \* the document taken for the one that the symbol's name
                     \* tells: one whose path ends with it, if not the only one
          Docs,      \* the documents of all databases
          Tests,     \* those that are tests by their path
          Loaders    \* those in a migrations directory

\* "" is no name.
NoBase == ""

IsDatabase(db) ==
    /\ db.docs \subseteq Docs
    /\ db.defs \subseteq Symbols \X db.docs
    /\ \A m \in db.mentions : /\ m.sym \in Symbols /\ m.doc \in db.docs
                              /\ m.chunk \in Nat /\ m.role \in Nat

\* GetFileSymbols, without a limit.
FileSymbols(db, doc) == {def[1] : def \in {x \in db.defs : x[2] = doc}}

\* Uses are all mentions but definitions.
Uses(db) == {m \in db.mentions : m.role # 1}

\* GetImporterPaths, without a limit.
ImporterPaths(db, syms, exclude) ==
    {m.doc : m \in {x \in Uses(db) : x.sym \in syms /\ x.doc # exclude}}

UsedOutside(db, s, doc) == \E m \in Uses(db) : m.sym = s /\ m.doc # doc
UsedInside(db, s, doc)  == \E m \in Uses(db) : m.sym = s /\ m.doc = doc
ReferredTo(db, s, doc)  == \E m \in db.mentions : m.sym = s /\ m.doc = doc /\ m.role = 0

\* Some statements leave out imports too.
UsedBesideImports(db, s, doc) ==
    \E m \in Uses(db) : m.sym = s /\ m.doc = doc /\ m.role # 2
=============================================================================
