----------------------------- MODULE QueryProofs -----------------------------
(***************************************************************************)
(* Proofs about QueryCommands, for every index and every command line.     *)
(***************************************************************************)
EXTENDS QueryCommands, OrderedRowsProofs, FiniteSetTheorems, SequenceTheorems,
        FunctionTheorems, TLAPS

-----------------------------------------------------------------------------
(* What SQL gives, and what the command lines and the index allow.         *)

\* What a SELECT gives: with room left, all there is.
LEMMA Selected ==
    ASSUME NEW S, IsFiniteSet(S), NEW k \in Nat, NEW rows \in Select(S, k)
    PROVE  /\ rows \in Seq(S) /\ Len(rows) \in Nat /\ Len(rows) <= k
           /\ IsInjective(rows)
           /\ Len(rows) < k => ToSet(rows) = S
<1>1. PICK all \in SetToSeqs(S) : rows = Prefix(all, k)
  BY DEF Select
<1>2. PICK n \in Nat : n = Cardinality(S)
  BY FS_CardinalityType
<1>3. /\ all \in [1..n -> S]
      /\ \A i, j \in 1..n : i # j => all[i] # all[j]
  BY <1>2 DEF SetToSeqs
<1>4. all \in Seq(S) /\ Len(all) = n
  BY <1>3
<1>5. /\ rows \in Seq(S) /\ Len(rows) = IF k <= n THEN k ELSE n
      /\ \A i \in 1..Len(rows) : rows[i] = all[i]
      /\ n <= k => rows = all
  BY <1>1, <1>4, FirstRows
<1>6. IsInjective(rows)
  <2>1. DOMAIN rows = 1..Len(rows)
    BY <1>5, LenProperties
  <2> QED
    BY <1>3, <1>5, <2>1 DEF IsInjective
<1>7. ToSet(all) = S
  <2>1. ToSet(all) \subseteq S
    BY <1>3 DEF ToSet
  <2>2. all \in Bijection(1..n, ToSet(all))
    BY <1>3, <2>1 DEF ToSet, Bijection, Injection, Surjection, IsInjective
  <2>3. IsFiniteSet(1..n) /\ Cardinality(1..n) = n
    BY FS_Interval
  <2>4. IsFiniteSet(ToSet(all)) /\ Cardinality(ToSet(all)) = n
    BY <2>2, <2>3, FS_Bijection DEF ExistsBijection
  <2> QED
    BY <1>2, <2>1, <2>4, FS_Subset
<1> QED
  BY <1>5, <1>6, <1>7

\* Finitely many things have finitely many values of one kind.
LEMMA ImageFinite ==
    ASSUME NEW S, IsFiniteSet(S)
    PROVE  /\ IsFiniteSet({x.sym : x \in S}) /\ IsFiniteSet({x.doc : x \in S})
           /\ IsFiniteSet({x[1] : x \in S})
<1> DEFINE syms1 == [x \in S |-> x.sym]
           docs1 == [x \in S |-> x.doc]
           firsts == [x \in S |-> x[1]]
<1>1. syms1 \in Surjection(S, {x.sym : x \in S})
  BY DEF Surjection
<1>2. docs1 \in Surjection(S, {x.doc : x \in S})
  BY DEF Surjection
<1>3. firsts \in Surjection(S, {x[1] : x \in S})
  BY DEF Surjection
<1> HIDE DEF syms1, docs1, firsts
<1>4. IsFiniteSet({x.sym : x \in S})
  BY <1>1, FS_Surjection
<1>5. IsFiniteSet({x.doc : x \in S})
  BY <1>2, FS_Surjection
<1>6. IsFiniteSet({x[1] : x \in S})
  BY <1>3, FS_Surjection
<1> QED
  BY <1>4, <1>5, <1>6

-----------------------------------------------------------------------------
(* What is asked for and what is printed.                                  *)

CommandShape == /\ db \in Databases /\ command \in Commands
                /\ names \in Seq(ToSet(command.names)) /\ syms \in Seq(Symbols)
                /\ step = "print refs" => syms # <<>>

\* What a command may assume of the index and of its command line.
LEMMA ShapeGives ==
    ASSUME CommandShape
    PROVE  /\ IsDatabase(db) /\ IsFiniteSet(db.docs) /\ IsFiniteSet(db.defs)
           /\ IsFiniteSet(db.mentions) /\ db.docs \subseteq Nat \ {NoFile}
           /\ db.mentions \subseteq [sym : Symbols, doc : Nat, chunk : Nat, role : Nat]
           /\ Limit \in Nat \ {0} /\ AsksFor(Limit) = Limit + 1
           /\ AsksFor(Limit) \in Nat \ {0}
<1>1. /\ IsDatabase(db) /\ IsFiniteSet(db.docs) /\ IsFiniteSet(db.defs)
      /\ IsFiniteSet(db.mentions)
  BY QueryAssumption DEF CommandShape
<1>2. db.docs \subseteq Nat \ {NoFile}
  BY <1>1, QueryAssumption DEF IsDatabase
<1>3. Limit \in Nat \ {0}
  BY QueryAssumption DEF CommandShape, IsCommand, Limit
<1>4. AsksFor(Limit) = Limit + 1 /\ AsksFor(Limit) \in Nat \ {0}
  BY <1>3 DEF AsksFor
<1>5. db.mentions \subseteq [sym : Symbols, doc : db.docs, chunk : Nat, role : Nat]
  BY QueryAssumption DEF CommandShape
<1>6. db.mentions \subseteq [sym : Symbols, doc : Nat, chunk : Nat, role : Nat]
  BY <1>2, <1>5
<1> QED
  BY <1>1, <1>2, <1>3, <1>4, <1>6

\* Of a SELECT that asks for one row more than may be printed, nothing given means
\* that there is nothing, and nothing cut that all is printed.
LEMMA CutTells ==
    ASSUME CommandShape, NEW S, IsFiniteSet(S), NEW rows \in Select(S, AsksFor(Limit))
    PROVE  /\ rows \in Seq(S) /\ Len(rows) \in Nat
           /\ rows = <<>> => S = {}
           /\ ~TooMany(rows) => Cut(rows) = rows /\ ToSet(rows) = S
<1>1. Limit \in Nat \ {0} /\ AsksFor(Limit) = Limit + 1 /\ AsksFor(Limit) \in Nat
  BY ShapeGives
<1>2. /\ rows \in Seq(S) /\ Len(rows) \in Nat
      /\ Len(rows) < AsksFor(Limit) => ToSet(rows) = S
  BY <1>1, Selected
<1>3. rows = <<>> => S = {}
  <2> SUFFICES ASSUME rows = <<>> PROVE S = {}
    OBVIOUS
  <2>1. Len(rows) = 0 /\ ToSet(rows) = {}
    BY DEF ToSet
  <2> QED
    BY <1>1, <1>2, <2>1
<1>4. ASSUME ~TooMany(rows) PROVE Cut(rows) = rows /\ ToSet(rows) = S
  <2>1. Len(rows) <= Limit
    BY <1>1, <1>2, <1>4 DEF TooMany
  <2>2. Cut(rows) = rows
    BY <1>1, <1>2, <2>1, FirstRows DEF Cut
  <2> QED
    BY <1>1, <1>2, <2>1, <2>2
<1> QED
  BY <1>2, <1>3, <1>4

\* The sets of rows the commands ask for are finite.
LEMMA AskedForFinite ==
    ASSUME CommandShape
    PROVE  /\ \A d : IsFiniteSet(FileSymbols(db, d)) /\ IsFiniteSet(DepsFromFile(db, d))
           /\ \A S, d : /\ IsFiniteSet(ImporterPaths(db, S, d))
                        /\ ImporterPaths(db, S, d) \subseteq Nat
           /\ \A s, d : IsFiniteSet(DepsFromSymbol(db, s, d))
           /\ \A s \in Symbols : IsFiniteSet(MemberRows(s))
<1>1. /\ IsDatabase(db) /\ IsFiniteSet(db.docs) /\ IsFiniteSet(db.defs)
      /\ IsFiniteSet(db.mentions) /\ db.docs \subseteq Nat
  BY ShapeGives
<1>2. IsFiniteSet(Uses(db)) /\ Uses(db) \subseteq db.mentions
  <2>1. Uses(db) \subseteq db.mentions
    BY DEF Uses
  <2> QED
    BY <1>1, <2>1, FS_Subset
<1>3. IsFiniteSet({m.sym : m \in Uses(db)}) /\ IsFiniteSet({m.doc : m \in Uses(db)})
  BY <1>2, ImageFinite
<1>4. IsFiniteSet(Defined(db))
  BY <1>1, ImageFinite DEF Defined
<1>5. ASSUME NEW d PROVE IsFiniteSet(FileSymbols(db, d)) /\ IsFiniteSet(DepsFromFile(db, d))
  <2>1. FileSymbols(db, d) \subseteq Defined(db)
    BY DEF FileSymbols, Defined
  <2>2. DepsFromFile(db, d) \subseteq Defined(db)
    BY DEF DepsFromFile
  <2> QED
    BY <1>4, <2>1, <2>2, FS_Subset
<1>6. ASSUME NEW S, NEW d
      PROVE  IsFiniteSet(ImporterPaths(db, S, d)) /\ ImporterPaths(db, S, d) \subseteq Nat
  <2>1. ImporterPaths(db, S, d) \subseteq {m.doc : m \in Uses(db)}
    BY DEF ImporterPaths
  <2>2. {m.doc : m \in Uses(db)} \subseteq Nat
    BY <1>1, <1>2 DEF IsDatabase
  <2> QED
    BY <1>3, <2>1, <2>2, FS_Subset
<1>7. ASSUME NEW s, NEW d PROVE IsFiniteSet(DepsFromSymbol(db, s, d))
  <2>1. DepsFromSymbol(db, s, d) \subseteq Defined(db)
    BY DEF DepsFromSymbol
  <2> QED
    BY <1>4, <2>1, FS_Subset
<1>8. ASSUME NEW s \in Symbols PROVE IsFiniteSet(MemberRows(s))
  <2>1. IsFiniteSet(MembersOf[s])
    BY QueryAssumption, FS_Subset
  <2>2. IsFiniteSet(db.docs \cup {NoFile})
    BY <1>1, FS_AddElement
  <2>3. IsFiniteSet(MembersOf[s] \X (db.docs \cup {NoFile}))
    BY <2>1, <2>2, FS_Product
  <2>4. MemberRows(s) \subseteq MembersOf[s] \X (db.docs \cup {NoFile})
    BY DEF MemberRows
  <2> QED
    BY <2>3, <2>4, FS_Subset
<1> QED
  BY <1>5, <1>6, <1>7, <1>8

\* The names of a command line match symbols, and so does what they resolve to.
LEMMA NamesMatch ==
    ASSUME CommandShape, names # <<>>
    PROVE  /\ Head(names).like \subseteq Symbols /\ Head(names).inside \subseteq Symbols
           /\ Tail(names) \in Seq(ToSet(command.names))
<1>1. Head(names) \in ToSet(command.names) /\ Tail(names) \in Seq(ToSet(command.names))
  BY HeadTailProperties DEF CommandShape
<1> QED
  BY <1>1, QueryAssumption DEF CommandShape, IsCommand

LEMMA FindsSymbols ==
    ASSUME NEW name, name.like \subseteq Symbols, name.inside \subseteq Symbols,
           NEW kind, NEW limit \in Nat, NEW scope,
           NEW found \in ResolveSymbol(db, name, kind, limit, scope)
    PROVE  found \in Seq(Symbols) /\ Len(found) \in Nat
<1> DEFINE read == RowsToRead(name, limit)
           Ends == SymbolsFor(db, name.like, kind, scope)
           Holds == SymbolsFor(db, name.inside, kind, scope)
<1>1. read \in Nat
  <2>1. limit * QualifiedFactor \in Nat /\ QualifiedRows \in Nat
    BY QueryAssumption
  <2>2. ASSUME NEW a \in Nat, NEW b \in Nat PROVE Min({a, b}) \in Nat
    <3>1. \E x \in {a, b} : \A y \in {a, b} : x <= y
      BY <2>2
    <3> QED
      BY <3>1 DEF Min
  <2> QED
    BY <2>1, <2>2 DEF RowsToRead
<1>2. /\ Ends \subseteq Symbols /\ Holds \subseteq Symbols
      /\ IsFiniteSet(Ends) /\ IsFiniteSet(Holds)
  <2>1. Ends \subseteq Symbols /\ Holds \subseteq Symbols
    BY DEF SymbolsFor
  <2> HIDE DEF Ends, Holds
  <2> QED
    BY <2>1, QueryAssumption, FS_Subset
<1>3. ASSUME NEW S \in SUBSET Symbols, IsFiniteSet(S), NEW rows \in Select(S, read)
      PROVE  rows \in Seq(Symbols)
  <2>1. rows \in Seq(S)
    BY <1>1, <1>3, Selected
  <2> QED
    BY <2>1
<1>4. ASSUME NEW rows \in Seq(Symbols), NEW P \in SUBSET DOMAIN rows
      PROVE  AtPlaces(rows, P) \in Seq(Symbols)
  BY KeptPlaces
<1> DEFINE Cased(rows) == Where(rows, LAMBDA s : s \in name.cased)
           Exact == Select(Ends, read)
           Loose == {Cased(rows) : rows \in Select(Holds, read)}
           Found == IF Exact = {<<>>} THEN Loose ELSE Exact
<1>5. \A rows \in Exact : rows \in Seq(Symbols)
  BY <1>2, <1>3
<1>6. \A rows \in Loose : rows \in Seq(Symbols)
  <2> SUFFICES ASSUME NEW rows \in Select(Holds, read) PROVE Cased(rows) \in Seq(Symbols)
    OBVIOUS
  <2>1. rows \in Seq(Symbols)
    BY <1>2, <1>3
  <2> QED
    BY <1>4, <2>1 DEF Where
<1>7. \A rows \in Found : rows \in Seq(Symbols)
  BY <1>5, <1>6
<1>8. \A rows \in Found :
         Prefix(Where(rows, LAMBDA s : s \in name.matching), limit) \in Seq(Symbols)
  <2> SUFFICES ASSUME NEW rows \in Found
               PROVE  Prefix(Where(rows, LAMBDA s : s \in name.matching), limit)
                         \in Seq(Symbols)
    OBVIOUS
  <2>1. Where(rows, LAMBDA s : s \in name.matching) \in Seq(Symbols)
    BY <1>4, <1>7 DEF Where
  <2> QED
    BY <2>1, FirstRows
<1>9. ResolveSymbol(db, name, kind, limit, scope) =
         IF name.qualified
         THEN {Prefix(Where(rows, LAMBDA s : s \in name.matching), limit) : rows \in Found}
         ELSE Found
  BY DEF ResolveSymbol
<1> HIDE DEF Found
<1>10. found \in Seq(Symbols)
  BY <1>7, <1>8, <1>9
<1> QED
  BY <1>10, LenProperties

-----------------------------------------------------------------------------
(* What the commands on one file or one symbol print.                      *)

OfOne == {"symbols", "rdeps", "deps", "members"}

\* Until such a command is done nothing is printed and no cut is told of; it is
\* about a file or about a symbol, and members about a symbol.
OnOne ==
    command.verb \in OfOne =>
       /\ step \in {"resolve", "query", "done"}
       /\ step # "done" => out = <<>> /\ warned = FALSE
       /\ step = "resolve" => file = NoFile /\ syms = <<>>
       /\ file = NoFile \/ syms = <<>>
       /\ command.verb = "members" => file = NoFile

QueryInv == CommandShape /\ OnOne /\ CutsAreTold

LEMMA ShapeAtFirst == QueryInit => CommandShape
<1> SUFFICES ASSUME QueryInit PROVE CommandShape
  OBVIOUS
<1>1. names \in Seq(ToSet(command.names))
  BY QueryAssumption DEF QueryInit, Start, IsCommand
<1> QED
  BY <1>1 DEF QueryInit, Start, CommandShape

LEMMA ShapeKept == CommandShape /\ [QueryNext]_queryVars => CommandShape'
<1> SUFFICES ASSUME CommandShape, [QueryNext]_queryVars PROVE CommandShape'
  OBVIOUS
<1>1. /\ db \in Databases /\ command \in Commands
      /\ names \in Seq(ToSet(command.names)) /\ syms \in Seq(Symbols)
      /\ step = "print refs" => syms # <<>>
  BY DEF CommandShape
<1>2. ASSUME db' = db, command' = command, names' \in Seq(ToSet(command.names)),
             syms' \in Seq(Symbols), step' = "print refs" => syms' # <<>>
      PROVE  CommandShape'
  BY <1>1, <1>2 DEF CommandShape
<1>3. ASSUME NEW kind, NEW limit \in Nat, NEW scope, names # <<>>,
             NEW found \in ResolveSymbol(db, Head(names), kind, limit, scope)
      PROVE  found \in Seq(Symbols)
  BY <1>3, NamesMatch, FindsSymbols
<1>4. Limit \in Nat /\ AsksFor(Limit) \in Nat
  BY ShapeGives
<1>5. names # <<>> => Tail(names) \in Seq(ToSet(command.names))
  BY NamesMatch
<1>6. ASSUME ResolvePattern PROVE CommandShape'
  <2>1. names # <<>>
    BY <1>6 DEF ResolvePattern
  <2>2. PICK found \in IF Head(names).qualified
                       THEN ResolveSymbol(db, Head(names), command.kind, AsksFor(Limit), Scope)
                       ELSE {<<>>} : syms' = syms \o found
    BY <1>6 DEF ResolvePattern
  <2>3. found \in Seq(Symbols)
    <3>1. CASE Head(names).qualified
      <4>1. found \in ResolveSymbol(db, Head(names), command.kind, AsksFor(Limit), Scope)
        BY <2>2, <3>1
      <4> QED
        BY <1>3, <1>4, <2>1, <4>1
    <3>2. CASE ~Head(names).qualified
      <4>1. found = <<>>
        BY <2>2, <3>2
      <4> QED
        BY <4>1
    <3> QED
      BY <3>1, <3>2
  <2>4. syms' \in Seq(Symbols)
    BY <1>1, <2>2, <2>3, ConcatProperties
  <2>5. names' = Tail(names) /\ step' = "resolve" /\ db' = db /\ command' = command
    BY <1>6 DEF ResolvePattern
  <2> QED
    BY <1>2, <1>5, <2>1, <2>4, <2>5
<1>7. ASSUME ResolveName PROVE CommandShape'
  <2>1. names # <<>>
    BY <1>7 DEF ResolveName
  <2>2. PICK found \in ResolveSymbol(db, Head(names), command.kind, AsksFor(Limit), Scope) :
           syms' = syms \o Cut(found)
    BY <1>7 DEF ResolveName
  <2>3. Cut(found) \in Seq(Symbols)
    BY <1>3, <1>4, <2>1, <2>2, FirstRows DEF Cut
  <2>4. syms' \in Seq(Symbols)
    BY <1>1, <2>2, <2>3, ConcatProperties
  <2>5. names' = Tail(names) /\ step' = "resolve" /\ db' = db /\ command' = command
    BY <1>7 DEF ResolveName
  <2> QED
    BY <1>2, <1>5, <2>1, <2>4, <2>5
<1>8. ASSUME ReadBatch PROVE CommandShape'
  BY <1>1, <1>2, <1>8 DEF ReadBatch
<1>9. ASSUME EndRefs PROVE CommandShape'
  <2>1. Tail(syms) \in Seq(Symbols)
    BY <1>1, <1>9, HeadTailProperties DEF EndRefs
  <2> QED
    BY <1>1, <1>2, <1>9, <2>1 DEF EndRefs
<1>10. ASSUME ResolveTheSymbol PROVE CommandShape'
  <2>1. names # <<>>
    BY <1>10 DEF ResolveTheSymbol
  <2>2. PICK found \in ResolveOneSymbol(db, Head(names), Scope) :
           IF found = <<>>
           THEN Fail /\ UNCHANGED syms
           ELSE syms' = <<found[1]>> /\ step' = "query"
    BY <1>10 DEF ResolveTheSymbol
  <2>3. found \in Seq(Symbols)
    BY <1>3, <2>1, <2>2 DEF ResolveOneSymbol
  <2>4. syms' \in Seq(Symbols) /\ step' # "print refs"
    <3>1. CASE found = <<>>
      BY <1>1, <2>2, <3>1 DEF Fail
    <3>2. CASE found # <<>>
      <4>1. found[1] \in Symbols
        BY <2>3, <3>2
      <4>2. syms' = <<found[1]>> /\ step' = "query"
        BY <2>2, <3>2
      <4> QED
        BY <4>1, <4>2
    <3> QED
      BY <3>1, <3>2
  <2> QED
    BY <1>1, <1>2, <1>10, <2>4 DEF ResolveTheSymbol
<1>11. ASSUME UNCHANGED <<db, command, names, syms>>, step' # "print refs" PROVE CommandShape'
  BY <1>1, <1>2, <1>11
<1>12. CASE PrintResolved
  BY <1>11, <1>12 DEF PrintResolved, Show, workVars
<1>13. CASE SearchLike
  BY <1>11, <1>13 DEF SearchLike, Fail, workVars
<1>14. CASE NamesResolved
  <2>1. step' \in {"refs", "code"} /\ UNCHANGED <<db, command, names, syms>>
    BY <1>14 DEF NamesResolved, workVars
  <2> QED
    BY <1>11, <2>1
<1>15. CASE RefsDone
  BY <1>11, <1>15 DEF RefsDone, workVars
<1>16. CASE PrintCode
  BY <1>11, <1>16 DEF PrintCode, workVars
<1>17. CASE ResolveTheFile
  <2>1. step' \in {"done", "query"} /\ UNCHANGED <<db, command, names, syms>>
    BY <1>17 DEF ResolveTheFile, Fail
  <2> QED
    BY <1>11, <2>1
<1>18. CASE SymbolsMain
  BY <1>11, <1>18 DEF SymbolsMain, Fail, workVars
<1>19. CASE RdepsMain
  BY <1>11, <1>19 DEF RdepsMain, Fail, Show, workVars
<1>20. CASE DepsOfFile
  BY <1>11, <1>20 DEF DepsOfFile, PrintDeps, Fail, Show, workVars
<1>21. CASE DepsOfSymbol
  BY <1>11, <1>21 DEF DepsOfSymbol, PrintDeps, Fail, Show, workVars
<1>22. CASE MembersMain
  BY <1>11, <1>22 DEF MembersMain, workVars
<1>23. CASE UNCHANGED queryVars
  BY <1>1, <1>2, <1>23 DEF queryVars, workVars
<1> QED
  BY <1>6, <1>7, <1>8, <1>9, <1>10, <1>12, <1>13, <1>14, <1>15, <1>16, <1>17, <1>18,
     <1>19, <1>20, <1>21, <1>22, <1>23 DEF QueryNext

\* symbols: the rows that are left are those of the file but modules.
LEMMA SymbolsTell ==
    ASSUME CommandShape, OnOne, SymbolsMain, ~warned'
    PROVE  ToSet(out') = {s \in FileSymbols(db, file) : KindOf[s] # "module"}
<1> DEFINE Here == FileSymbols(db, file)
<1>1. out = <<>>
  BY DEF OnOne, OfOne, SymbolsMain, OnFile
<1>2. PICK rows \in Select(Here, AsksFor(Limit)) :
         IF rows = <<>> THEN Fail
         ELSE /\ out' = Where(Cut(rows), LAMBDA s : KindOf[s] # "module")
              /\ warned' = TooMany(rows)
  BY DEF SymbolsMain
<1>3. IsFiniteSet(Here)
  BY AskedForFinite
<1> HIDE DEF Here
<1>4. /\ rows \in Seq(Here)
      /\ rows = <<>> => Here = {}
      /\ ~TooMany(rows) => Cut(rows) = rows /\ ToSet(rows) = Here
  BY <1>2, <1>3, CutTells
<1>5. CASE rows = <<>>
  BY <1>1, <1>2, <1>4, <1>5 DEF Fail, ToSet, Here
<1>6. CASE rows # <<>>
  <2>1. Cut(rows) = rows /\ ToSet(rows) = Here
    BY <1>2, <1>4, <1>6
  <2> DEFINE P == {i \in DOMAIN rows : KindOf[rows[i]] # "module"}
  <2>2. out' = AtPlaces(rows, P)
    BY <1>2, <1>6, <2>1 DEF Where
  <2>3. ToSet(AtPlaces(rows, P)) = {rows[i] : i \in P}
    <3>1. P \in SUBSET DOMAIN rows
      OBVIOUS
    <3>2. rows \in Seq(Here)
      BY <1>4
    <3> HIDE DEF P
    <3>3. /\ AtPlaces(rows, P) \in Seq(Here)
          /\ ToSet(AtPlaces(rows, P)) = {rows[i] : i \in P}
      BY ONLY <3>1, <3>2, KeptPlaces
    <3> QED
      BY <3>3
  <2> QED
    BY <2>1, <2>2, <2>3 DEF ToSet, Here
<1> QED
  BY <1>5, <1>6

\* rdeps without a scope: what is left of the first importers are all of them.
LEMMA RdepsTell ==
    ASSUME CommandShape, OnOne, RdepsMain, ~warned', Scope = NoScope
    PROVE  ToSet(out') = ImporterPaths(db, FileSymbols(db, file), file)
<1> DEFINE All == ImporterPaths(db, FileSymbols(db, file), file)
           importers == SelectSorted(All)
           first == Prefix(importers, AsksFor(Limit))
           rdeps == Where(first, LAMBDA d : InScope(d, Scope))
<1>1. out = <<>>
  BY DEF OnOne, OfOne, RdepsMain, OnFile
<1>2. IF rdeps = <<>> THEN Fail ELSE Show(rdeps)
  BY DEF RdepsMain
<1>3. IsFiniteSet(All) /\ All \in SUBSET Nat
  BY AskedForFinite
<1>4. Limit \in Nat \ {0} /\ AsksFor(Limit) = Limit + 1 /\ AsksFor(Limit) \in Nat
  BY ShapeGives
<1> HIDE DEF All
<1>5. /\ importers \in Seq(All)
      /\ \A x \in All : \E i \in DOMAIN importers : importers[i] = x
  BY <1>3, SortedNumbers
<1> HIDE DEF importers
<1>6. ToSet(importers) = All
  BY <1>5 DEF ToSet
<1>7. /\ first \in Seq(All)
      /\ Len(first) = IF AsksFor(Limit) <= Len(importers) THEN AsksFor(Limit)
                      ELSE Len(importers)
      /\ Len(importers) <= AsksFor(Limit) => first = importers
  BY <1>4, <1>5, FirstRows
<1> HIDE DEF first
<1>8. rdeps = AtPlaces(first, DOMAIN first)
  BY DEF Where, InScope
<1>9. rdeps \in Seq(All) /\ Len(rdeps) = Len(first) /\ ToSet(rdeps) = ToSet(first)
  <2>1. DOMAIN first \in SUBSET DOMAIN first
    OBVIOUS
  <2>2. /\ AtPlaces(first, DOMAIN first) \in Seq(All)
        /\ ToSet(AtPlaces(first, DOMAIN first)) = {first[i] : i \in DOMAIN first}
    BY <1>7, <2>1, KeptPlaces
  <2>3. Len(AtPlaces(first, DOMAIN first)) = Len(first)
    BY <1>7, <2>1, KeptPlaces
  <2> HIDE DEF rdeps
  <2> QED
    BY <1>8, <2>2, <2>3 DEF ToSet
<1> HIDE DEF rdeps
<1>10. Len(importers) \in Nat
  BY <1>5, LenProperties
<1>11. CASE rdeps = <<>>
  <2>1. Len(first) = 0
    BY <1>9, <1>11
  <2>2. Len(importers) = 0
    BY <1>4, <1>7, <1>10, <2>1
  <2>3. All = {}
    BY <1>5, <1>6, <2>2 DEF ToSet
  <2> QED
    BY <1>1, <1>2, <1>11, <2>3 DEF Fail, ToSet, All
<1>12. CASE rdeps # <<>>
  <2>1. ~TooMany(rdeps) /\ out' = Cut(rdeps)
    BY <1>2, <1>12 DEF Show
  <2>2. Len(rdeps) <= Limit
    BY <1>4, <1>7, <1>9, <1>10, <2>1 DEF TooMany
  <2>3. Cut(rdeps) = rdeps
    BY <1>4, <1>9, <2>2, FirstRows DEF Cut
  <2>4. first = importers
    BY <1>4, <1>7, <1>9, <1>10, <2>2
  <2> QED
    BY <1>6, <1>9, <2>1, <2>3, <2>4 DEF All
<1> QED
  BY <1>11, <1>12

\* deps: nothing means that there is none, and no warning that all are printed.
LEMMA DepsTell ==
    ASSUME CommandShape, out = <<>>, NEW deps, IsFiniteSet(deps), PrintDeps(deps), ~warned'
    PROVE  ToSet(out') = deps
<1>1. PICK rows \in Select(deps, AsksFor(Limit)) : IF rows = <<>> THEN Fail ELSE Show(rows)
  BY DEF PrintDeps
<1>2. /\ rows = <<>> => deps = {}
      /\ ~TooMany(rows) => Cut(rows) = rows /\ ToSet(rows) = deps
  BY <1>1, CutTells
<1>3. CASE rows = <<>>
  BY <1>1, <1>2, <1>3 DEF Fail, ToSet
<1>4. CASE rows # <<>>
  BY <1>1, <1>2, <1>4 DEF Show
<1> QED
  BY <1>3, <1>4

\* members: without a warning all rows have been read, and all of its own printed.
LEMMA MembersTell ==
    ASSUME CommandShape, OnOne, MembersMain, syms # <<>>, ~warned'
    PROVE  ToSet(out') = {r \in MemberRows(syms[1]) : r[1] \in DirectOf[syms[1]]}
<1> DEFINE All == MemberRows(syms[1])
<1>1. out = <<>>
  BY DEF OnOne, OfOne, MembersMain
<1>2. PICK rows \in Select(All, MembersCap + 1) :
         LET direct == Prefix(Where(rows, LAMBDA r : r[1] \in DirectOf[syms[1]]), MembersCap)
         IN  IF direct = <<>>
             THEN warned' = (Len(rows) > MembersCap) /\ UNCHANGED out
             ELSE /\ out' = Cut(direct)
                  /\ warned' = (TooMany(direct) \/ Len(rows) > MembersCap)
  BY DEF MembersMain
<1> DEFINE P == {i \in DOMAIN rows : rows[i][1] \in DirectOf[syms[1]]}
           own == AtPlaces(rows, P)
           direct == Prefix(own, MembersCap)
<1>3. IF direct = <<>>
      THEN warned' = (Len(rows) > MembersCap) /\ UNCHANGED out
      ELSE /\ out' = Cut(direct)
           /\ warned' = (TooMany(direct) \/ Len(rows) > MembersCap)
  BY <1>2 DEF Where
<1>4. syms[1] \in Symbols
  <2>1. syms \in Seq(Symbols) /\ Len(syms) \in Nat /\ Len(syms) # 0
    BY LenProperties, EmptySeq DEF CommandShape
  <2> QED
    BY <2>1, ElementOfSeq
<1>5. IsFiniteSet(All)
  BY <1>4, AskedForFinite
<1>6. MembersCap \in Nat /\ MembersCap + 1 \in Nat
  BY QueryAssumption
<1>7. Limit \in Nat
  BY ShapeGives
<1> HIDE DEF All
<1>8. /\ rows \in Seq(All) /\ Len(rows) \in Nat
      /\ Len(rows) < MembersCap + 1 => ToSet(rows) = All
  BY <1>2, <1>5, <1>6, Selected
<1>9. own \in Seq(All) /\ Len(own) <= Len(rows) /\ ToSet(own) = {rows[i] : i \in P}
  BY <1>8, KeptPlaces
<1> HIDE DEF own
<1>10. Len(own) \in Nat
  BY <1>9, LenProperties
<1>11. /\ direct \in Seq(All)
       /\ Len(own) <= MembersCap => direct = own
  BY <1>6, <1>9, FirstRows
<1> HIDE DEF direct
<1>12. Len(direct) \in Nat
  BY <1>11, LenProperties
<1>13. ~(Len(rows) > MembersCap)
  BY <1>3
<1>14. ToSet(rows) = All /\ direct = own
  BY <1>6, <1>8, <1>9, <1>10, <1>11, <1>13
<1>15. out' = own
  <2>1. CASE direct = <<>>
    BY <1>1, <1>3, <1>14, <2>1
  <2>2. CASE direct # <<>>
    <3>1. ~TooMany(direct) /\ out' = Cut(direct)
      BY <1>3, <2>2
    <3>2. Cut(direct) = direct
      BY <1>7, <1>11, <1>12, <3>1, FirstRows DEF Cut, TooMany
    <3> QED
      BY <1>14, <3>1, <3>2
  <2> QED
    BY <2>1, <2>2
<1>16. {rows[i] : i \in P} = {r \in ToSet(rows) : r[1] \in DirectOf[syms[1]]}
  BY DEF ToSet
<1> QED
  BY <1>9, <1>14, <1>15, <1>16 DEF All

-----------------------------------------------------------------------------
(* The invariant of the commands on one file or one symbol.                *)

LEMMA OneAtFirst == QueryInit => OnOne /\ CutsAreTold
  BY DEF QueryInit, Start, OnOne, CutsAreTold

LEMMA OnOneKept == CommandShape /\ OnOne /\ [QueryNext]_queryVars => OnOne'
<1> SUFFICES ASSUME CommandShape, OnOne, [QueryNext]_queryVars, command'.verb \in OfOne
             PROVE  /\ step' \in {"resolve", "query", "done"}
                    /\ step' # "done" => out' = <<>> /\ warned' = FALSE
                    /\ step' = "resolve" => file' = NoFile /\ syms' = <<>>
                    /\ file' = NoFile \/ syms' = <<>>
                    /\ command'.verb = "members" => file' = NoFile
  BY DEF OnOne
<1>1. command' = command
  BY DEF QueryNext, queryVars, workVars, ResolvePattern, PrintResolved, SearchLike,
     ResolveName, NamesResolved, ReadBatch, EndRefs, RefsDone, PrintCode, ResolveTheFile,
     SymbolsMain, RdepsMain, DepsOfFile, ResolveTheSymbol, DepsOfSymbol, MembersMain
<1>2. /\ step \in {"resolve", "query", "done"}
      /\ step # "done" => out = <<>> /\ warned = FALSE
      /\ step = "resolve" => file = NoFile /\ syms = <<>>
      /\ file = NoFile \/ syms = <<>>
      /\ command.verb = "members" => file = NoFile
  BY <1>1 DEF OnOne
<1>3. CASE ResolveTheFile
  <2>1. /\ command.verb # "members" /\ step = "resolve" /\ syms' = syms
        /\ \/ step' = "done" /\ file' = file
           \/ step' = "query" /\ out' = out /\ warned' = warned
    BY <1>3 DEF ResolveTheFile, Fail
  <2> QED
    BY <1>1, <1>2, <2>1
<1>4. CASE ResolveTheSymbol
  <2>1. /\ step = "resolve" /\ file' = file
        /\ \/ step' = "done" /\ syms' = syms
           \/ step' = "query" /\ out' = out /\ warned' = warned
    BY <1>4 DEF ResolveTheSymbol, Fail
  <2> QED
    BY <1>1, <1>2, <2>1
<1>5. ASSUME step' = "done", UNCHANGED <<file, syms>>
      PROVE  /\ step' \in {"resolve", "query", "done"}
             /\ step' # "done" => out' = <<>> /\ warned' = FALSE
             /\ step' = "resolve" => file' = NoFile /\ syms' = <<>>
             /\ file' = NoFile \/ syms' = <<>>
             /\ command'.verb = "members" => file' = NoFile
  BY <1>1, <1>2, <1>5
<1>6. CASE SymbolsMain
  BY <1>5, <1>6 DEF SymbolsMain, Fail, workVars
<1>7. CASE RdepsMain
  BY <1>5, <1>7 DEF RdepsMain, Fail, Show, workVars
<1>8. CASE DepsOfFile
  BY <1>5, <1>8 DEF DepsOfFile, PrintDeps, Fail, Show, workVars
<1>9. CASE DepsOfSymbol
  BY <1>5, <1>9 DEF DepsOfSymbol, PrintDeps, Fail, Show, workVars
<1>10. CASE MembersMain
  BY <1>5, <1>10 DEF MembersMain, workVars
<1>11. CASE UNCHANGED queryVars
  BY <1>1, <1>2, <1>11 DEF queryVars, workVars
<1>12. /\ ~ResolvePattern /\ ~PrintResolved /\ ~SearchLike /\ ~ResolveName
       /\ ~NamesResolved /\ ~ReadBatch /\ ~EndRefs /\ ~RefsDone /\ ~PrintCode
  BY <1>1, <1>2 DEF OfOne, ResolvePattern, PrintResolved, SearchLike, ResolveName,
     NamesResolved, ReadBatch, EndRefs, RefsDone, PrintCode
<1> QED
  BY <1>3, <1>4, <1>6, <1>7, <1>8, <1>9, <1>10, <1>11, <1>12 DEF QueryNext

LEMMA CutsStayTold ==
    ASSUME CommandShape, OnOne, CutsAreTold, [QueryNext]_queryVars
    PROVE  CutsAreTold'
<1> SUFFICES ASSUME command'.verb \in {"symbols", "rdeps", "deps", "members"},
                    step' = "done", file' # NoFile \/ syms' # <<>>,
                    command'.verb = "rdeps" => Scope' = NoScope, ~warned'
             PROVE  ToSet(out') = Whole'
  BY DEF CutsAreTold
<1>1. command' = command
  BY DEF QueryNext, queryVars, workVars, ResolvePattern, PrintResolved, SearchLike,
     ResolveName, NamesResolved, ReadBatch, EndRefs, RefsDone, PrintCode, ResolveTheFile,
     SymbolsMain, RdepsMain, DepsOfFile, ResolveTheSymbol, DepsOfSymbol, MembersMain
<1>2. command.verb \in OfOne
  BY <1>1 DEF OfOne
<1>3. /\ step \in {"resolve", "query", "done"}
      /\ step # "done" => out = <<>>
      /\ step = "resolve" => file = NoFile /\ syms = <<>>
      /\ file = NoFile \/ syms = <<>>
      /\ command.verb = "members" => file = NoFile
  BY <1>2 DEF OnOne
<1>4. CASE SymbolsMain
  <2>1. command.verb = "symbols" /\ UNCHANGED <<db, file>>
    BY <1>4 DEF SymbolsMain, OnFile, workVars
  <2>2. Whole' = {s \in FileSymbols(db, file) : KindOf[s] # "module"}
    BY <1>1, <2>1 DEF Whole
  <2> QED
    BY <1>4, <2>2, SymbolsTell
<1>5. CASE RdepsMain
  <2>1. command.verb = "rdeps" /\ UNCHANGED <<db, file>>
    BY <1>5 DEF RdepsMain, OnFile, workVars
  <2>2. Whole' = ImporterPaths(db, FileSymbols(db, file), file)
    BY <1>1, <2>1 DEF Whole
  <2>3. Scope = NoScope
    BY <1>1, <2>1 DEF Scope
  <2> QED
    BY <1>5, <2>2, <2>3, RdepsTell
<1>6. CASE DepsOfFile
  <2>1. /\ command.verb = "deps" /\ step = "query" /\ file # NoFile
        /\ UNCHANGED <<db, file>> /\ PrintDeps(DepsFromFile(db, file))
    BY <1>6 DEF DepsOfFile, OnFile, workVars
  <2>2. Whole' = DepsFromFile(db, file)
    BY <1>1, <2>1 DEF Whole
  <2>3. IsFiniteSet(DepsFromFile(db, file))
    BY AskedForFinite
  <2>4. ToSet(out') = DepsFromFile(db, file)
    BY <1>3, <2>1, <2>3, DepsTell
  <2> QED
    BY <2>2, <2>4
<1>7. CASE DepsOfSymbol
  <2> DEFINE s == syms[1]
             deps == DepsFromSymbol(db, s, LocationOf(db, s))
  <2>1. /\ command.verb = "deps" /\ step = "query" /\ syms # <<>>
        /\ UNCHANGED <<db, file, syms>>
        /\ IF DefinitionsOf(db, s) = {} THEN Fail ELSE PrintDeps(deps)
    BY <1>7 DEF DepsOfSymbol, workVars
  <2>2. Whole' = IF DefinitionsOf(db, s) = {} THEN {} ELSE deps
    BY <1>1, <1>3, <2>1 DEF Whole
  <2>3. IsFiniteSet(deps)
    BY AskedForFinite
  <2>4. CASE DefinitionsOf(db, s) = {}
    BY <1>3, <2>1, <2>2, <2>4 DEF Fail, ToSet
  <2>5. CASE DefinitionsOf(db, s) # {}
    <3>1. PrintDeps(deps) /\ Whole' = deps
      BY <2>1, <2>2, <2>5
    <3> HIDE DEF deps
    <3>2. ToSet(out') = deps
      BY <1>3, <2>1, <2>3, <3>1, DepsTell
    <3> QED
      BY <3>1, <3>2
  <2> QED
    BY <2>4, <2>5
<1>8. CASE MembersMain
  <2>1. command.verb = "members" /\ UNCHANGED <<db, file, syms>>
    BY <1>8 DEF MembersMain, workVars
  <2>2. Whole' = {r \in MemberRows(syms[1]) : r[1] \in DirectOf[syms[1]]}
    BY <1>1, <2>1 DEF Whole, MemberRows
  <2>3. syms # <<>>
    BY <1>3, <2>1
  <2> QED
    BY <1>8, <2>2, <2>3, MembersTell
<1>9. CASE ResolveTheFile
  <2>1. step = "resolve" /\ file' = file /\ syms' = syms
    BY <1>9 DEF ResolveTheFile, Fail
  <2> QED
    BY <1>3, <2>1
<1>10. CASE ResolveTheSymbol
  <2>1. step = "resolve" /\ file' = file /\ syms' = syms
    BY <1>10 DEF ResolveTheSymbol, Fail
  <2> QED
    BY <1>3, <2>1
<1>11. CASE UNCHANGED queryVars
  <2>1. UNCHANGED <<db, command, step, syms, file, out, warned>>
    BY <1>11 DEF queryVars, workVars
  <2>2. Whole' = Whole
    BY <2>1 DEF Whole, MemberRows
  <2> QED
    BY <2>1, <2>2 DEF CutsAreTold, Scope
<1>12. /\ ~ResolvePattern /\ ~PrintResolved /\ ~SearchLike /\ ~ResolveName
       /\ ~NamesResolved /\ ~ReadBatch /\ ~EndRefs /\ ~RefsDone /\ ~PrintCode
  BY <1>2, <1>3 DEF OfOne, ResolvePattern, PrintResolved, SearchLike, ResolveName,
     NamesResolved, ReadBatch, EndRefs, RefsDone, PrintCode
<1> QED
  BY <1>4, <1>5, <1>6, <1>7, <1>8, <1>9, <1>10, <1>11, <1>12 DEF QueryNext

\* What symbols, rdeps, deps and members print without a warning is all there is.
THEOREM NoSilentCut == QuerySpec => []CutsAreTold
<1>1. QueryInit => QueryInv
  BY ShapeAtFirst, OneAtFirst DEF QueryInv
<1>2. QueryInv /\ [QueryNext]_queryVars => QueryInv'
  BY ShapeKept, OnOneKept, CutsStayTold DEF QueryInv
<1>3. QueryInv => CutsAreTold
  BY DEF QueryInv
<1> QED
  BY <1>1, <1>2, <1>3, PTL DEF QuerySpec

-----------------------------------------------------------------------------
(* Two views of one relation.                                              *)

\* A set of at most one member.
LEMMA AtMostOne ==
    ASSUME NEW S, IsFiniteSet(S), Cardinality(S) <= 1
    PROVE  \A x, y \in S : x = y
<1> SUFFICES ASSUME NEW x \in S, NEW y \in S, x # y PROVE FALSE
  OBVIOUS
<1>1. IsFiniteSet(S \ {x}) /\ Cardinality(S \ {x}) = Cardinality(S) - 1
  BY FS_RemoveElement
<1>2. Cardinality(S) \in Nat /\ Cardinality(S \ {x}) \in Nat
  BY <1>1, FS_CardinalityType
<1>3. S \ {x} = {}
  BY <1>1, <1>2, FS_EmptySet
<1> QED
  BY <1>3

\* Where no symbol has two definitions, it is found where it is defined, and no
\* two files define one symbol.
LEMMA OneDefinition ==
    ASSUME CommandShape, \A s \in Symbols : Cardinality(DefinitionsOf(db, s)) <= 1
    PROVE  /\ \A s, d : <<s, d>> \in db.defs => LocationOf(db, s) = d
           /\ \A s \in Defined(db) : <<s, LocationOf(db, s)>> \in db.defs
<1>1. /\ IsDatabase(db) /\ IsFiniteSet(db.docs) /\ db.docs \subseteq Nat
      /\ db.defs \subseteq Symbols \X db.docs
  BY ShapeGives DEF IsDatabase
<1>2. ASSUME NEW s, NEW d, <<s, d>> \in db.defs PROVE LocationOf(db, s) = d
  <2>1. s \in Symbols /\ d \in DefinitionsOf(db, s) /\ d \in Nat
    BY <1>1, <1>2 DEF DefinitionsOf
  <2>2. DefinitionsOf(db, s) \subseteq db.docs
    BY <1>1 DEF DefinitionsOf
  <2>3. IsFiniteSet(DefinitionsOf(db, s))
    BY <1>1, <2>2, FS_Subset
  <2>4. DefinitionsOf(db, s) = {d}
    BY <2>1, <2>3, AtMostOne
  <2>5. Min({d}) = d
    BY <2>1 DEF Min
  <2> QED
    BY <2>4, <2>5 DEF LocationOf
<1>3. ASSUME NEW s \in Defined(db) PROVE <<s, LocationOf(db, s)>> \in db.defs
  <2>1. PICK x \in db.defs : x[1] = s
    BY DEF Defined
  <2>2. x = <<s, x[2]>>
    BY <1>1, <2>1
  <2> QED
    BY <1>2, <2>1, <2>2
<1> QED
  BY <1>2, <1>3

\* A file uses what another defines just when the other is one of its importers.
LEMMA DepsAreImports ==
    ASSUME CommandShape, \A s \in Symbols : Cardinality(DefinitionsOf(db, s)) <= 1,
           NEW d, NEW f, d # f
    PROVE  d \in ImporterPaths(db, FileSymbols(db, f), f) <=>
              DepsFromFile(db, d) \cap FileSymbols(db, f) # {}
<1>1. db.defs \subseteq Symbols \X db.docs
  BY ShapeGives DEF IsDatabase
<1>2. \A g : FileSymbols(db, g) = {s \in Symbols : <<s, g>> \in db.defs}
  BY <1>1 DEF FileSymbols
<1>3. FileSymbols(db, f) \subseteq Defined(db) /\ FileSymbols(db, f) \cap FileSymbols(db, d) = {}
  <2>1. FileSymbols(db, f) \subseteq Defined(db)
    BY DEF FileSymbols, Defined
  <2>2. FileSymbols(db, f) \cap FileSymbols(db, d) = {}
    BY <1>2, OneDefinition
  <2> QED
    BY <2>1, <2>2
<1>4. d \in ImporterPaths(db, FileSymbols(db, f), f) <=>
         \E m \in Uses(db) : m.doc = d /\ m.sym \in FileSymbols(db, f)
  BY DEF ImporterPaths
<1>5. DepsFromFile(db, d) \cap FileSymbols(db, f) # {} <=>
         \E m \in Uses(db) : m.doc = d /\ m.sym \in FileSymbols(db, f)
  BY <1>3 DEF DepsFromFile, Mentioned
<1> QED
  BY <1>4, <1>5

LEMMA AgreementFollows == CommandShape /\ CutsAreTold => CommandsAgree
<1> SUFFICES ASSUME CommandShape, CutsAreTold,
                    \A s \in Symbols : Cardinality(DefinitionsOf(db, s)) <= 1,
                    Scope = NoScope, ~warned, file # NoFile
             PROVE  /\ Done("rdeps") =>
                          ToSet(out) = {d \in db.docs \ {file} :
                                          DepsFromFile(db, d) \cap FileSymbols(db, file) # {}}
                    /\ Done("deps") =>
                          {LocationOf(db, s) : s \in ToSet(out)} =
                             {d \in db.docs \ {file} :
                                file \in ImporterPaths(db, FileSymbols(db, d), d)}
  BY DEF CommandsAgree
<1>1. IsDatabase(db)
  BY ShapeGives
<1>2. \A d, f : d # f => (d \in ImporterPaths(db, FileSymbols(db, f), f) <=>
                            DepsFromFile(db, d) \cap FileSymbols(db, f) # {})
  BY DepsAreImports
<1>3. ASSUME Done("rdeps")
      PROVE  ToSet(out) = {d \in db.docs \ {file} :
                             DepsFromFile(db, d) \cap FileSymbols(db, file) # {}}
  <2>1. ToSet(out) = ImporterPaths(db, FileSymbols(db, file), file)
    BY <1>3 DEF CutsAreTold, Done, Whole
  <2>2. ImporterPaths(db, FileSymbols(db, file), file) \subseteq db.docs \ {file}
    BY <1>1 DEF ImporterPaths, Uses, IsDatabase
  <2> QED
    BY <1>2, <2>1, <2>2
<1>4. ASSUME Done("deps")
      PROVE  {LocationOf(db, s) : s \in ToSet(out)} =
                {d \in db.docs \ {file} :
                   file \in ImporterPaths(db, FileSymbols(db, d), d)}
  <2> DEFINE deps == DepsFromFile(db, file)
  <2>1. ToSet(out) = deps
    BY <1>4 DEF CutsAreTold, Done, Whole
  <2>2. \A s \in deps : s \in Defined(db) /\ s \notin FileSymbols(db, file)
    BY DEF DepsFromFile
  <2>3. \A s, d : <<s, d>> \in db.defs => d \in db.docs /\ LocationOf(db, s) = d
    BY <1>1, OneDefinition DEF IsDatabase
  <2>4. \A s, d : <<s, d>> \in db.defs <=> s \in FileSymbols(db, d)
    BY <1>1 DEF FileSymbols, IsDatabase
  <2> HIDE DEF deps
  <2>5. ASSUME NEW s \in deps
        PROVE  /\ LocationOf(db, s) \in db.docs \ {file}
               /\ file \in ImporterPaths(db, FileSymbols(db, LocationOf(db, s)),
                                        LocationOf(db, s))
    <3> DEFINE d == LocationOf(db, s)
    <3>1. <<s, d>> \in db.defs
      BY <2>2, OneDefinition
    <3> HIDE DEF d
    <3>2. d \in db.docs /\ s \in FileSymbols(db, d) /\ d # file
      BY <2>2, <2>3, <2>4, <3>1
    <3>3. file \in ImporterPaths(db, FileSymbols(db, d), d)
      BY <1>2, <3>2 DEF deps
    <3> QED
      BY <3>2, <3>3 DEF d
  <2>6. ASSUME NEW d \in db.docs \ {file}, file \in ImporterPaths(db, FileSymbols(db, d), d)
        PROVE  \E s \in deps : LocationOf(db, s) = d
    <3>1. PICK s : s \in deps /\ s \in FileSymbols(db, d)
      BY <1>2, <2>6 DEF deps
    <3> QED
      BY <2>3, <2>4, <3>1
  <2> QED
    BY <2>1, <2>5, <2>6
<1> QED
  BY <1>3, <1>4

\* What rdeps and deps print of one index fits together.
THEOREM RdepsMirrorDeps == QuerySpec => []CommandsAgree
<1>1. QueryInit => QueryInv
  BY ShapeAtFirst, OneAtFirst DEF QueryInv
<1>2. QueryInv /\ [QueryNext]_queryVars => QueryInv'
  BY ShapeKept, OnOneKept, CutsStayTold DEF QueryInv
<1>3. QueryInv => CommandsAgree
  BY AgreementFollows DEF QueryInv
<1> QED
  BY <1>1, <1>2, <1>3, PTL DEF QuerySpec

-----------------------------------------------------------------------------
(* References in their order.                                              *)

PairOf(m) == <<m.doc, m.chunk>>
Lex(a, b) == a[1] < b[1] \/ (a[1] = b[1] /\ a[2] < b[2])

RefsOf(s)  == {m \in Uses(db) : m.sym = s /\ InScope(m.doc, Scope)}
PairsOf(s) == {PairOf(m) : m \in RefsOf(s)}
AllRefs(s) == Ordered({<<m.doc, m.chunk>> : m \in ToSet(RefRows(s))},
                      LAMBDA a, b : a[1] < b[1] \/ (a[1] = b[1] /\ a[2] < b[2]))

Rising(some) == \A i, j \in DOMAIN some : i < j => Lex(some[i], some[j])

LEMMA LexOrders ==
    ASSUME NEW T \in SUBSET (Nat \X Nat)
    PROVE  OrdersStrictly({p \in T \X T : Lex(p[1], p[2])}, T)
<1> DEFINE R == {p \in T \X T : Lex(p[1], p[2])}
<1>1. \A x, y \in T : <<x, y>> \in R <=> Lex(x, y)
  OBVIOUS
<1>2. \A x \in T : x = <<x[1], x[2]>> /\ x[1] \in Nat /\ x[2] \in Nat
  OBVIOUS
<1> HIDE DEF R
<1>3. \A x \in T : <<x, x>> \notin R
  BY <1>1, <1>2 DEF Lex
<1>4. \A x, y, z \in T : <<x, y>> \in R /\ <<y, z>> \in R => <<x, z>> \in R
  BY <1>1, <1>2 DEF Lex
<1>5. \A x, y \in T : x = y \/ <<x, y>> \in R \/ <<y, x>> \in R
  <2> SUFFICES ASSUME NEW x \in T, NEW y \in T, ~Lex(x, y), ~Lex(y, x) PROVE x = y
    BY <1>1
  <2>1. x[1] = y[1] /\ x[2] = y[2]
    BY <1>2 DEF Lex
  <2> QED
    BY <1>2, <2>1
<1> QED
  BY <1>3, <1>4, <1>5 DEF OrdersStrictly, R

LEMMA RefsShape ==
    ASSUME CommandShape, NEW s
    PROVE  /\ IsFiniteSet(RefsOf(s)) /\ IsFiniteSet(PairsOf(s))
           /\ PairsOf(s) \subseteq Nat \X Nat
           /\ RefsOf(s) \subseteq [sym : {s}, doc : Nat, chunk : Nat, role : Nat]
<1>1. /\ IsFiniteSet(db.mentions)
      /\ db.mentions \subseteq [sym : Symbols, doc : Nat, chunk : Nat, role : Nat]
  BY ShapeGives
<1>2. RefsOf(s) \subseteq db.mentions
  BY DEF RefsOf, Uses
<1>3. IsFiniteSet(RefsOf(s))
  BY <1>1, <1>2, FS_Subset
<1>4. RefsOf(s) \subseteq [sym : {s}, doc : Nat, chunk : Nat, role : Nat]
  BY <1>1, <1>2 DEF RefsOf
<1>5. PairsOf(s) \subseteq Nat \X Nat
  BY <1>4 DEF PairsOf, PairOf
<1>6. IsFiniteSet(PairsOf(s))
  <2> DEFINE f == [m \in RefsOf(s) |-> PairOf(m)]
  <2>1. f \in Surjection(RefsOf(s), PairsOf(s))
    BY DEF Surjection, PairsOf
  <2> HIDE DEF f
  <2> QED
    BY <1>3, <2>1, FS_Surjection
<1> QED
  BY <1>3, <1>4, <1>5, <1>6

\* The rows of a symbol are ordered by their pairs first.
LEMMA RefRowsSorted ==
    ASSUME CommandShape, NEW s
    PROVE  LET rows == RefRows(s)
           IN  /\ rows \in Seq(RefsOf(s)) /\ ToSet(rows) = RefsOf(s)
               /\ \A i, j \in DOMAIN rows :
                     i < j => PairOf(rows[i]) = PairOf(rows[j])
                              \/ Lex(PairOf(rows[i]), PairOf(rows[j]))
<1> DEFINE S == RefsOf(s)
           Before(a, b) == \/ a.doc < b.doc
                           \/ a.doc = b.doc /\ a.chunk < b.chunk
                           \/ a.doc = b.doc /\ a.chunk = b.chunk /\ a.role < b.role
           R == {p \in S \X S : Before(p[1], p[2])}
           n == Cardinality(S)
           rows == RefRows(s)
<1>1. IsFiniteSet(S) /\ S \subseteq [sym : {s}, doc : Nat, chunk : Nat, role : Nat]
  BY RefsShape
<1> HIDE DEF S
<1>2. \A x, y \in S : <<x, y>> \in R <=> Before(x, y)
  OBVIOUS
<1> HIDE DEF R
<1>3. OrdersStrictly(R, S)
  <2>1. \A x \in S : <<x, x>> \notin R
    BY <1>1, <1>2
  <2>2. \A x, y, z \in S : <<x, y>> \in R /\ <<y, z>> \in R => <<x, z>> \in R
    BY <1>1, <1>2
  <2>3. \A x, y \in S : x = y \/ <<x, y>> \in R \/ <<y, x>> \in R
    <3> SUFFICES ASSUME NEW x \in S, NEW y \in S, ~Before(x, y), ~Before(y, x)
                 PROVE  x = y
      BY <1>2
    <3>1. x.sym = y.sym /\ x.doc = y.doc /\ x.chunk = y.chunk /\ x.role = y.role
      BY <1>1
    <3> QED
      BY <1>1, <3>1
  <2> QED
    BY <2>1, <2>2, <2>3 DEF OrdersStrictly
<1>4. \A r \in S : Cardinality({q \in S : Before(q, r)}) = Rank(S, R, r)
  <2> SUFFICES ASSUME NEW r \in S PROVE {q \in S : Before(q, r)} = {y \in S : <<y, r>> \in R}
    BY DEF Rank
  <2> QED
    BY <1>2
<1>5. \A i \in 1..n : \E r \in S : Cardinality({q \in S : Before(q, r)}) = i - 1
  BY <1>1, <1>3, <1>4, RanksTell
<1> DEFINE At(i) == CHOOSE r \in S : Cardinality({q \in S : Before(q, r)}) = i - 1
<1>6. rows \in [1..n -> S] /\ \A i \in 1..n : Rank(S, R, rows[i]) = i - 1
  <2>1. \A i \in 1..n : At(i) \in S /\ Cardinality({q \in S : Before(q, At(i))}) = i - 1
    BY <1>5
  <2>2. rows = [i \in 1..n |-> At(i)]
    BY DEF RefRows, Ordered, RefsOf, S
  <2> HIDE DEF At, rows
  <2> QED
    BY <1>4, <2>1, <2>2
<1> HIDE DEF rows
<1>7. n \in Nat /\ n = Cardinality(S)
  BY <1>1, FS_CardinalityType
<1> HIDE DEF n
<1>8. /\ rows \in Seq(S) /\ Len(rows) = n /\ ToSet(rows) = S
      /\ \A i, j \in 1..n : i < j => <<rows[i], rows[j]>> \in R
  <2>1. IsFiniteSet(S)
    BY <1>1
  <2>2. Ranked(rows, S, R)
    BY <1>3, <1>6, <1>7, <2>1 DEF Ranked
  <2> QED
    BY <1>7, <2>2, RankedRows DEF InOrder
<1>10. DOMAIN rows = 1..n
  BY <1>6
<1>12. ASSUME NEW i \in 1..n, NEW j \in 1..n, i < j
       PROVE  PairOf(rows[i]) = PairOf(rows[j]) \/ Lex(PairOf(rows[i]), PairOf(rows[j]))
  <2>1. rows[i] \in S /\ rows[j] \in S /\ Before(rows[i], rows[j])
    BY <1>2, <1>6, <1>8, <1>12
  <2> QED
    BY <2>1 DEF PairOf, Lex
<1> QED
  BY <1>8, <1>10, <1>12 DEF S, rows

PairOrder(s) == {p \in PairsOf(s) \X PairsOf(s) : Lex(p[1], p[2])}

LEMMA AllRefsRanked ==
    ASSUME CommandShape, NEW s
    PROVE  Ranked(AllRefs(s), PairsOf(s), PairOrder(s))
<1> DEFINE T == PairsOf(s)
           R == PairOrder(s)
           n == Cardinality(T)
           At(i) == CHOOSE r \in T : Cardinality({q \in T : Lex(q, r)}) = i - 1
<1>1. IsFiniteSet(T) /\ T \subseteq Nat \X Nat
  BY RefsShape
<1>2. OrdersStrictly(R, T)
  BY <1>1, LexOrders DEF PairOrder
<1>3. \A x, y \in T : <<x, y>> \in R <=> Lex(x, y)
  BY DEF PairOrder
<1>4. {<<m.doc, m.chunk>> : m \in ToSet(RefRows(s))} = T
  BY RefRowsSorted DEF PairsOf, PairOf
<1> HIDE DEF T, R
<1>5. \A r \in T : Cardinality({q \in T : Lex(q, r)}) = Rank(T, R, r)
  <2> SUFFICES ASSUME NEW r \in T PROVE {q \in T : Lex(q, r)} = {y \in T : <<y, r>> \in R}
    BY DEF Rank
  <2> QED
    BY <1>3
<1>6. \A i \in 1..n : \E r \in T : Cardinality({q \in T : Lex(q, r)}) = i - 1
  BY <1>1, <1>2, <1>5, RanksTell
<1>7. \A i \in 1..n : At(i) \in T /\ Cardinality({q \in T : Lex(q, At(i))}) = i - 1
  BY <1>6
<1>8. AllRefs(s) = [i \in 1..n |-> At(i)]
  <2> DEFINE U == {<<m.doc, m.chunk>> : m \in ToSet(RefRows(s))}
  <2>1. AllRefs(s) = [i \in 1..Cardinality(U) |->
                        CHOOSE r \in U : Cardinality({q \in U : Lex(q, r)}) = i - 1]
    BY DEF AllRefs, Ordered, Lex
  <2> HIDE DEF U
  <2> QED
    BY <1>4, <2>1, Zenon DEF U
<1> HIDE DEF At
<1>9. /\ AllRefs(s) \in [1..n -> T]
      /\ \A i \in 1..n : Rank(T, R, AllRefs(s)[i]) = i - 1
  BY <1>5, <1>7, <1>8
<1> QED
  BY <1>1, <1>2, <1>9 DEF Ranked, T, R

\* Pairs in order that are those of the first rows are the first of all pairs.
LEMMA PairsOfFirstRows ==
    ASSUME CommandShape, NEW s, NEW e \in Nat, e <= Len(RefRows(s)),
           NEW some \in Seq(PairsOf(s)), Rising(some),
           ToSet(some) = {PairOf(RefRows(s)[k]) : k \in 1..e}
    PROVE  /\ Leads(some, PairsOf(s), PairOrder(s))
           /\ e = Len(RefRows(s)) => ToSet(some) = PairsOf(s)
<1> DEFINE rows == RefRows(s)
           T == PairsOf(s)
<1>1. /\ rows \in Seq(RefsOf(s)) /\ ToSet(rows) = RefsOf(s)
      /\ \A i, j \in DOMAIN rows : i < j => \/ PairOf(rows[i]) = PairOf(rows[j])
                                          \/ Lex(PairOf(rows[i]), PairOf(rows[j]))
  BY RefRowsSorted
<1>2. Len(rows) \in Nat /\ DOMAIN rows = 1..Len(rows) /\ e <= Len(rows)
  BY <1>1, LenProperties
<1>3. Len(some) \in Nat /\ DOMAIN some = 1..Len(some)
  BY LenProperties
<1>4. \A x, y \in T : <<x, y>> \in PairOrder(s) <=> Lex(x, y)
  BY DEF PairOrder
<1>5. T \subseteq Nat \X Nat
  BY RefsShape
<1>6. T = {PairOf(rows[k]) : k \in DOMAIN rows}
  BY <1>1 DEF PairsOf, ToSet
<1>7. ToSet(some) = {PairOf(rows[k]) : k \in 1..e}
  OBVIOUS
<1> HIDE DEF T, rows
<1>8. \A i \in 1..Len(some) : some[i] \in T
  BY <1>3 DEF T
<1>9. \A i, j \in 1..Len(some) : i < j => <<some[i], some[j]>> \in PairOrder(s)
  BY <1>3, <1>4, <1>8 DEF Rising
<1>10. ASSUME NEW x \in T, NEW i \in 1..Len(some), <<x, some[i]>> \in PairOrder(s)
       PROVE  \E k \in 1..Len(some) : some[k] = x
  <2>1. Lex(x, some[i])
    BY <1>4, <1>8, <1>10
  <2>2. PICK k \in 1..Len(rows) : x = PairOf(rows[k])
    BY <1>2, <1>6
  <2>3. PICK l \in 1..e : some[i] = PairOf(rows[l])
    BY <1>3, <1>7 DEF ToSet
  <2>4. l \in 1..Len(rows)
    BY <1>2
  <2>5. ASSUME l < k PROVE FALSE
    <3>1. some[i] = x \/ Lex(some[i], x)
      BY <1>1, <1>2, <2>2, <2>3, <2>4, <2>5
    <3>2. x \in Nat \X Nat /\ some[i] \in Nat \X Nat
      BY <1>5, <1>8
    <3> QED
      BY <2>1, <3>1, <3>2 DEF Lex
  <2>6. k \in 1..e
    BY <1>2, <2>4, <2>5
  <2> QED
    BY <1>3, <1>7, <2>2, <2>6 DEF ToSet
<1>11. e = Len(rows) => ToSet(some) = T
  BY <1>2, <1>6, <1>7
<1>12. Leads(some, T, PairOrder(s))
  BY <1>9, <1>10 DEF Leads, T
<1> QED
  BY <1>11, <1>12 DEF T, rows

LEMMA BatchIsRows ==
    ASSUME CommandShape, NEW s, offset \in 0..Len(RefRows(s))
    PROVE  /\ Batch(s) \in Seq(RefsOf(s)) /\ Len(Batch(s)) \in Nat
           /\ offset + Len(Batch(s)) <= Len(RefRows(s))
           /\ \A i \in 1..Len(Batch(s)) : Batch(s)[i] = RefRows(s)[offset + i]
           /\ IsLast(Batch(s)) => offset + Len(Batch(s)) = Len(RefRows(s))
<1> DEFINE rows == RefRows(s)
           n == Len(rows)
           last == IF offset + BatchSize <= n THEN offset + BatchSize ELSE n
<1>1. rows \in Seq(RefsOf(s))
  BY RefRowsSorted
<1>2. n \in Nat /\ offset \in Nat /\ offset <= n
  BY <1>1, LenProperties
<1>3. BatchSize \in Nat \ {0}
  <2>1. Limit * 3 \in Nat /\ MinBatch \in Nat \ {0}
    BY QueryAssumption, ShapeGives
  <2>2. ASSUME NEW a \in Nat, NEW b \in Nat \ {0} PROVE Max({a, b}) \in Nat \ {0}
    <3>1. \E x \in {a, b} : \A y \in {a, b} : x >= y
      BY <2>2
    <3>2. Max({a, b}) \in {a, b} /\ \A y \in {a, b} : Max({a, b}) >= y
      BY <3>1 DEF Max
    <3> QED
      BY <3>2
  <2> QED
    BY <2>1, <2>2 DEF BatchSize
<1>4. Min({offset + BatchSize, n}) = last
  <2>1. last \in {offset + BatchSize, n} /\ \A y \in {offset + BatchSize, n} : last <= y
    BY <1>2, <1>3
  <2>2. \A x \in {offset + BatchSize, n} :
           (\A y \in {offset + BatchSize, n} : x <= y) => x = last
    BY <1>2, <1>3
  <2> HIDE DEF last, n
  <2> QED
    BY <2>1, <2>2 DEF Min
<1>5. Batch(s) = SubSeq(rows, offset + 1, last)
  BY <1>4 DEF Batch
<1>6. last \in Nat /\ offset <= last /\ last <= n
  BY <1>2, <1>3
<1>7. \A i \in (offset + 1)..last : rows[i] \in RefsOf(s)
  BY <1>1, <1>2, <1>6
<1>8. last < offset + BatchSize => last = n
  BY <1>2, <1>3
<1> HIDE DEF rows, n, last
<1>9. /\ Batch(s) \in Seq(RefsOf(s)) /\ Len(Batch(s)) = last - offset
      /\ \A i \in 1..(last - offset) : Batch(s)[i] = rows[offset + i]
  <2>1. /\ offset + 1 \in Int /\ last \in Int /\ last - (offset + 1) + 1 = last - offset
        /\ \A i \in 1..(last - offset) : (offset + 1) + i - 1 = offset + i
    BY <1>2, <1>6
  <2>2. /\ Batch(s) \in Seq(RefsOf(s))
        /\ Len(Batch(s)) = IF offset + 1 <= last THEN last - (offset + 1) + 1 ELSE 0
        /\ \A i \in 1..(last - (offset + 1) + 1) : Batch(s)[i] = rows[(offset + 1) + i - 1]
    BY <1>5, <1>7, <2>1, SubSeqProperties
  <2> QED
    BY <1>2, <1>6, <2>1, <2>2
<1>10. IsLast(Batch(s)) => last = n
  BY <1>2, <1>3, <1>6, <1>8, <1>9 DEF IsLast
<1> QED
  BY <1>2, <1>6, <1>9, <1>10 DEF rows, n

\* The pairs of one more batch, added to those of the rows before it.
Added(s) == Distinct(refs \o [i \in DOMAIN Batch(s) |->
                                 <<Batch(s)[i].doc, Batch(s)[i].chunk>>])

LEMMA BatchAdds ==
    ASSUME CommandShape, NEW s, offset \in 0..Len(RefRows(s)),
           refs \in Seq(PairsOf(s)), Rising(refs),
           ToSet(refs) = {PairOf(RefRows(s)[k]) : k \in 1..offset}
    PROVE  /\ Added(s) \in Seq(PairsOf(s)) /\ Rising(Added(s))
           /\ ToSet(Added(s)) =
                 {PairOf(RefRows(s)[k]) : k \in 1..(offset + Len(Batch(s)))}
<1> DEFINE rows == RefRows(s)
           T == PairsOf(s)
           batch == Batch(s)
           b == Len(batch)
           pairs == [i \in DOMAIN batch |-> <<batch[i].doc, batch[i].chunk>>]
           both == refs \o pairs
           r == Len(refs)
<1>1. /\ rows \in Seq(RefsOf(s)) /\ ToSet(rows) = RefsOf(s)
      /\ \A i, j \in DOMAIN rows : i < j => \/ PairOf(rows[i]) = PairOf(rows[j])
                                          \/ Lex(PairOf(rows[i]), PairOf(rows[j]))
  BY RefRowsSorted
<1>2. Len(rows) \in Nat /\ DOMAIN rows = 1..Len(rows) /\ offset \in Nat
  BY <1>1, LenProperties
<1>3. /\ batch \in Seq(RefsOf(s)) /\ b \in Nat /\ offset + b <= Len(rows)
      /\ \A i \in 1..b : batch[i] = rows[offset + i]
  BY BatchIsRows
<1>4. T \subseteq Nat \X Nat
  BY RefsShape
<1>5. \A k \in 1..Len(rows) : PairOf(rows[k]) \in T
  BY <1>1, <1>2 DEF PairsOf
<1>6. r \in Nat /\ DOMAIN refs = 1..r /\ \A i \in 1..r : refs[i] \in T
  BY LenProperties
<1>7. ToSet(refs) = {PairOf(rows[k]) : k \in 1..offset}
  OBVIOUS
<1>8. DOMAIN batch = 1..b
  BY <1>3, LenProperties
<1> HIDE DEF rows, T, batch, b
<1>9. /\ pairs \in Seq(T) /\ Len(pairs) = b
      /\ \A i \in 1..b : pairs[i] = PairOf(rows[offset + i])
  <2>1. \A i \in 1..b : offset + i \in 1..Len(rows)
    BY <1>2, <1>3
  <2>2. pairs = [i \in 1..b |-> PairOf(rows[offset + i])]
    BY <1>3, <1>8 DEF PairOf
  <2> HIDE DEF pairs
  <2> QED
    BY <1>3, <1>5, <2>1, <2>2
<1> HIDE DEF pairs
<1>10. /\ both \in Seq(T) /\ Len(both) = r + b
       /\ \A i \in 1..(r + b) : both[i] = IF i <= r THEN refs[i] ELSE pairs[i - r]
  <2>1. refs \in Seq(T)
    BY DEF T
  <2> QED
    BY <1>9, <2>1, ConcatProperties
<1>11. DOMAIN both = 1..(r + b)
  BY <1>10, LenProperties
<1> HIDE DEF both, r
<1>12. ToSet(both) = {PairOf(rows[k]) : k \in 1..(offset + b)}
  <2>1. ASSUME NEW i \in 1..(r + b)
        PROVE  \E k \in 1..(offset + b) : both[i] = PairOf(rows[k])
    <3>1. CASE i <= r
      <4>1. i \in DOMAIN refs /\ both[i] = refs[i]
        BY <1>6, <1>10, <3>1
      <4>2. refs[i] \in {PairOf(rows[k]) : k \in 1..offset}
        BY <1>7, <4>1 DEF ToSet
      <4>3. 1..offset \subseteq 1..(offset + b)
        BY <1>2, <1>3
      <4> QED
        BY <4>1, <4>2, <4>3
    <3>2. CASE ~(i <= r)
      <4>1. i - r \in 1..b /\ offset + (i - r) \in 1..(offset + b)
        BY <1>2, <1>3, <1>6, <3>2
      <4> QED
        BY <1>9, <1>10, <3>2, <4>1
    <3> QED
      BY <3>1, <3>2
  <2>2. ASSUME NEW k \in 1..(offset + b)
        PROVE  \E i \in 1..(r + b) : both[i] = PairOf(rows[k])
    <3>1. CASE k <= offset
      <4>1. PairOf(rows[k]) \in ToSet(refs)
        <5>1. k \in 1..offset
          BY <1>2, <1>3, <3>1
        <5> QED
          BY <1>7, <5>1
      <4>2. PICK i \in 1..r : refs[i] = PairOf(rows[k])
        BY <1>6, <4>1 DEF ToSet
      <4>3. i \in 1..(r + b) /\ i <= r
        BY <1>3, <1>6
      <4> QED
        BY <1>10, <4>2, <4>3
    <3>2. CASE ~(k <= offset)
      <4> DEFINE i == r + (k - offset)
      <4>1. /\ k - offset \in 1..b /\ i \in 1..(r + b) /\ ~(i <= r)
            /\ i - r = k - offset /\ offset + (k - offset) = k
        BY <1>2, <1>3, <1>6, <3>2
      <4>2. both[i] = pairs[k - offset] /\ pairs[k - offset] = PairOf(rows[k])
        BY <1>9, <1>10, <4>1
      <4> QED
        BY <4>1, <4>2
    <3> QED
      BY <3>1, <3>2
  <2>3. ToSet(both) = {both[i] : i \in 1..(r + b)}
    BY <1>11 DEF ToSet
  <2> QED
    BY ONLY <2>1, <2>2, <2>3
<1>13. \A i, j \in 1..(r + b) : i < j => both[i] = both[j] \/ Lex(both[i], both[j])
  <2> SUFFICES ASSUME NEW i \in 1..(r + b), NEW j \in 1..(r + b), i < j
               PROVE  both[i] = both[j] \/ Lex(both[i], both[j])
    OBVIOUS
  <2>1. CASE j <= r
    <3>1. i \in 1..r /\ j \in 1..r /\ both[i] = refs[i] /\ both[j] = refs[j]
      BY <1>3, <1>6, <1>10, <2>1
    <3> QED
      BY <1>6, <3>1 DEF Rising
  <2>2. CASE ~(j <= r)
    <3> DEFINE l == offset + (j - r)
    <3>1. /\ j - r \in 1..b /\ l \in 1..Len(rows)
      BY <1>2, <1>3, <1>6, <2>2
    <3>2. both[j] = PairOf(rows[l])
      BY <1>9, <1>10, <2>2, <3>1
    <3>3. PICK k \in 1..Len(rows) : k < l /\ both[i] = PairOf(rows[k])
      <4>1. CASE i <= r
        <5>1. i \in DOMAIN refs /\ both[i] = refs[i]
          BY <1>6, <1>10, <4>1
        <5>2. PICK k \in 1..offset : refs[i] = PairOf(rows[k])
          BY <1>7, <5>1 DEF ToSet
        <5>3. k \in 1..Len(rows) /\ k < l
          BY <1>2, <1>3, <3>1
        <5> QED
          BY <5>1, <5>2, <5>3
      <4>2. CASE ~(i <= r)
        <5> DEFINE k == offset + (i - r)
        <5>1. i - r \in 1..b /\ k \in 1..Len(rows) /\ k < l
          BY <1>2, <1>3, <1>6, <4>2
        <5>2. both[i] = PairOf(rows[k])
          BY <1>9, <1>10, <4>2, <5>1
        <5> QED
          BY <5>1, <5>2
      <4> QED
        BY <4>1, <4>2
    <3> QED
      BY <1>1, <1>2, <3>1, <3>2, <3>3
  <2> QED
    BY <2>1, <2>2
<1> DEFINE D == Distinct(both)
<1>14. /\ D \in Seq(T) /\ ToSet(D) = ToSet(both) /\ IsInjective(D)
       /\ \E at \in [DOMAIN D -> DOMAIN both] :
             /\ \A i \in DOMAIN D : D[i] = both[at[i]]
             /\ \A i, j \in DOMAIN D : i < j => at[i] < at[j]
  BY <1>10, DistinctRows
<1> HIDE DEF D
<1>15. Rising(D)
  <2>1. PICK at \in [DOMAIN D -> DOMAIN both] :
             /\ \A i \in DOMAIN D : D[i] = both[at[i]]
             /\ \A i, j \in DOMAIN D : i < j => at[i] < at[j]
    BY <1>14
  <2> SUFFICES ASSUME NEW i \in DOMAIN D, NEW j \in DOMAIN D, i < j
               PROVE  Lex(D[i], D[j])
    BY DEF Rising
  <2>2. D[i] = D[j] \/ Lex(D[i], D[j])
    BY <1>11, <1>13, <2>1
  <2>3. D[i] # D[j]
    <3>1. i # j
      BY <1>14, LenProperties
    <3> QED
      BY <1>14, <3>1 DEF IsInjective
  <2> QED
    BY <2>2, <2>3
<1>16. Added(s) = D
  BY DEF Added, D, both, pairs, batch
<1> QED
  BY <1>12, <1>14, <1>15, <1>16 DEF T, rows, b, batch

\* Between two batches, refs has the pairs of the rows that were read, and room
\* for more; when it is done with a symbol, the first pairs of all.
RefsSoFar ==
    command.verb = "refs" =>
       /\ step \in {"resolve", "refs", "print refs", "done"}
       /\ step = "resolve" => refs = <<>> /\ offset = 0
       /\ step = "refs" => (refs = <<>> /\ offset = 0) \/ syms # <<>>
       /\ step = "refs" /\ syms # <<>> =>
             /\ offset \in 0..Len(RefRows(Head(syms)))
             /\ refs \in Seq(PairsOf(Head(syms))) /\ Rising(refs) /\ Len(refs) <= Limit
             /\ ToSet(refs) = {PairOf(RefRows(Head(syms))[k]) : k \in 1..offset}
       /\ step = "print refs" =>
             /\ Cut(refs) = Cut(AllRefs(Head(syms)))
             /\ TooMany(refs) = TooMany(AllRefs(Head(syms)))
       /\ \E S : out \in Seq(S)

\* A symbol that no batch was read of.
LEMMA NothingRead ==
    ASSUME CommandShape, NEW s
    PROVE  /\ 0 \in 0..Len(RefRows(s))
           /\ <<>> \in Seq(PairsOf(s)) /\ Rising(<<>>) /\ Len(<<>>) <= Limit
           /\ ToSet(<<>>) = {PairOf(RefRows(s)[k]) : k \in 1..0}
<1>1. Len(RefRows(s)) \in Nat
  BY RefRowsSorted, LenProperties
<1>2. Limit \in Nat
  BY ShapeGives
<1> QED
  BY <1>1, <1>2 DEF Rising, ToSet

LEMMA BatchKeepsRefs ==
    ASSUME CommandShape, RefsSoFar, ReadBatch, command.verb = "refs"
    PROVE  LET s == Head(syms)
           IN  \/ /\ step' = "refs" /\ offset' \in 0..Len(RefRows(s))
                  /\ refs' \in Seq(PairsOf(s)) /\ Rising(refs') /\ Len(refs') <= Limit
                  /\ ToSet(refs') = {PairOf(RefRows(s)[k]) : k \in 1..offset'}
               \/ /\ step' = "print refs"
                  /\ Cut(refs') = Cut(AllRefs(s)) /\ TooMany(refs') = TooMany(AllRefs(s))
<1> DEFINE s == Head(syms)
           D == Added(s)
           all == AllRefs(s)
           e == offset + Len(Batch(s))
           rows == RefRows(s)
           T == PairsOf(s)
<1>1. step = "refs" /\ syms # <<>>
  BY DEF ReadBatch
<1>2. /\ offset \in 0..Len(rows) /\ refs \in Seq(T) /\ Rising(refs) /\ Len(refs) <= Limit
      /\ ToSet(refs) = {PairOf(rows[k]) : k \in 1..offset}
  BY <1>1 DEF RefsSoFar
<1>3. /\ refs' = Prefix(D, Limit + 1)
      /\ IF TooMany(refs') \/ IsLast(Batch(s)) THEN step' = "print refs"
         ELSE offset' = e /\ step' = step
  BY DEF ReadBatch, Added
<1>5. TooMany(refs') <=> Len(refs') > Limit
  BY DEF TooMany
<1>6. Limit \in Nat
  BY ShapeGives
<1> HIDE DEF s
<1>7. D \in Seq(T) /\ Rising(D) /\ ToSet(D) = {PairOf(rows[k]) : k \in 1..e}
  BY <1>2, BatchAdds
<1>8. /\ e \in Nat /\ e <= Len(rows) /\ Len(rows) \in Nat
      /\ IsLast(Batch(s)) => e = Len(rows)
  <2>1. Len(rows) \in Nat
    BY RefRowsSorted, LenProperties
  <2> QED
    BY <1>2, <2>1, BatchIsRows
<1>9. Ranked(all, T, PairOrder(s))
  BY AllRefsRanked
<1>10. Leads(D, T, PairOrder(s)) /\ (e = Len(rows) => ToSet(D) = T)
  BY <1>7, <1>8, PairsOfFirstRows
<1> HIDE DEF D, all, T, rows, e
<1>11. all \in Seq(T)
  BY <1>9, RankedRows DEF InOrder
<1>12. Len(D) <= Len(all) /\ (\A i \in 1..Len(D) : D[i] = all[i]) /\ (ToSet(D) = T => D = all)
  BY <1>9, <1>10, LeadingRows
<1>13. Len(D) \in Nat /\ Len(all) \in Nat
  BY <1>7, <1>11, LenProperties
<1>14. /\ refs' \in Seq(T) /\ Len(refs') = IF Limit + 1 <= Len(D) THEN Limit + 1 ELSE Len(D)
       /\ \A i \in 1..Len(refs') : refs'[i] = D[i]
       /\ Len(D) <= Limit + 1 => refs' = D
  <2>1. Limit + 1 \in Nat
    BY <1>6
  <2> QED
    BY <1>3, <1>7, <2>1, FirstRows
<1>15. CASE TooMany(refs') \/ IsLast(Batch(s))
  <2>1. CASE Len(D) > Limit
    <3>1. Len(refs') = Limit + 1 /\ Len(all) > Limit
      BY <1>6, <1>12, <1>13, <1>14, <2>1
    <3>2. \A i \in 1..Limit : refs'[i] = all[i]
      <4> SUFFICES ASSUME NEW i \in 1..Limit PROVE refs'[i] = all[i]
        OBVIOUS
      <4>1. i \in 1..Len(refs') /\ i \in 1..Len(D)
        BY <1>6, <1>13, <2>1, <3>1
      <4> QED
        BY <1>12, <1>14, <4>1
    <3>3. /\ Prefix(refs', Limit) \in Seq(T) /\ Len(Prefix(refs', Limit)) = Limit
          /\ \A i \in 1..Limit : Prefix(refs', Limit)[i] = refs'[i]
      BY <1>6, <1>14, <3>1, FirstRows
    <3>4. /\ Prefix(all, Limit) \in Seq(T) /\ Len(Prefix(all, Limit)) = Limit
          /\ \A i \in 1..Limit : Prefix(all, Limit)[i] = all[i]
      BY <1>6, <1>11, <1>13, <3>1, FirstRows
    <3>5. Prefix(refs', Limit) = Prefix(all, Limit)
      BY <3>2, <3>3, <3>4, SeqEqual
    <3>6. Len(refs') > Limit
      BY <1>6, <3>1
    <3> QED
      BY <1>3, <1>15, <3>1, <3>5, <3>6 DEF Cut, TooMany, s, all
  <2>2. CASE ~(Len(D) > Limit)
    <3>1. refs' = D /\ ~(Len(refs') > Limit)
      BY <1>6, <1>13, <1>14, <2>2
    <3>2. D = all
      BY <1>5, <1>8, <1>10, <1>12, <1>15, <3>1
    <3> QED
      BY <1>3, <1>15, <3>1, <3>2 DEF s, all
  <2> QED
    BY <2>1, <2>2
<1>16. CASE ~(TooMany(refs') \/ IsLast(Batch(s)))
  <2>1. Len(refs') <= Limit
    BY <1>5, <1>6, <1>13, <1>14, <1>16
  <2>2. refs' = D
    BY <1>6, <1>13, <1>14, <2>1
  <2>3. step' = "refs" /\ offset' = e /\ e \in 0..Len(rows)
    BY <1>1, <1>3, <1>8, <1>16
  <2>4. /\ step' = "refs" /\ offset' \in 0..Len(rows)
        /\ refs' \in Seq(T) /\ Rising(refs') /\ Len(refs') <= Limit
        /\ ToSet(refs') = {PairOf(rows[k]) : k \in 1..offset'}
    BY <1>7, <2>1, <2>2, <2>3
  <2> QED
    BY <2>4 DEF s, T, rows
<1> QED
  BY <1>15, <1>16

FirstRefs == command.verb = "refs" =>
                \A i \in DOMAIN out : /\ out[i].refs = Cut(AllRefs(out[i].sym))
                                      /\ out[i].cut = TooMany(AllRefs(out[i].sym))

LEMMA FirstRefsMeans == FirstRefs <=> RefsAreTheFirst
  BY DEF FirstRefs, RefsAreTheFirst, AllRefs

LEMMA RefsAtFirst == QueryInit => RefsSoFar /\ FirstRefs
<1> SUFFICES ASSUME QueryInit PROVE RefsSoFar /\ FirstRefs
  OBVIOUS
<1>1. step = "resolve" /\ refs = <<>> /\ offset = 0 /\ out = <<>>
  BY DEF QueryInit, Start
<1>2. \E S : out \in Seq(S)
  <2>1. out \in Seq({})
    BY <1>1
  <2> QED
    BY <2>1
<1> QED
  BY <1>1, <1>2 DEF RefsSoFar, FirstRefs

LEMMA RefsKept ==
    ASSUME CommandShape, RefsSoFar, FirstRefs, [QueryNext]_queryVars
    PROVE  RefsSoFar' /\ FirstRefs'
<1>1. command' = command /\ db' = db
  BY DEF QueryNext, queryVars, workVars, ResolvePattern, PrintResolved, SearchLike,
     ResolveName, NamesResolved, ReadBatch, EndRefs, RefsDone, PrintCode, ResolveTheFile,
     SymbolsMain, RdepsMain, DepsOfFile, ResolveTheSymbol, DepsOfSymbol, MembersMain
<1> SUFFICES ASSUME command.verb = "refs"
             PROVE  RefsSoFar' /\ FirstRefs'
  BY <1>1 DEF RefsSoFar, FirstRefs
<1>2. Limit' = Limit /\ Scope' = Scope
  BY <1>1 DEF Limit, Scope
<1>3. \A s : RefRows(s)' = RefRows(s)
  BY <1>1, <1>2 DEF RefRows, Ordered, Uses
<1>4. \A s : PairsOf(s)' = PairsOf(s)
  BY <1>1, <1>2 DEF PairsOf, RefsOf, Uses
<1>5. \A s : AllRefs(s)' = AllRefs(s)
  BY <1>1, <1>2 DEF AllRefs, RefRows, Ordered, Uses
<1>6. (\A rows : Cut(rows)' = Cut(rows)) /\ (\A rows : TooMany(rows)' = TooMany(rows))
  BY <1>2 DEF Cut, TooMany
<1>7. /\ step \in {"resolve", "refs", "print refs", "done"}
      /\ step = "resolve" => refs = <<>> /\ offset = 0
      /\ step = "refs" => (refs = <<>> /\ offset = 0) \/ syms # <<>>
      /\ step = "refs" /\ syms # <<>> =>
            /\ offset \in 0..Len(RefRows(Head(syms)))
            /\ refs \in Seq(PairsOf(Head(syms))) /\ Rising(refs) /\ Len(refs) <= Limit
            /\ ToSet(refs) = {PairOf(RefRows(Head(syms))[k]) : k \in 1..offset}
      /\ step = "print refs" =>
            /\ Cut(refs) = Cut(AllRefs(Head(syms)))
            /\ TooMany(refs) = TooMany(AllRefs(Head(syms)))
      /\ \E S : out \in Seq(S)
  BY DEF RefsSoFar
<1>8. \A i \in DOMAIN out : /\ out[i].refs = Cut(AllRefs(out[i].sym))
                           /\ out[i].cut = TooMany(AllRefs(out[i].sym))
  BY DEF FirstRefs
<1>9. ASSUME out' = out PROVE FirstRefs' /\ \E S : out' \in Seq(S)
  BY <1>1, <1>5, <1>6, <1>7, <1>8, <1>9 DEF FirstRefs, Cut, TooMany
<1>10. CASE ReadBatch
  <2>1. syms' = syms /\ out' = out /\ syms # <<>>
    BY <1>10 DEF ReadBatch
  <2>2. FirstRefs' /\ \E S : out' \in Seq(S)
    BY <1>9, <2>1
  <2> DEFINE s == Head(syms)
  <2>3. Head(syms') = s
    BY <2>1
  <2>4. CASE /\ step' = "refs" /\ offset' \in 0..Len(RefRows(s))
             /\ refs' \in Seq(PairsOf(s)) /\ Rising(refs') /\ Len(refs') <= Limit
             /\ ToSet(refs') = {PairOf(RefRows(s)[k]) : k \in 1..offset'}
    <3> HIDE DEF s
    <3> QED
      BY <1>2, <1>3, <1>4, <2>1, <2>2, <2>3, <2>4 DEF RefsSoFar, Rising
  <2>5. CASE /\ step' = "print refs"
             /\ Cut(refs') = Cut(AllRefs(s)) /\ TooMany(refs') = TooMany(AllRefs(s))
    <3> HIDE DEF s
    <3>1. Cut(refs)' = Cut(AllRefs(s)) /\ TooMany(refs)' = TooMany(AllRefs(s))
      BY <1>2, <2>5 DEF Cut, TooMany
    <3>2. Cut(AllRefs(Head(syms)))' = Cut(AllRefs(s))
          /\ TooMany(AllRefs(Head(syms)))' = TooMany(AllRefs(s))
      BY <1>2, <1>5, <2>3 DEF Cut, TooMany
    <3> QED
      BY <2>2, <2>5, <3>1, <3>2 DEF RefsSoFar
  <2> QED
    BY <1>10, <2>4, <2>5, BatchKeepsRefs
<1>11. CASE EndRefs
  <2> DEFINE s == Head(syms)
             group == [sym |-> s, refs |-> Cut(refs), cut |-> TooMany(refs)]
  <2>1. /\ step = "print refs" /\ step' = "refs" /\ refs' = <<>> /\ offset' = 0
        /\ out' = IF refs = <<>> THEN out ELSE Append(out, group)
    BY <1>11 DEF EndRefs
  <2>2. /\ group.sym = s /\ group.refs = Cut(AllRefs(s))
        /\ group.cut = TooMany(AllRefs(s))
    BY <1>7, <2>1
  <2> HIDE DEF s, group
  <2>3. FirstRefs' /\ \E S : out' \in Seq(S)
    <3>1. CASE refs = <<>>
      BY <1>9, <2>1, <3>1
    <3>2. CASE refs # <<>>
      <4>1. PICK S : out \in Seq(S)
        BY <1>7
      <4>2. out \in Seq(S \cup {group}) /\ Len(out) \in Nat /\ DOMAIN out = 1..Len(out)
        BY <4>1, LenProperties
      <4>3. out' = Append(out, group)
        BY <2>1, <3>2
      <4>4. /\ out' \in Seq(S \cup {group}) /\ Len(out') = Len(out) + 1
            /\ \A i \in 1..Len(out) : out'[i] = out[i]
            /\ out'[Len(out) + 1] = group
        BY <4>2, <4>3, AppendProperties
      <4>5. DOMAIN out' = 1..(Len(out) + 1)
        BY <4>4, LenProperties
      <4>6. ASSUME NEW i \in DOMAIN out'
            PROVE  /\ out'[i].refs = Cut(AllRefs(out'[i].sym))
                   /\ out'[i].cut = TooMany(AllRefs(out'[i].sym))
        <5>1. CASE i = Len(out) + 1
          BY <2>2, <4>4, <5>1
        <5>2. CASE i # Len(out) + 1
          <6>1. i \in DOMAIN out /\ out'[i] = out[i]
            BY <4>2, <4>4, <4>5, <5>2
          <6> QED
            BY <1>8, <6>1
        <5> QED
          BY <5>1, <5>2
      <4>7. FirstRefs'
        BY <1>2, <1>5, <4>6 DEF FirstRefs, Cut, TooMany
      <4> QED
        BY <4>4, <4>7
    <3> QED
      BY <3>1, <3>2
  <2>4. /\ 0 \in 0..Len(RefRows(Head(syms')))
        /\ <<>> \in Seq(PairsOf(Head(syms'))) /\ Rising(<<>>) /\ Len(<<>>) <= Limit
        /\ ToSet(<<>>) = {PairOf(RefRows(Head(syms'))[k]) : k \in 1..0}
    BY NothingRead
  <2> QED
    BY <1>2, <1>3, <1>4, <2>1, <2>3, <2>4 DEF RefsSoFar, Rising
<1>12. CASE NamesResolved
  <2>1. step = "resolve" /\ step' = "refs" /\ UNCHANGED <<syms, refs, offset, out>>
    BY <1>12 DEF NamesResolved, workVars
  <2>2. refs' = <<>> /\ offset' = 0
    BY <1>7, <2>1
  <2>3. FirstRefs' /\ \E S : out' \in Seq(S)
    BY <1>9, <2>1
  <2>4. /\ 0 \in 0..Len(RefRows(Head(syms)))
        /\ <<>> \in Seq(PairsOf(Head(syms))) /\ Rising(<<>>) /\ Len(<<>>) <= Limit
        /\ ToSet(<<>>) = {PairOf(RefRows(Head(syms))[k]) : k \in 1..0}
    BY NothingRead
  <2> QED
    BY <1>2, <1>3, <1>4, <2>1, <2>2, <2>3, <2>4 DEF RefsSoFar, Rising
<1>13. CASE ResolveName
  <2>1. step' = "resolve" /\ step = "resolve" /\ UNCHANGED <<refs, offset, out>>
    BY <1>13 DEF ResolveName
  <2> QED
    BY <1>7, <1>9, <2>1 DEF RefsSoFar
<1>14. CASE RefsDone
  <2>1. step' = "done" /\ UNCHANGED out
    BY <1>14 DEF RefsDone
  <2> QED
    BY <1>9, <2>1 DEF RefsSoFar
<1>15. CASE UNCHANGED queryVars
  <2>1. UNCHANGED <<step, syms, offset, refs, out>>
    BY <1>15 DEF queryVars, workVars
  <2> QED
    BY <1>2, <1>3, <1>4, <1>5, <1>6, <1>7, <1>9, <2>1 DEF RefsSoFar, Rising
<1>16. /\ ~ResolvePattern /\ ~PrintResolved /\ ~SearchLike /\ ~PrintCode
       /\ ~ResolveTheFile /\ ~SymbolsMain /\ ~RdepsMain /\ ~DepsOfFile
       /\ ~ResolveTheSymbol /\ ~DepsOfSymbol /\ ~MembersMain
  BY <1>7 DEF ResolvePattern, PrintResolved, SearchLike, PrintCode, ResolveTheFile, OnFile,
     SymbolsMain, RdepsMain, DepsOfFile, ResolveTheSymbol, DepsOfSymbol, MembersMain
<1> QED
  BY <1>10, <1>11, <1>12, <1>13, <1>14, <1>15, <1>16 DEF QueryNext

\* However many batches they are read in, the references that refs prints of a
\* symbol are the first ones, and it tells of a cut just when there are more.
THEOREM FirstRefsPrinted == QuerySpec => []RefsAreTheFirst
<1> DEFINE Inv == CommandShape /\ RefsSoFar /\ FirstRefs
<1>1. QueryInit => Inv
  BY ShapeAtFirst, RefsAtFirst
<1>2. Inv /\ [QueryNext]_queryVars => Inv'
  BY ShapeKept, RefsKept
<1>3. Inv => RefsAreTheFirst
  BY FirstRefsMeans
<1> QED
  BY <1>1, <1>2, <1>3, PTL DEF QuerySpec

-----------------------------------------------------------------------------
(* How rankFileMatches works.  Its loops run (LoopsRun, SettleRuns); while  *)
(* the file at i is compared, what stands there is the best so far, and no  *)
(* test stands behind a file of a later path that is none (Compared), so    *)
(* that where the comparison is no order it makes no difference.            *)

\* A loop from a to b that begins with x has its course.
CourseOf(g, a, b, L, x, next) ==
    /\ g \in [a..b -> L]
    /\ g[a] = x /\ \A j \in (a + 1)..b : g[j] = next[j][g[j - 1]]

LEMMA LoopsRun ==
    ASSUME NEW a \in Nat, NEW b \in Nat, a <= b, NEW L, NEW x \in L, NEW next,
           next \in [(a + 1)..b -> [L -> L]]
    PROVE  \E g : CourseOf(g, a, b, L, x, next)
<1> DEFINE Runs(c, g) == g[a] = x /\ \A j \in (a + 1)..c : g[j] = next[j][g[j - 1]]
           Bad == {c \in a..b : ~\E g \in [a..c -> L] : Runs(c, g)}
<1>1. SUFFICES ASSUME Bad # {} PROVE FALSE
  <2>1. b \in a..b /\ b \notin Bad
    BY <1>1
  <2> QED
    BY <2>1 DEF CourseOf
<1>2. Bad \in SUBSET Nat
  OBVIOUS
<1>3. PICK c \in Bad : \A d \in Bad : c <= d
  <2> HIDE DEF Bad
  <2> QED
    BY <1>1, <1>2, LeastNumber
<1>4. c \in a..b /\ ~\E g \in [a..c -> L] : Runs(c, g)
  OBVIOUS
<1>5. CASE c = a
  <2> DEFINE g == [j \in a..a |-> x]
  <2>1. g \in [a..a -> L] /\ g[a] = x /\ (a + 1)..a = {}
    OBVIOUS
  <2> HIDE DEF g
  <2> QED
    BY <1>4, <1>5, <2>1
<1>6. CASE c # a
  <2>1. c - 1 \in a..b /\ c - 1 \notin Bad
    <3>1. c - 1 \in a..b /\ ~(c <= c - 1)
      BY <1>4, <1>6
    <3> HIDE DEF Bad
    <3> QED
      BY <1>3, <3>1
  <2>2. PICK g \in [a..(c - 1) -> L] : Runs(c - 1, g)
    BY <2>1
  <2> DEFINE h == [j \in a..c |-> IF j = c THEN next[c][g[c - 1]] ELSE g[j]]
  <2>3. c \in (a + 1)..b /\ c - 1 \in a..(c - 1)
    BY <1>4, <1>6
  <2>4. next[c][g[c - 1]] \in L
    BY <2>2, <2>3
  <2>5. h \in [a..c -> L]
    BY <1>4, <2>2, <2>4
  <2>6. h[a] = x
    BY <1>4, <1>6, <2>2
  <2>7. ASSUME NEW j \in (a + 1)..c PROVE h[j] = next[j][h[j - 1]]
    <3>1. j \in a..c /\ j - 1 \in a..c /\ j - 1 # c
      BY <1>4
    <3>2. h[j - 1] = g[j - 1]
      BY <3>1
    <3>3. CASE j = c
      BY <3>1, <3>2, <3>3
    <3>4. CASE j # c
      <4>1. j \in (a + 1)..(c - 1) /\ h[j] = g[j]
        BY <1>4, <3>1, <3>4
      <4> QED
        BY <2>2, <3>2, <4>1
    <3> QED
      BY <3>3, <3>4
  <2> HIDE DEF h
  <2> QED
    BY <1>4, <2>5, <2>6, <2>7
<1> QED
  BY <1>5, <1>6

\* The files while the one at i is compared with those behind it.
SettleCourse(after, files, exact, i, n) ==
    /\ after \in [i..n -> [1..n -> Nat]]
    /\ Settle(files, exact, i) = after[n]
    /\ after[i] = files
    /\ \A j \in (i + 1)..n :
          after[j] = IF WrongOrder(after[j - 1][i], exact, after[j - 1][j])
                     THEN Exchange(after[j - 1], i, j) ELSE after[j - 1]

LEMMA SettleRuns ==
    ASSUME NEW n \in Nat, NEW files \in [1..n -> Nat], Len(files) = n, NEW exact, NEW i \in 1..n
    PROVE  \E after : SettleCourse(after, files, exact, i, n)
<1> DEFINE L == [1..n -> Nat]
           next == [j \in (i + 1)..n |->
                      [l \in L |-> IF WrongOrder(l[i], exact, l[j]) THEN Exchange(l, i, j) ELSE l]]
           F(f) == [j \in i..n |->
                      IF j = i THEN files
                      ELSE IF j \in ComparedWith(i, n) /\ WrongOrder(f[j - 1][i], exact, f[j - 1][j])
                           THEN Exchange(f[j - 1], i, j) ELSE f[j - 1]]
           after == CHOOSE f : f = F(f)
<1>1. Settle(files, exact, i) = after[n]
  BY DEF Settle
<1>2. next \in [(i + 1)..n -> [L -> L]]
  <2> SUFFICES ASSUME NEW j \in (i + 1)..n, NEW l \in L PROVE Exchange(l, i, j) \in L
    OBVIOUS
  <2>1. j \in 1..n /\ l[i] \in Nat /\ l[j] \in Nat
    OBVIOUS
  <2> QED
    BY <2>1 DEF Exchange
<1>3. i \in Nat /\ i <= n /\ files \in L
  OBVIOUS
<1> HIDE DEF L, next
<1>4. \E g : CourseOf(g, i, n, L, files, next)
  BY <1>2, <1>3, LoopsRun
<1>5. PICK g \in [i..n -> L] : g[i] = files /\ \A j \in (i + 1)..n : g[j] = next[j][g[j - 1]]
  BY <1>4 DEF CourseOf
<1>6. \A f : \A j \in (i + 1)..n : f[j - 1] \in L =>
         next[j][f[j - 1]] = IF WrongOrder(f[j - 1][i], exact, f[j - 1][j])
                             THEN Exchange(f[j - 1], i, j) ELSE f[j - 1]
  BY DEF next
<1>7. \A j \in (i + 1)..n : j - 1 \in i..n /\ j \in ComparedWith(i, n) /\ j # i /\ j \in i..n
  BY DEF ComparedWith
<1>8. \A j \in i..n : j = i \/ j \in (i + 1)..n
  OBVIOUS
<1>9. g = F(g)
  <2>1. \A j \in i..n : g[j] = F(g)[j]
    BY <1>5, <1>6, <1>7, <1>8
  <2>2. DOMAIN F(g) = i..n /\ F(g) = [j \in i..n |-> F(g)[j]]
    OBVIOUS
  <2>3. g = [j \in i..n |-> g[j]]
    BY <1>5
  <2> HIDE DEF F
  <2> QED
    BY <2>1, <2>2, <2>3
<1>10. after = F(after)
  <2> HIDE DEF F
  <2> QED
    BY <1>9
<1>11. \A j \in i..n : after[j] = g[j]
  <2> DEFINE Bad == {j \in i..n : after[j] # g[j]}
  <2>1. SUFFICES ASSUME Bad # {} PROVE FALSE
    OBVIOUS
  <2>2. Bad \in SUBSET Nat
    BY <1>3
  <2>3. PICK j \in Bad : \A k \in Bad : j <= k
    <3> HIDE DEF Bad
    <3> QED
      BY <2>1, <2>2, LeastNumber
  <2>4. j \in i..n /\ after[j] # g[j]
    OBVIOUS
  <2>5. after[j] = F(after)[j] /\ g[j] = F(g)[j]
    BY <1>9, <1>10
  <2>6. j # i
    BY <2>4, <2>5
  <2>7. j - 1 \in i..n /\ ~(j <= j - 1)
    BY <1>3, <2>4, <2>6
  <2>8. j - 1 \notin Bad
    <3> HIDE DEF Bad
    <3> QED
      BY <2>3, <2>7
  <2>9. after[j - 1] = g[j - 1]
    BY <2>7, <2>8
  <2> QED
    BY <2>4, <2>5, <2>6, <2>9
<1> HIDE DEF after, F
<1>12. Settle(files, exact, i) = g[n]
  <2>1. n \in i..n
    BY <1>3
  <2> QED
    BY <1>1, <1>11, <2>1
<1>13. \A j \in (i + 1)..n :
          g[j] = IF WrongOrder(g[j - 1][i], exact, g[j - 1][j])
                 THEN Exchange(g[j - 1], i, j) ELSE g[j - 1]
  BY <1>5, <1>6, <1>7
<1>14. g \in [i..n -> [1..n -> Nat]]
  BY <1>5 DEF L
<1> QED
  BY <1>5, <1>12, <1>13, <1>14 DEF SettleCourse

\* Files of which one resembles the name as the other does.
Alike(d, f, exact) == d \in exact <=> f \in exact

LEMMA BetterOrders ==
    ASSUME NEW exact, NEW d \in Nat, NEW e \in Nat, NEW f \in Nat
    PROVE  /\ ~Better(d, d, exact)
           /\ Better(d, e, exact) => ~Better(e, d, exact)
           /\ Better(d, e, exact) /\ Better(e, f, exact) => Better(d, f, exact)
<1>1. ~Better(d, d, exact)
  BY DEF Better
<1>2. Better(d, e, exact) => ~Better(e, d, exact)
  BY DEF Better
<1>3. Better(d, e, exact) /\ Better(e, f, exact) => Better(d, f, exact)
  BY DEF Better
<1> QED
  BY <1>1, <1>2, <1>3

\* The comparison is right but for a file behind a test of a later path.
LEMMA WrongOrderIsWorse ==
    ASSUME NEW exact, NEW p \in Nat, NEW q \in Nat
    PROVE  /\ ~WrongOrder(p, exact, q) => ~Better(q, p, exact)
           /\ WrongOrder(p, exact, q) =>
                 \/ Better(q, p, exact)
                 \/ Alike(p, q, exact) /\ p \notin Specs /\ q \in Specs /\ p > q
<1>1. ~WrongOrder(p, exact, q) => ~Better(q, p, exact)
  BY DEF Better, WrongOrder
<1>2. WrongOrder(p, exact, q) =>
         \/ Better(q, p, exact)
         \/ Alike(p, q, exact) /\ p \notin Specs /\ q \in Specs /\ p > q
  BY DEF Better, WrongOrder, Alike
<1> QED
  BY <1>1, <1>2

\* From i on, no test stands behind a file that is none and of a later path;
\* what stands at i itself need only be right with those behind j.
TestsLater(l, exact, i, j, n) ==
    \A k, m \in i..n :
       k < m /\ (k # i \/ m > j) /\ Alike(l[k], l[m], exact)
             /\ l[k] \notin Specs /\ l[m] \in Specs => l[k] < l[m]

\* The file at i has been compared with those up to j.
Compared(l, files, exact, i, j, n) ==
    /\ l \in [1..n -> Nat]
    /\ \A k \in 1..n : k < i \/ k > j => l[k] = files[k]
    /\ {l[k] : k \in i..n} = {files[k] : k \in i..n}
    /\ \A m \in i..j : ~Better(l[m], l[i], exact)
    /\ TestsLater(l, exact, i, j, n)

LEMMA ComparesNext ==
    ASSUME NEW n \in Nat, NEW files \in [1..n -> Nat], NEW exact, NEW i \in 1..n,
           NEW j \in (i + 1)..n, NEW l, Compared(l, files, exact, i, j - 1, n)
    PROVE  Compared(IF WrongOrder(l[i], exact, l[j]) THEN Exchange(l, i, j) ELSE l,
                    files, exact, i, j, n)
<1>1. /\ l \in [1..n -> Nat]
      /\ \A k \in 1..n : k < i \/ k > j - 1 => l[k] = files[k]
      /\ {l[k] : k \in i..n} = {files[k] : k \in i..n}
      /\ \A m \in i..(j - 1) : ~Better(l[m], l[i], exact)
      /\ TestsLater(l, exact, i, j - 1, n)
  BY DEF Compared
<1>2. i \in Nat /\ j \in Nat /\ i < j /\ j <= n /\ i \in 1..n /\ j \in 1..n /\ i \in i..n /\ j \in i..n
  OBVIOUS
<1>3. \A k \in i..n : l[k] \in Nat
  BY <1>1
<1>4. CASE ~WrongOrder(l[i], exact, l[j])
  <2>1. ~Better(l[j], l[i], exact)
    BY <1>2, <1>3, <1>4, WrongOrderIsWorse
  <2>2. \A m \in i..j : ~Better(l[m], l[i], exact)
    <3>1. \A m \in i..j : m = j \/ m \in i..(j - 1)
      BY <1>2
    <3> QED
      BY <1>1, <2>1, <3>1
  <2>3. TestsLater(l, exact, i, j, n)
    BY <1>1, <1>2 DEF TestsLater
  <2>4. \A k \in 1..n : k < i \/ k > j => l[k] = files[k]
    BY <1>1, <1>2
  <2> QED
    BY <1>1, <1>4, <2>2, <2>3, <2>4 DEF Compared
<1>5. CASE WrongOrder(l[i], exact, l[j])
  <2> DEFINE r == Exchange(l, i, j)
             p == l[i]
             q == l[j]
  <2>1. /\ r \in [1..n -> Nat] /\ r[i] = q /\ r[j] = p
        /\ \A k \in 1..n : k # i /\ k # j => r[k] = l[k]
    BY <1>1, <1>2 DEF Exchange
  <2>2. p \in Nat /\ q \in Nat
    BY <1>2, <1>3
  <2>3. Better(q, p, exact)
    <3>1. ~(Alike(p, q, exact) /\ p \notin Specs /\ q \in Specs /\ p > q)
      <4>1. Alike(l[i], l[j], exact) /\ l[i] \notin Specs /\ l[j] \in Specs => l[i] < l[j]
        <5>1. i < j /\ j > j - 1
          BY <1>2
        <5> QED
          BY <1>1, <1>2, <5>1 DEF TestsLater
      <4> QED
        BY <2>2, <4>1
    <3> QED
      BY <1>5, <2>2, <3>1, WrongOrderIsWorse
  <2> HIDE DEF r, p, q
  <2>4. \A m \in i..(j - 1) : ~Better(l[m], p, exact)
    BY <1>1 DEF p
  <2>5. \A m \in i..j : ~Better(r[m], r[i], exact)
    <3> SUFFICES ASSUME NEW m \in i..j, Better(r[m], q, exact) PROVE FALSE
      BY <2>1
    <3>1. CASE m = i
      BY <2>1, <2>2, <3>1, BetterOrders
    <3>2. CASE m = j
      BY <2>1, <2>2, <2>3, <3>2, BetterOrders
    <3>3. CASE m # i /\ m # j
      <4>1. m \in i..(j - 1) /\ m \in 1..n /\ m \in i..n
        BY <1>2, <3>3
      <4>2. r[m] = l[m] /\ l[m] \in Nat
        BY <1>3, <2>1, <3>3, <4>1
      <4>3. Better(l[m], p, exact)
        BY <2>2, <2>3, <4>2, BetterOrders
      <4> QED
        BY <2>4, <4>1, <4>3
    <3> QED
      BY <3>1, <3>2, <3>3
  <2>6. TestsLater(r, exact, i, j, n)
    <3> SUFFICES ASSUME NEW k \in i..n, NEW m \in i..n, k < m, k # i \/ m > j,
                        Alike(r[k], r[m], exact), r[k] \notin Specs, r[m] \in Specs
                 PROVE  r[k] < r[m]
      BY DEF TestsLater
    <3>1. k \in 1..n /\ m \in 1..n /\ m # i /\ k \in Nat /\ m \in Nat
      BY <1>2
    <3>2. \A x, y \in i..n : x < y /\ (x # i \/ y > j - 1) /\ Alike(l[x], l[y], exact)
                            /\ l[x] \notin Specs /\ l[y] \in Specs => l[x] < l[y]
      BY <1>1 DEF TestsLater
    <3>3. CASE k = i
      <4>1. r[k] = l[j] /\ r[m] = l[m] /\ j < m
        BY <1>2, <2>1, <3>1, <3>3 DEF q
      <4> QED
        BY <1>2, <3>2, <4>1
    <3>4. CASE k # i /\ m = j
      <4>1. r[k] = l[k] /\ r[m] = p /\ k \in i..(j - 1)
        BY <1>2, <2>1, <3>1, <3>4
      <4>2. Better(l[k], p, exact)
        BY <4>1 DEF Better, Alike
      <4> QED
        BY <2>4, <4>1, <4>2
    <3>5. CASE k = j
      <4>1. r[k] = l[i] /\ r[m] = l[m] /\ i < m /\ m > j - 1
        BY <1>2, <2>1, <3>1, <3>5 DEF p
      <4> QED
        BY <1>2, <3>2, <4>1
    <3>6. CASE k # i /\ k # j /\ m # j
      <4>1. r[k] = l[k] /\ r[m] = l[m]
        BY <2>1, <3>1, <3>6
      <4> QED
        BY <3>2, <3>6, <4>1
    <3> QED
      BY <3>3, <3>4, <3>5, <3>6
  <2>7. {r[k] : k \in i..n} = {l[k] : k \in i..n}
    <3>1. \A k \in i..n : k \in 1..n
      BY <1>2
    <3>2. \A k \in i..n : r[k] \in {l[m] : m \in i..n}
      <4> SUFFICES ASSUME NEW k \in i..n PROVE \E m \in i..n : r[k] = l[m]
        OBVIOUS
      <4>1. CASE k = i
        BY <1>2, <2>1, <4>1 DEF q
      <4>2. CASE k = j
        BY <1>2, <2>1, <4>2 DEF p
      <4>3. CASE k # i /\ k # j
        BY <2>1, <3>1, <4>3
      <4> QED
        BY <4>1, <4>2, <4>3
    <3>3. \A k \in i..n : l[k] \in {r[m] : m \in i..n}
      <4> SUFFICES ASSUME NEW k \in i..n PROVE \E m \in i..n : l[k] = r[m]
        OBVIOUS
      <4>1. CASE k = i
        BY <1>2, <2>1, <4>1 DEF p
      <4>2. CASE k = j
        BY <1>2, <2>1, <4>2 DEF q
      <4>3. CASE k # i /\ k # j
        BY <2>1, <3>1, <4>3
      <4> QED
        BY <4>1, <4>2, <4>3
    <3> QED
      BY <3>2, <3>3
  <2>8. \A k \in 1..n : k < i \/ k > j => r[k] = files[k]
    BY <1>1, <1>2, <2>1
  <2>9. Compared(r, files, exact, i, j, n)
    BY <1>1, <2>1, <2>5, <2>6, <2>7, <2>8 DEF Compared
  <2> QED
    BY <1>5, <2>9 DEF r
<1> QED
  BY <1>4, <1>5

\* The file at i is settled: nothing behind it is better.
Settled(r, files, exact, i, n) ==
    /\ r \in [1..n -> Nat]
    /\ \A k \in 1..n : k < i => r[k] = files[k]
    /\ {r[k] : k \in i..n} = {files[k] : k \in i..n}
    /\ \A m \in i..n : ~Better(r[m], r[i], exact)
    /\ TestsLater(r, exact, i + 1, i + 1, n)

LEMMA SettleSorts ==
    ASSUME NEW n \in Nat, NEW files \in [1..n -> Nat], Len(files) = n, NEW exact, NEW i \in 1..n,
           TestsLater(files, exact, i, i, n)
    PROVE  Settled(Settle(files, exact, i), files, exact, i, n)
<1>1. PICK after : SettleCourse(after, files, exact, i, n)
  BY SettleRuns
<1>6. /\ after \in [i..n -> [1..n -> Nat]]
      /\ Settle(files, exact, i) = after[n]
      /\ after[i] = files
      /\ \A j \in (i + 1)..n :
            after[j] = IF WrongOrder(after[j - 1][i], exact, after[j - 1][j])
                       THEN Exchange(after[j - 1], i, j) ELSE after[j - 1]
  BY <1>1 DEF SettleCourse
<1> DEFINE Bad == {j \in i..n : ~Compared(after[j], files, exact, i, j, n)}
<1>2. Bad = {}
  <2>1. SUFFICES ASSUME Bad # {} PROVE FALSE
    OBVIOUS
  <2>2. Bad \in SUBSET Nat
    OBVIOUS
  <2>3. PICK j \in Bad : \A k \in Bad : j <= k
    <3> HIDE DEF Bad
    <3> QED
      BY <2>1, <2>2, LeastNumber
  <2>4. j \in i..n /\ ~Compared(after[j], files, exact, i, j, n)
    OBVIOUS
  <2>5. j # i
    <3>1. Compared(files, files, exact, i, i, n)
      <4>1. \A m \in i..i : ~Better(files[m], files[i], exact)
        <5>1. \A m \in i..i : m = i
          OBVIOUS
        <5>2. files[i] \in Nat
          OBVIOUS
        <5> QED
          BY <5>1, <5>2, BetterOrders
      <4> QED
        BY <4>1 DEF Compared
    <3> QED
      BY <1>6, <2>4, <3>1
  <2>6. j \in (i + 1)..n /\ j - 1 \in i..n /\ ~(j <= j - 1)
    BY <2>4, <2>5
  <2>7. j - 1 \notin Bad
    <3> HIDE DEF Bad
    <3> QED
      BY <2>3, <2>6
  <2>8. Compared(after[j - 1], files, exact, i, j - 1, n)
    BY <2>6, <2>7
  <2>9. after[j] = IF WrongOrder(after[j - 1][i], exact, after[j - 1][j])
                   THEN Exchange(after[j - 1], i, j) ELSE after[j - 1]
    BY <1>6, <2>6
  <2>10. Compared(IF WrongOrder(after[j - 1][i], exact, after[j - 1][j])
                  THEN Exchange(after[j - 1], i, j) ELSE after[j - 1], files, exact, i, j, n)
    BY <2>6, <2>8, ComparesNext
  <2> QED
    BY <2>4, <2>9, <2>10
<1>3. Compared(after[n], files, exact, i, n, n)
  <2>1. n \in i..n
    OBVIOUS
  <2> QED
    BY <1>2, <2>1
<1>4. TestsLater(after[n], exact, i + 1, i + 1, n)
  <2>1. TestsLater(after[n], exact, i, n, n)
    BY <1>3 DEF Compared
  <2>2. \A k \in (i + 1)..n : k \in i..n /\ k # i
    OBVIOUS
  <2> QED
    BY <2>1, <2>2 DEF TestsLater
<1>7. Settled(after[n], files, exact, i, n)
  <2> DEFINE r == after[n]
  <2>1. /\ r \in [1..n -> Nat]
        /\ \A k \in 1..n : k < i => r[k] = files[k]
        /\ {r[k] : k \in i..n} = {files[k] : k \in i..n}
        /\ \A m \in i..n : ~Better(r[m], r[i], exact)
    BY <1>3 DEF Compared
  <2>2. TestsLater(r, exact, i + 1, i + 1, n)
    BY <1>4
  <2> HIDE DEF r
  <2>3. Settled(r, files, exact, i, n)
    BY <2>1, <2>2 DEF Settled
  <2> QED
    BY <2>3 DEF r
<1> QED
  BY <1>6, <1>7

\* The first i files are where they belong: none is worse than one behind it.
RankedTo(l, files, exact, i, n) ==
    /\ l \in [1..n -> Nat]
    /\ {l[k] : k \in 1..n} = {files[k] : k \in 1..n}
    /\ \A k, m \in 1..n : k <= i /\ k <= m => ~Better(l[m], l[k], exact)
    /\ TestsLater(l, exact, i + 1, i + 1, n)

LEMMA RanksNext ==
    ASSUME NEW n \in Nat, NEW files \in [1..n -> Nat], NEW exact, NEW i \in 1..n,
           NEW l, RankedTo(l, files, exact, i - 1, n), NEW r, Settled(r, l, exact, i, n)
    PROVE  RankedTo(r, files, exact, i, n)
<1>1. /\ l \in [1..n -> Nat]
      /\ {l[k] : k \in 1..n} = {files[k] : k \in 1..n}
      /\ \A k, m \in 1..n : k <= i - 1 /\ k <= m => ~Better(l[m], l[k], exact)
  BY DEF RankedTo
<1>2. /\ r \in [1..n -> Nat]
      /\ \A k \in 1..n : k < i => r[k] = l[k]
      /\ {r[k] : k \in i..n} = {l[k] : k \in i..n}
      /\ \A m \in i..n : ~Better(r[m], r[i], exact)
      /\ TestsLater(r, exact, i + 1, i + 1, n)
  BY DEF Settled
<1>3. /\ \A k \in i..n : k \in 1..n
      /\ \A k \in 1..n : k < i \/ k \in i..n
  OBVIOUS
<1>4. \A m \in i..n : \E x \in i..n : r[m] = l[x]
  <2>1. \A m \in i..n : r[m] \in {l[k] : k \in i..n}
    BY <1>2
  <2> QED
    BY <2>1
<1>5. \A m \in i..n : \E x \in i..n : l[m] = r[x]
  <2>1. \A m \in i..n : l[m] \in {r[k] : k \in i..n}
    BY <1>2
  <2> QED
    BY <2>1
<1>6. {r[k] : k \in 1..n} = {l[k] : k \in 1..n}
  <2>1. \A k \in 1..n : \E x \in 1..n : r[k] = l[x]
    BY <1>2, <1>3, <1>4
  <2>2. \A k \in 1..n : \E x \in 1..n : l[k] = r[x]
    BY <1>2, <1>3, <1>5
  <2>3. \A k \in 1..n : r[k] \in {l[x] : x \in 1..n}
    BY <2>1
  <2>4. \A k \in 1..n : l[k] \in {r[x] : x \in 1..n}
    BY <2>2
  <2> QED
    BY <2>3, <2>4
<1>7. ASSUME NEW k \in 1..n, NEW m \in 1..n, k <= i, k <= m
      PROVE  ~Better(r[m], r[k], exact)
  <2>1. CASE k = i
    BY <1>2, <1>7, <2>1
  <2>2. CASE k < i /\ m < i
    <3>1. r[k] = l[k] /\ r[m] = l[m] /\ k <= i - 1
      BY <1>2, <2>2
    <3> QED
      BY <1>1, <1>7, <3>1
  <2>3. CASE k < i /\ m >= i
    <3>1. m \in i..n
      BY <2>3
    <3>2. PICK x \in i..n : r[m] = l[x]
      BY <1>4, <3>1
    <3>3. r[k] = l[k] /\ k <= i - 1 /\ x \in 1..n /\ k <= x
      BY <1>2, <2>3
    <3> QED
      BY <1>1, <3>2, <3>3
  <2> QED
    BY <1>7, <2>1, <2>2, <2>3
<1> QED
  BY <1>1, <1>2, <1>6, <1>7 DEF RankedTo

\* What rankFileMatches returns holds the same files, and none before a better one.
LEMMA RanksFiles ==
    ASSUME NEW n \in Nat, NEW files \in [1..n -> Nat], NEW exact,
           TestsLater(files, exact, 1, 1, n)
    PROVE  RankedTo(RankFileMatches(files, exact), files, exact, n, n)
<1> DEFINE L == [1..n -> Nat]
           next == [j \in (0 + 1)..n |-> [l \in L |-> Settle(l, exact, j)]]
           F(f) == [j \in 0..Len(files) |->
                      IF j = 0 THEN files ELSE Settle(f[j - 1], exact, j)]
           settled == CHOOSE f : f = F(f)
<1>1. RankFileMatches(files, exact) = settled[Len(files)]
  BY DEF RankFileMatches
<1>2. \A l \in L : Len(l) = n
  OBVIOUS
<1>3. \A l \in L, j \in 1..n : Settle(l, exact, j) \in L
  <2> SUFFICES ASSUME NEW l \in [1..n -> Nat], NEW j \in 1..n
               PROVE  Settle(l, exact, j) \in [1..n -> Nat]
    OBVIOUS
  <2>1. Len(l) = n
    BY <1>2
  <2>2. PICK after : SettleCourse(after, l, exact, j, n)
    BY <2>1, SettleRuns
  <2>3. n \in j..n
    OBVIOUS
  <2> QED
    BY <2>2, <2>3 DEF SettleCourse
<1>4. next \in [(0 + 1)..n -> [L -> L]]
  <2>1. (0 + 1)..n = 1..n
    OBVIOUS
  <2> HIDE DEF L
  <2> QED
    BY <1>3, <2>1
<1>5. 0 \in Nat /\ 0 <= n /\ files \in L
  OBVIOUS
<1>6. Len(files) = n
  BY <1>2
<1> HIDE DEF L, next
<1>7. \E g : CourseOf(g, 0, n, L, files, next)
  BY <1>4, <1>5, LoopsRun
<1>8. PICK g \in [0..n -> L] : g[0] = files /\ \A j \in 1..n : g[j] = next[j][g[j - 1]]
  <2>1. \A j \in 1..n : j \in (0 + 1)..n
    OBVIOUS
  <2> QED
    BY <1>7, <2>1 DEF CourseOf
<1>9. \A f : \A j \in 1..n : f[j - 1] \in L => next[j][f[j - 1]] = Settle(f[j - 1], exact, j)
  <2>1. (0 + 1)..n = 1..n
    OBVIOUS
  <2> QED
    BY <2>1 DEF next
<1>10. \A j \in 1..n : j - 1 \in 0..n /\ j # 0 /\ j \in 0..n
  OBVIOUS
<1>11. \A j \in 0..n : j = 0 \/ j \in 1..n
  OBVIOUS
<1>12. g = F(g)
  <2>1. \A j \in 0..n : g[j] = F(g)[j]
    BY <1>6, <1>8, <1>9, <1>10, <1>11
  <2>2. DOMAIN F(g) = 0..n /\ F(g) = [j \in 0..n |-> F(g)[j]]
    BY <1>6
  <2>3. g = [j \in 0..n |-> g[j]]
    BY <1>8
  <2> HIDE DEF F
  <2> QED
    BY <2>1, <2>2, <2>3
<1>13. settled = F(settled)
  <2> HIDE DEF F
  <2> QED
    BY <1>12
<1> HIDE DEF settled
<1>14. /\ settled[0] = files
       /\ \A j \in 1..n : settled[j] = Settle(settled[j - 1], exact, j)
  <2>1. \A j \in 0..n : settled[j] = F(settled)[j]
    BY <1>13
  <2>2. \A j \in 0..n : F(settled)[j] = IF j = 0 THEN files ELSE Settle(settled[j - 1], exact, j)
    BY <1>6
  <2>3. 0 \in 0..n
    OBVIOUS
  <2> HIDE DEF F
  <2> QED
    BY <1>10, <2>1, <2>2, <2>3
<1> HIDE DEF F
<1> DEFINE Bad == {j \in 0..n : ~RankedTo(settled[j], files, exact, j, n)}
<1>15. Bad = {}
  <2>1. SUFFICES ASSUME Bad # {} PROVE FALSE
    OBVIOUS
  <2>2. Bad \in SUBSET Nat
    OBVIOUS
  <2>3. PICK j \in Bad : \A k \in Bad : j <= k
    <3> HIDE DEF Bad
    <3> QED
      BY <2>1, <2>2, LeastNumber
  <2>4. j \in 0..n /\ ~RankedTo(settled[j], files, exact, j, n)
    OBVIOUS
  <2>5. j # 0
    <3>1. RankedTo(files, files, exact, 0, n)
      <4>1. TestsLater(files, exact, 0 + 1, 0 + 1, n)
        OBVIOUS
      <4> QED
        BY <4>1 DEF RankedTo
    <3> QED
      BY <1>14, <2>4, <3>1
  <2>6. j \in 1..n /\ j - 1 \in 0..n /\ ~(j <= j - 1)
    BY <2>4, <2>5
  <2>7. j - 1 \notin Bad
    <3> HIDE DEF Bad
    <3> QED
      BY <2>3, <2>6
  <2>8. RankedTo(settled[j - 1], files, exact, j - 1, n)
    BY <2>6, <2>7
  <2>9. settled[j - 1] \in [1..n -> Nat] /\ TestsLater(settled[j - 1], exact, j, j, n)
    <3>1. (j - 1) + 1 = j
      BY <2>6
    <3> QED
      BY <2>8, <3>1 DEF RankedTo
  <2>10. Len(settled[j - 1]) = n
    BY <1>2, <2>9 DEF L
  <2>11. Settled(settled[j], settled[j - 1], exact, j, n)
    BY <1>14, <2>6, <2>9, <2>10, SettleSorts
  <2>12. RankedTo(settled[j], files, exact, j, n)
    BY <2>6, <2>8, <2>11, RanksNext
  <2> QED
    BY <2>4, <2>12
<1>16. n \in 0..n
  OBVIOUS
<1> QED
  BY <1>1, <1>6, <1>15, <1>16

-----------------------------------------------------------------------------
(* The file a command is about.                                            *)

\* A set in any order.
LEMMA SeqOfSet ==
    ASSUME NEW S, IsFiniteSet(S)
    PROVE  SetToSeq(S) \in Seq(S) /\ ToSet(SetToSeq(S)) = S
<1> DEFINE n == Cardinality(S)
           f == SetToSeq(S)
<1>1. n \in Nat /\ ExistsBijection(1..n, S)
  BY FS_CardinalityType
<1>2. \E g \in [1..n -> S] : IsInjective(g)
  BY <1>1 DEF ExistsBijection, Bijection, Injection, IsInjective
<1>3. f \in [1..n -> S] /\ IsInjective(f)
  BY <1>2 DEF SetToSeq
<1>4. f \in Injection(1..n, S)
  BY <1>3 DEF Injection, IsInjective
<1>5. Cardinality(1..n) = Cardinality(S) /\ IsFiniteSet(1..n)
  <2>1. PICK m \in Nat : m = n
    BY <1>1
  <2> QED
    BY <2>1, FS_Interval
<1>6. f \in Surjection(1..n, S)
  <2> HIDE DEF f, n
  <2> QED
    BY <1>4, <1>5, FS_Injection
<1> HIDE DEF f
<1>7. f \in Seq(S) /\ DOMAIN f = 1..n
  BY <1>1, <1>3
<1>8. ToSet(f) = S
  BY <1>6, <1>7 DEF ToSet, Surjection
<1> QED
  BY <1>7, <1>8 DEF f

LEMMA AnyOrder ==
    ASSUME NEW S, IsFiniteSet(S), NEW rows \in SetToSeqs(S)
    PROVE  rows \in Seq(S) /\ ToSet(rows) = S
<1> DEFINE n == Cardinality(S)
<1>1. n \in Nat
  BY FS_CardinalityType
<1>2. rows \in [1..n -> S] /\ \A i, j \in 1..n : i # j => rows[i] # rows[j]
  BY DEF SetToSeqs
<1>3. rows \in Injection(1..n, S)
  BY <1>2 DEF Injection, IsInjective
<1>4. Cardinality(1..n) = Cardinality(S) /\ IsFiniteSet(1..n)
  <2>1. PICK m \in Nat : m = n
    BY <1>1
  <2> QED
    BY <2>1, FS_Interval
<1>5. rows \in Surjection(1..n, S)
  <2> HIDE DEF n
  <2> QED
    BY <1>3, <1>4, FS_Injection
<1>6. rows \in Seq(S) /\ DOMAIN rows = 1..n
  BY <1>1, <1>2
<1>7. ToSet(rows) = S
  BY <1>5, <1>6 DEF ToSet, Surjection
<1> QED
  BY <1>6, <1>7

\* What a pattern finds.
FoundFor(docs, p) ==
    LET found == (p.equal \cup p.ending \cup p.stems) \cap docs
    IN  IF found = {} THEN p.inside \cap docs ELSE found

LEMMA CandidatesStand ==
    ASSUME NEW d, IsFiniteSet(d.docs), d.docs \subseteq Nat, NEW p, IsPattern(p),
           NEW stems \in SetToSeqs(p.stems \cap d.docs)
    PROVE  LET all == Candidates(d, p, stems)
           IN  /\ all \in Seq(Nat) /\ ToSet(all) = FoundFor(d.docs, p)
               /\ TestsLater(all, p.exact, 1, 1, Len(all))
<1> DEFINE A == SetToSeq(p.equal \cap d.docs)
           B == SelectSorted(p.ending \cap d.docs)
           listed == A \o B \o stems
           rest == SelectSorted(p.inside \cap d.docs)
           found == (p.equal \cup p.ending \cup p.stems) \cap d.docs
           all == Candidates(d, p, stems)
<1>1. /\ IsFiniteSet(p.equal \cap d.docs) /\ IsFiniteSet(p.ending \cap d.docs)
      /\ IsFiniteSet(p.stems \cap d.docs) /\ IsFiniteSet(p.inside \cap d.docs)
  BY FS_Subset
<1>2. ASSUME NEW S \in SUBSET d.docs, IsFiniteSet(S)
      PROVE  /\ SelectSorted(S) \in Seq(Nat) /\ ToSet(SelectSorted(S)) = S
             /\ \A i, j \in 1..Len(SelectSorted(S)) :
                   i < j => SelectSorted(S)[i] < SelectSorted(S)[j]
  <2> DEFINE s == SelectSorted(S)
             n == Cardinality(S)
  <2>1. S \in SUBSET Nat
    OBVIOUS
  <2>2. /\ n \in Nat /\ s \in [1..n -> S] /\ s \in Seq(S) /\ Len(s) = n
        /\ \A i, j \in 1..n : i < j => s[i] < s[j]
        /\ \A x \in S : \E i \in 1..n : s[i] = x
    BY <1>2, <2>1, SortedNumbers
  <2> HIDE DEF s, n
  <2>3. ToSet(s) = S
    BY <2>2 DEF ToSet
  <2>4. s \in Seq(Nat)
    <3>1. s \in [1..n -> Nat]
      BY <2>1, <2>2
    <3> QED
      BY <2>2, <3>1
  <2> QED
    BY <2>2, <2>3, <2>4 DEF s
<1>3. /\ A \in Seq(Nat) /\ ToSet(A) = p.equal \cap d.docs
      /\ stems \in Seq(Nat) /\ ToSet(stems) = p.stems \cap d.docs
  <2>1. A \in Seq(p.equal \cap d.docs) /\ ToSet(A) = p.equal \cap d.docs
    BY <1>1, SeqOfSet
  <2>2. stems \in Seq(p.stems \cap d.docs) /\ ToSet(stems) = p.stems \cap d.docs
    BY <1>1, AnyOrder
  <2> HIDE DEF A
  <2> QED
    BY <2>1, <2>2
<1>4. /\ B \in Seq(Nat) /\ ToSet(B) = p.ending \cap d.docs
      /\ \A i, j \in 1..Len(B) : i < j => B[i] < B[j]
  BY <1>1, <1>2
<1>5. /\ rest \in Seq(Nat) /\ ToSet(rest) = p.inside \cap d.docs
      /\ \A i, j \in 1..Len(rest) : i < j => rest[i] < rest[j]
  BY <1>1, <1>2
<1>6. all = IF listed = <<>> THEN rest ELSE Distinct(listed)
  BY DEF Candidates
<1> HIDE DEF A, B, rest, all
<1> DEFINE a == Len(A)
           b == Len(B)
           c == Len(stems)
<1>7. a \in Nat /\ b \in Nat /\ c \in Nat
  BY <1>3, <1>4, LenProperties
<1>8. /\ listed \in Seq(Nat) /\ Len(listed) = a + b + c
      /\ \A i \in 1..(a + b + c) :
            \/ i \in 1..a /\ listed[i] = A[i]
            \/ i - a \in 1..b /\ listed[i] = B[i - a]
            \/ i - a - b \in 1..c /\ listed[i] = stems[i - a - b]
  <2>1. A \o B \in Seq(Nat) /\ Len(A \o B) = a + b
    BY <1>3, <1>4
  <2>2. listed \in Seq(Nat) /\ Len(listed) = a + b + c
    BY <1>3, <1>7, <2>1
  <2>3. \A i \in 1..(a + b) : listed[i] = (A \o B)[i]
    BY <1>3, <1>7, <2>1
  <2>4. \A i \in 1..(a + b + c) : i \notin 1..(a + b) => listed[i] = stems[i - a - b]
    <3>1. \A i \in 1..(a + b + c) : i \notin 1..(a + b) => listed[i] = stems[i - (a + b)]
      BY <1>3, <1>7, <2>1
    <3>2. \A i \in 1..(a + b + c) : i - (a + b) = i - a - b
      BY <1>7
    <3> QED
      BY <3>1, <3>2
  <2>5. \A i \in 1..a : (A \o B)[i] = A[i]
    BY <1>3, <1>4
  <2>6. \A i \in 1..(a + b) : i \notin 1..a => (A \o B)[i] = B[i - a]
    BY <1>3, <1>4
  <2> HIDE DEF a, b, c, listed
  <2>7. ASSUME NEW i \in 1..(a + b + c)
        PROVE  \/ i \in 1..a /\ listed[i] = A[i]
               \/ i - a \in 1..b /\ listed[i] = B[i - a]
               \/ i - a - b \in 1..c /\ listed[i] = stems[i - a - b]
    <3>1. CASE i \in 1..a
      <4>1. i \in 1..(a + b)
        BY <1>7, <3>1
      <4>2. listed[i] = (A \o B)[i]
        BY <2>3, <4>1
      <4> QED
        BY <2>5, <3>1, <4>2
    <3>2. CASE i \notin 1..a /\ i \in 1..(a + b)
      <4>1. i - a \in 1..b
        BY <1>7, <3>2
      <4>2. listed[i] = (A \o B)[i]
        BY <2>3, <3>2
      <4>3. (A \o B)[i] = B[i - a]
        BY <2>6, <3>2
      <4> QED
        BY <4>1, <4>2, <4>3
    <3>3. CASE i \notin 1..(a + b)
      <4>1. i - a - b \in 1..c
        BY <1>7, <3>3
      <4> QED
        BY <2>4, <3>3, <4>1
    <3> QED
      BY <1>7, <3>1, <3>2, <3>3
  <2> QED
    BY <2>2, <2>7
<1>9. ToSet(listed) = found
  <2> HIDE DEF a, b, c, listed
  <2>1. /\ DOMAIN A = 1..a /\ DOMAIN B = 1..b /\ DOMAIN stems = 1..c
        /\ DOMAIN listed = 1..(a + b + c)
    BY <1>3, <1>4, <1>8, LenProperties DEF a, b, c
  <2>2. ASSUME NEW i \in 1..(a + b + c) PROVE listed[i] \in found
    <3>1. CASE i \in 1..a /\ listed[i] = A[i]
      <4>1. A[i] \in p.equal \cap d.docs
        BY <1>3, <2>1, <3>1 DEF ToSet
      <4> QED
        BY <3>1, <4>1
    <3>2. CASE i - a \in 1..b /\ listed[i] = B[i - a]
      <4>1. B[i - a] \in p.ending \cap d.docs
        BY <1>4, <2>1, <3>2 DEF ToSet
      <4> QED
        BY <3>2, <4>1
    <3>3. CASE i - a - b \in 1..c /\ listed[i] = stems[i - a - b]
      <4>1. stems[i - a - b] \in p.stems \cap d.docs
        BY <1>3, <2>1, <3>3 DEF ToSet
      <4> QED
        BY <3>3, <4>1
    <3> QED
      BY <1>8, <3>1, <3>2, <3>3
  <2>3. ASSUME NEW k \in 1..a PROVE A[k] \in ToSet(listed)
    <3>1. k \in 1..(a + b + c) /\ ~(k - a \in 1..b) /\ ~(k - a - b \in 1..c)
      BY <1>7
    <3>2. listed[k] = A[k]
      BY <1>8, <3>1
    <3> QED
      BY <2>1, <3>1, <3>2 DEF ToSet
  <2>4. ASSUME NEW k \in 1..b PROVE B[k] \in ToSet(listed)
    <3>1. /\ a + k \in 1..(a + b + c) /\ ~(a + k \in 1..a) /\ ~((a + k) - a - b \in 1..c)
          /\ (a + k) - a = k
      BY <1>7
    <3>2. listed[a + k] = B[k]
      BY <1>8, <3>1
    <3> QED
      BY <2>1, <3>1, <3>2 DEF ToSet
  <2>5. ASSUME NEW k \in 1..c PROVE stems[k] \in ToSet(listed)
    <3>1. /\ a + b + k \in 1..(a + b + c) /\ ~(a + b + k \in 1..a)
          /\ ~((a + b + k) - a \in 1..b) /\ (a + b + k) - a - b = k
      BY <1>7
    <3>2. listed[a + b + k] = stems[k]
      BY <1>8, <3>1
    <3> QED
      BY <2>1, <3>1, <3>2 DEF ToSet
  <2>6. ToSet(listed) \subseteq found
    BY <2>1, <2>2 DEF ToSet
  <2>7. found \subseteq ToSet(listed)
    <3>1. \A x \in p.equal \cap d.docs : \E k \in 1..a : A[k] = x
      BY <1>3, <2>1 DEF ToSet
    <3>2. \A x \in p.ending \cap d.docs : \E k \in 1..b : B[k] = x
      BY <1>4, <2>1 DEF ToSet
    <3>3. \A x \in p.stems \cap d.docs : \E k \in 1..c : stems[k] = x
      BY <1>3, <2>1 DEF ToSet
    <3>4. SUFFICES ASSUME NEW x \in found PROVE x \in ToSet(listed)
      OBVIOUS
    <3>5. CASE x \in p.equal \cap d.docs
      BY <2>3, <3>1, <3>5
    <3>6. CASE x \in p.ending \cap d.docs
      BY <2>4, <3>2, <3>6
    <3>7. CASE x \in p.stems \cap d.docs
      BY <2>5, <3>3, <3>7
    <3> QED
      BY <3>4, <3>5, <3>6, <3>7
  <2> QED
    BY <2>6, <2>7
<1>10. ASSUME NEW x \in 1..(a + b + c), NEW y \in 1..(a + b + c), x < y,
              Alike(listed[x], listed[y], p.exact), listed[x] \notin Specs, listed[y] \in Specs
       PROVE  listed[x] < listed[y]
  <2> HIDE DEF a, b, c, listed
  <2>1. DOMAIN A = 1..a /\ DOMAIN stems = 1..c /\ DOMAIN listed = 1..(a + b + c)
    BY <1>3, <1>8, LenProperties DEF a, c
  <2> DEFINE wide == p.equal \cup p.ending \cup p.stems
  <2>2. listed[x] \in wide /\ listed[y] \in wide
    BY <1>9, <2>1 DEF ToSet
  <2>3. PICK class \in {wide \cap p.exact, wide \ p.exact} :
           listed[x] \in class /\ listed[y] \in class
    BY <1>10, <2>2 DEF Alike
  <2>4. class \cap (p.equal \cup p.stems) = {}
    <3>1. \/ class \cap (p.equal \cup p.stems) = {}
          \/ class \cap Specs = {} \/ class \subseteq Specs
      BY <2>3 DEF IsPattern
    <3> QED
      BY <1>10, <2>3, <3>1
  <2>5. ASSUME NEW i \in 1..(a + b + c), listed[i] \in class
        PROVE  i - a \in 1..b /\ listed[i] = B[i - a]
    <3>1. CASE i \in 1..a /\ listed[i] = A[i]
      BY <1>3, <2>1, <2>4, <2>5, <3>1 DEF ToSet
    <3>2. CASE i - a - b \in 1..c /\ listed[i] = stems[i - a - b]
      BY <1>3, <2>1, <2>4, <2>5, <3>2 DEF ToSet
    <3> QED
      BY <1>8, <3>1, <3>2
  <2>6. x - a < y - a
    BY <1>7, <1>10
  <2> QED
    BY <1>4, <2>3, <2>5, <2>6 DEF b
<1>11. CASE listed = <<>>
  <2>1. found = {}
    <3>1. ToSet(listed) = {}
      BY <1>11 DEF ToSet
    <3> HIDE DEF listed, found
    <3> QED
      BY <1>9, <3>1
  <2>2. all = rest /\ FoundFor(d.docs, p) = p.inside \cap d.docs
    BY <1>6, <1>11, <2>1 DEF FoundFor
  <2>3. TestsLater(rest, p.exact, 1, 1, Len(rest))
    BY <1>5 DEF TestsLater
  <2> QED
    BY <1>5, <2>2, <2>3 DEF all
<1>12. CASE listed # <<>>
  <2> HIDE DEF a, b, c, listed
  <2>1. DOMAIN listed = 1..(a + b + c)
    BY <1>8, LenProperties
  <2>2. found # {}
    <3>1. Len(listed) # 0
      BY <1>8, <1>12, EmptySeq
    <3>2. 1 \in 1..(a + b + c)
      BY <1>7, <1>8, <3>1
    <3>3. listed[1] \in ToSet(listed)
      BY <2>1, <3>2 DEF ToSet
    <3> QED
      BY <1>9, <3>3
  <2>3. all = Distinct(listed) /\ FoundFor(d.docs, p) = found
    BY <1>6, <1>12, <2>2 DEF FoundFor
  <2>4. /\ Distinct(listed) \in Seq(Nat) /\ ToSet(Distinct(listed)) = found
        /\ \E at \in [DOMAIN Distinct(listed) -> DOMAIN listed] :
              /\ \A i \in DOMAIN Distinct(listed) : Distinct(listed)[i] = listed[at[i]]
              /\ \A i, j \in DOMAIN Distinct(listed) : i < j => at[i] < at[j]
    BY <1>8, <1>9, DistinctRows
  <2> DEFINE D == Distinct(listed)
  <2>5. PICK at \in [DOMAIN D -> DOMAIN listed] :
              /\ \A i \in DOMAIN D : D[i] = listed[at[i]]
              /\ \A i, j \in DOMAIN D : i < j => at[i] < at[j]
    BY <2>4
  <2>6. D \in Seq(Nat) /\ DOMAIN D = 1..Len(D)
    BY <2>4, LenProperties
  <2> HIDE DEF D, found
  <2>7. TestsLater(D, p.exact, 1, 1, Len(D))
    <3> SUFFICES ASSUME NEW k \in 1..Len(D), NEW m \in 1..Len(D), k < m,
                        Alike(D[k], D[m], p.exact), D[k] \notin Specs, D[m] \in Specs
                 PROVE  D[k] < D[m]
      BY DEF TestsLater
    <3>1. /\ at[k] \in 1..(a + b + c) /\ at[m] \in 1..(a + b + c) /\ at[k] < at[m]
          /\ D[k] = listed[at[k]] /\ D[m] = listed[at[m]]
      BY <2>1, <2>5, <2>6
    <3>2. /\ Alike(listed[at[k]], listed[at[m]], p.exact)
          /\ listed[at[k]] \notin Specs /\ listed[at[m]] \in Specs
      BY <3>1
    <3> QED
      BY <1>10, <3>1, <3>2
  <2> QED
    BY <2>3, <2>4, <2>6, <2>7 DEF all, D
<1> QED
  BY <1>11, <1>12

\* The first of the rows that are kept was before the others.
LEMMA FirstKept ==
    ASSUME NEW S, NEW rows \in Seq(S), NEW P \in SUBSET DOMAIN rows, AtPlaces(rows, P) # <<>>
    PROVE  \E x \in P : /\ AtPlaces(rows, P)[1] = rows[x]
                       /\ \A i \in DOMAIN AtPlaces(rows, P) :
                             \E y \in P : x <= y /\ AtPlaces(rows, P)[i] = rows[y]
<1> DEFINE kept == AtPlaces(rows, P)
<1>1. kept \in Seq(S)
  BY KeptPlaces
<1>2. PICK at \in [DOMAIN kept -> P] :
         /\ \A i \in DOMAIN kept : kept[i] = rows[at[i]]
         /\ \A i, j \in DOMAIN kept : i < j => at[i] < at[j]
  BY KeptPlaces
<1> HIDE DEF kept
<1>3. Len(kept) \in Nat /\ Len(kept) # 0 /\ DOMAIN kept = 1..Len(kept)
  <2>1. kept # <<>>
    BY DEF kept
  <2> QED
    BY <1>1, <2>1, EmptySeq, LenProperties
<1>4. 1 \in DOMAIN kept /\ \A i \in DOMAIN kept : i = 1 \/ 1 < i
  BY <1>3
<1>5. P \subseteq Nat
  BY LenProperties
<1>6. ASSUME NEW i \in DOMAIN kept
      PROVE  at[1] <= at[i] /\ at[i] \in P /\ kept[i] = rows[at[i]]
  <2>1. at[i] \in P /\ kept[i] = rows[at[i]] /\ at[1] \in P
    BY <1>2, <1>4
  <2>2. at[i] \in Nat /\ at[1] \in Nat
    BY <1>5, <2>1
  <2>3. i = 1 \/ at[1] < at[i]
    BY <1>2, <1>4
  <2> QED
    BY <2>1, <2>2, <2>3
<1>7. at[1] \in P /\ kept[1] = rows[at[1]]
  BY <1>2, <1>4
<1>8. \E x \in P : /\ kept[1] = rows[x]
                   /\ \A i \in DOMAIN kept : \E y \in P : x <= y /\ kept[i] = rows[y]
  BY <1>6, <1>7
<1> QED
  BY <1>8 DEF kept

\* Whatever order the statements give their rows in, the same files are resolved,
\* and the first of them is the best.
LEMMA FilesResolved ==
    ASSUME NEW d, IsFiniteSet(d.docs), d.docs \subseteq Nat, NEW p, IsPattern(p), NEW scope,
           NEW files \in ResolveFile(d, p, scope)
    PROVE  /\ files \in Seq(Nat)
           /\ ToSet(files) = {f \in FoundFor(d.docs, p) : InScope(f, scope)}
           /\ files # <<>> =>
                 /\ files[1] \in ToSet(files)
                 /\ \A f \in ToSet(files) : ~Better(f, files[1], p.exact)
<1>1. PICK stems \in SetToSeqs(p.stems \cap d.docs) :
         files = Where(RankFileMatches(Candidates(d, p, stems), p.exact),
                       LAMBDA f : InScope(f, scope))
  BY DEF ResolveFile
<1> DEFINE all == Candidates(d, p, stems)
           n == Len(all)
           r == RankFileMatches(all, p.exact)
           P == {i \in DOMAIN r : InScope(r[i], scope)}
<1>2. /\ all \in Seq(Nat) /\ ToSet(all) = FoundFor(d.docs, p)
      /\ TestsLater(all, p.exact, 1, 1, n)
  BY CandidatesStand
<1>3. n \in Nat /\ all \in [1..n -> Nat]
  BY <1>2, LenProperties
<1>4. files = AtPlaces(r, P)
  BY <1>1 DEF Where
<1> HIDE DEF all, n
<1>5. RankedTo(r, all, p.exact, n, n)
  BY <1>2, <1>3, RanksFiles
<1> HIDE DEF r, P
<1>6. /\ r \in [1..n -> Nat]
      /\ {r[k] : k \in 1..n} = {all[k] : k \in 1..n}
      /\ \A k, m \in 1..n : k <= n /\ k <= m => ~Better(r[m], r[k], p.exact)
  BY <1>5 DEF RankedTo
<1>7. r \in Seq(Nat) /\ DOMAIN r = 1..n
  BY <1>3, <1>6
<1>8. {r[k] : k \in 1..n} = FoundFor(d.docs, p)
  <2>1. DOMAIN all = 1..n
    BY <1>3
  <2> QED
    BY <1>2, <1>6, <2>1 DEF ToSet
<1>9. P \in SUBSET DOMAIN r
  BY DEF P
<1>10. files \in Seq(Nat) /\ ToSet(files) = {r[i] : i \in P}
  <2>1. r \in Seq(Nat)
    BY <1>7
  <2> QED
    BY <1>4, <1>9, <2>1, KeptPlaces
<1>11. {r[i] : i \in P} = {f \in FoundFor(d.docs, p) : InScope(f, scope)}
  BY <1>7, <1>8 DEF P
<1>12. ASSUME files # <<>>
       PROVE  /\ files[1] \in ToSet(files)
              /\ \A f \in ToSet(files) : ~Better(f, files[1], p.exact)
  <2>1. Len(files) \in Nat /\ Len(files) # 0 /\ DOMAIN files = 1..Len(files)
    BY <1>10, <1>12, EmptySeq, LenProperties
  <2>2. 1 \in DOMAIN files /\ \A i \in DOMAIN files : i = 1 \/ 1 < i
    BY <2>1
  <2>3. PICK x \in P : /\ files[1] = r[x]
                      /\ \A i \in DOMAIN files : \E y \in P : x <= y /\ files[i] = r[y]
    <3>1. r \in Seq(Nat)
      BY <1>7
    <3> QED
      BY <1>4, <1>9, <1>12, <3>1, FirstKept
  <2>4. ASSUME NEW i \in DOMAIN files PROVE ~Better(files[i], files[1], p.exact)
    <3>1. PICK y \in P : x <= y /\ files[i] = r[y]
      BY <2>3
    <3>2. x \in 1..n /\ y \in 1..n /\ x <= n
      BY <1>3, <1>7, <1>9
    <3> QED
      BY <1>6, <2>3, <3>1, <3>2
  <2> QED
    BY <2>2, <2>4 DEF ToSet
<1> QED
  BY <1>10, <1>11, <1>12

\* The file a command is about is one of its candidates, of which none is better.
LEMMA BestKept ==
    CommandShape /\ BestFileFirst /\ [QueryNext]_queryVars => BestFileFirst'
<1> SUFFICES ASSUME CommandShape, BestFileFirst, [QueryNext]_queryVars PROVE BestFileFirst'
  OBVIOUS
<1>1. db' = db /\ command' = command
  BY DEF QueryNext, queryVars, ResolvePattern, PrintResolved, SearchLike, ResolveName,
         NamesResolved, ReadBatch, EndRefs, RefsDone, PrintCode, ResolveTheFile, SymbolsMain,
         RdepsMain, DepsOfFile, ResolveTheSymbol, DepsOfSymbol, MembersMain
<1>2. CASE file' = file
  BY <1>1, <1>2 DEF BestFileFirst, Scope
<1>3. CASE ResolveTheFile /\ file' # file
  <2>1. PICK files \in ResolveFile(db, command.file, Scope) : files # <<>> /\ file' = files[1]
    BY <1>3 DEF ResolveTheFile
  <2>2. IsFiniteSet(db.docs) /\ db.docs \subseteq Nat
    BY ShapeGives
  <2>3. IsPattern(command.file)
    BY QueryAssumption DEF CommandShape, IsCommand
  <2>4. ASSUME NEW some \in ResolveFile(db, command.file, Scope), NEW d \in ToSet(some)
        PROVE  ~Better(d, file', command.file.exact)
    <3>1. ToSet(some) = ToSet(files)
      BY <2>2, <2>3, FilesResolved
    <3> QED
      BY <2>1, <2>2, <2>3, <2>4, <3>1, FilesResolved
  <2> QED
    BY <1>1, <2>4 DEF BestFileFirst, Scope
<1> QED
  BY <1>2, <1>3 DEF QueryNext, queryVars, workVars, ResolvePattern, PrintResolved, SearchLike,
         ResolveName, NamesResolved, ReadBatch, EndRefs, RefsDone, PrintCode, SymbolsMain,
         RdepsMain, DepsOfFile, ResolveTheSymbol, DepsOfSymbol, MembersMain

\* The file a command is about is the best of the candidates, although what
\* rankFileMatches compares by is no order: it holds for a file that is none and
\* a test of a later path that either is to stand before the other.
THEOREM BestFileFound == QuerySpec => []BestFileFirst
<1>1. QueryInit => CommandShape /\ BestFileFirst
  BY ShapeAtFirst DEF QueryInit, Start, BestFileFirst
<1>2. CommandShape /\ BestFileFirst /\ [QueryNext]_queryVars => (CommandShape /\ BestFileFirst)'
  BY ShapeKept, BestKept
<1> QED
  BY <1>1, <1>2, PTL DEF QuerySpec

-----------------------------------------------------------------------------
(* How much is printed.                                                    *)

\* The names still to be resolved leave room for what they may resolve to; code
\* prints of the symbols, and refs of each of them.
Sizes ==
    /\ step \in {"resolve", "query", "refs", "print refs", "code", "done"}
    /\ file \in db.docs \cup {NoFile} /\ offset \in Nat /\ Len(refs) <= Limit + 1
    /\ warned \in BOOLEAN /\ exit \in {0, 1}
    /\ step \in {"refs", "print refs"} => command.verb = "refs"
    /\ step = "code" => command.verb = "code"
    /\ step = "query" => command.verb \in OfOne /\ (file # NoFile \/ syms # <<>>)
    /\ command.verb \notin OfOne \cup {"refs"} /\ step # "done" => out = <<>>
    /\ Len(out) <= Limit * Max({1, Len(command.names)})
    /\ command.verb \in {"refs", "code"} /\ step # "done" =>
          Len(out) + Len(syms) + Limit * Len(names) <= Limit * Len(command.names)

\* Room for one name at least.
LEMMA RoomFor ==
    ASSUME CommandShape
    PROVE  LET room == Limit * Max({1, Len(command.names)})
           IN  /\ room \in Nat /\ Limit <= room /\ Len(command.names) \in Nat
               /\ Limit * Len(command.names) <= room /\ Limit * Len(command.names) \in Nat
<1>1. Limit \in Nat
  BY ShapeGives
<1>2. Len(command.names) \in Nat
  BY QueryAssumption, LenProperties DEF CommandShape, IsCommand
<1>3. ASSUME NEW k \in Nat PROVE Max({1, k}) = IF k = 0 THEN 1 ELSE k
  <2> DEFINE m == IF k = 0 THEN 1 ELSE k
  <2>1. m \in {1, k} /\ \A y \in {1, k} : m >= y
    OBVIOUS
  <2>2. \A x \in {1, k} : (\A y \in {1, k} : x >= y) => x = m
    OBVIOUS
  <2> HIDE DEF m
  <2>3. Max({1, k}) = m
    BY <2>1, <2>2 DEF Max
  <2> QED
    BY <2>3 DEF m
<1>4. ASSUME NEW l \in Nat, NEW k \in Nat, NEW m \in Nat, m = IF k = 0 THEN 1 ELSE k
      PROVE  l * m \in Nat /\ l <= l * m /\ l * k <= l * m /\ l * k \in Nat
  <2>1. CASE k = 0
    BY <1>4, <2>1
  <2>2. CASE k # 0
    <3>1. l * (k - 1) \in Nat
      <4>1. PICK j \in Nat : j = k - 1
        BY <2>2
      <4> QED
        BY <4>1
    <3>2. l * k = l * (k - 1) + l
      OBVIOUS
    <3> QED
      BY <1>4, <2>2, <3>1, <3>2
  <2> QED
    BY <2>1, <2>2
<1> DEFINE m == Max({1, Len(command.names)})
<1>5. m \in Nat /\ m = IF Len(command.names) = 0 THEN 1 ELSE Len(command.names)
  BY <1>2, <1>3
<1> HIDE DEF m
<1>6. /\ Limit * m \in Nat /\ Limit <= Limit * m
      /\ Limit * Len(command.names) <= Limit * m /\ Limit * Len(command.names) \in Nat
  BY <1>1, <1>2, <1>4, <1>5
<1> QED
  BY <1>2, <1>6 DEF m

\* What is cut is within the limit.
LEMMA CutIsShort ==
    ASSUME CommandShape, NEW S, NEW rows \in Seq(S)
    PROVE  /\ Cut(rows) \in Seq(S) /\ Len(Cut(rows)) \in Nat /\ Len(Cut(rows)) <= Limit
           /\ Len(Cut(rows)) <= Limit * Max({1, Len(command.names)})
<1>1. Limit \in Nat
  BY ShapeGives
<1>2. Len(rows) \in Nat
  BY LenProperties
<1>3. Cut(rows) \in Seq(S) /\ Len(Cut(rows)) \in Nat /\ Len(Cut(rows)) <= Limit
  BY <1>1, <1>2, FirstRows DEF Cut
<1> QED
  BY <1>1, <1>3, RoomFor

\* A SELECT that may give as many rows as there are gives them all.
LEMMA AllSelected ==
    ASSUME NEW S, IsFiniteSet(S), NEW k \in Nat, Cardinality(S) <= k, NEW rows \in Select(S, k)
    PROVE  ToSet(rows) = S
<1>1. PICK all \in SetToSeqs(S) : rows = Prefix(all, k)
  BY DEF Select
<1>2. all \in Seq(S) /\ ToSet(all) = S /\ Len(all) = Cardinality(S)
  <2>1. PICK n \in Nat : n = Cardinality(S)
    BY FS_CardinalityType
  <2>2. all \in [1..n -> S]
    BY <2>1 DEF SetToSeqs
  <2>3. Len(all) = n
    BY <2>2
  <2> QED
    BY <2>1, <2>3, AnyOrder
<1> QED
  BY <1>1, <1>2, FirstRows

-----------------------------------------------------------------------------
(* What search prints.                                                     *)

AnyLine == {Line(s) : s \in Symbols}

LEMMA LinesAreRows ==
    ASSUME NEW S \in SUBSET Symbols, NEW rows \in Seq(S)
    PROVE  /\ Lines(rows) \in Seq(AnyLine) /\ Len(Lines(rows)) = Len(rows)
           /\ ToSet(Lines(rows)) = {Line(s) : s \in ToSet(rows)}
<1>1. Len(rows) \in Nat /\ DOMAIN rows = 1..Len(rows) /\ \A i \in 1..Len(rows) : rows[i] \in S
  BY LenProperties, ElementOfSeq
<1> DEFINE n == Len(rows)
<1> HIDE DEF n
<1>2. n \in Nat /\ DOMAIN rows = 1..n /\ \A i \in 1..n : rows[i] \in S
  BY <1>1 DEF n
<1>3. Lines(rows) = [i \in 1..n |-> Line(rows[i])]
  BY <1>2 DEF Lines
<1>4. Lines(rows) \in [1..n -> AnyLine]
  BY <1>2, <1>3 DEF AnyLine
<1>5. Lines(rows) \in Seq(AnyLine) /\ Len(Lines(rows)) = n
  BY <1>2, <1>4
<1>6. ToSet(Lines(rows)) = {Line(s) : s \in ToSet(rows)}
  BY <1>2, <1>3 DEF ToSet
<1> QED
  BY <1>5, <1>6 DEF n

\* One row more than is printed tells whether any are left out.
LEMMA OneMore ==
    ASSUME CommandShape, NEW S, NEW all \in Seq(S)
    PROVE  LET some == Prefix(all, Limit + 1)
           IN  /\ some \in Seq(S) /\ Cut(some) \in Seq(S) /\ Len(Cut(some)) <= Limit
               /\ some = <<>> => all = <<>>
               /\ ToSet(Cut(some)) \subseteq ToSet(all)
               /\ IsInjective(all) => IsInjective(Cut(some))
               /\ Len(Cut(some)) < Limit => Cut(some) = all
<1> DEFINE some == Prefix(all, Limit + 1)
<1>1. Limit \in Nat \ {0} /\ Limit + 1 \in Nat
  BY ShapeGives
<1>2. Len(all) \in Nat /\ DOMAIN all = 1..Len(all)
  BY LenProperties
<1>3. /\ some \in Seq(S)
      /\ Len(some) = IF Limit + 1 <= Len(all) THEN Limit + 1 ELSE Len(all)
      /\ \A i \in 1..Len(some) : some[i] = all[i]
      /\ Len(all) <= Limit + 1 => some = all
  BY <1>1, FirstRows
<1> HIDE DEF some
<1>4. /\ Cut(some) \in Seq(S)
      /\ Len(Cut(some)) = IF Limit <= Len(some) THEN Limit ELSE Len(some)
      /\ \A i \in 1..Len(Cut(some)) : Cut(some)[i] = some[i]
      /\ Len(some) <= Limit => Cut(some) = some
  BY <1>1, <1>3, FirstRows DEF Cut
<1>5. Len(some) \in Nat /\ Len(Cut(some)) \in Nat /\ Len(Cut(some)) <= Limit
  BY <1>1, <1>2, <1>3, <1>4
<1>6. DOMAIN Cut(some) = 1..Len(Cut(some))
  BY <1>4, LenProperties
<1>7. \A i \in DOMAIN Cut(some) : i \in DOMAIN all /\ Cut(some)[i] = all[i]
  <2> SUFFICES ASSUME NEW i \in 1..Len(Cut(some)) PROVE i \in DOMAIN all /\ Cut(some)[i] = all[i]
    BY <1>6
  <2>1. Len(Cut(some)) <= Len(some) /\ Len(some) <= Len(all)
    BY <1>1, <1>2, <1>3, <1>4, <1>5
  <2>2. i \in 1..Len(some) /\ i \in 1..Len(all)
    BY <1>2, <1>5, <2>1
  <2> QED
    BY <1>2, <1>3, <1>4, <2>2
<1>8. ToSet(Cut(some)) \subseteq ToSet(all)
  BY <1>7 DEF ToSet
<1>9. IsInjective(all) => IsInjective(Cut(some))
  BY <1>7 DEF IsInjective
<1>10. Len(Cut(some)) < Limit => Cut(some) = all
  BY <1>1, <1>2, <1>3, <1>4
<1>11. some = <<>> => all = <<>>
  <2>1. some = <<>> => Len(some) = 0
    OBVIOUS
  <2>2. Len(some) = 0 => Len(all) = 0
    BY <1>1, <1>2, <1>3
  <2> QED
    BY <2>1, <2>2, EmptySeq
<1> QED
  BY <1>3, <1>4, <1>5, <1>8, <1>9, <1>10, <1>11 DEF some

\* As many rows as different ones, if each is there once.
LEMMA CountRows ==
    ASSUME NEW S, NEW rows \in Seq(S), IsInjective(rows)
    PROVE  IsFiniteSet(ToSet(rows)) /\ Cardinality(ToSet(rows)) = Len(rows)
<1>1. PICK n \in Nat : n = Len(rows)
  BY LenProperties
<1>2. DOMAIN rows = 1..n /\ rows \in [1..n -> ToSet(rows)]
  <2>1. DOMAIN rows = 1..n
    BY <1>1, LenProperties
  <2>2. rows = [i \in 1..n |-> rows[i]]
    BY <1>1, <2>1
  <2>3. \A i \in 1..n : rows[i] \in ToSet(rows)
    BY <2>1 DEF ToSet
  <2> QED
    BY <2>1, <2>2, <2>3
<1>3. rows \in Bijection(1..n, ToSet(rows))
  BY <1>2 DEF ToSet, Bijection, Injection, Surjection, IsInjective
<1>4. IsFiniteSet(1..n) /\ Cardinality(1..n) = n
  BY FS_Interval
<1> QED
  BY <1>1, <1>3, <1>4, FS_Bijection DEF ExistsBijection

\* Rows of the first kind, then those of the second that are not among them.
LEMMA Merges ==
    ASSUME NEW S, NEW first \in Seq(S), NEW more \in Seq(S)
    PROVE  LET both == MergedWith(first, more)
           IN  /\ both \in Seq(S) /\ ToSet(both) = ToSet(first) \cup ToSet(more)
               /\ Len(first) <= Len(both)
               /\ IsInjective(first) /\ IsInjective(more) =>
                     IsInjective(both) /\ Len(more) <= Len(both)
<1> DEFINE P == {i \in DOMAIN more : more[i] \notin ToSet(first)}
           rest == AtPlaces(more, P)
           both == MergedWith(first, more)
<1>1. both = first \o rest
  BY DEF MergedWith, Where
<1>2. P \in SUBSET DOMAIN more
  OBVIOUS
<1>3. rest \in Seq(S) /\ ToSet(rest) = {more[i] : i \in P}
  <2> HIDE DEF P
  <2> QED
    BY <1>2, KeptPlaces
<1>4. ToSet(rest) = ToSet(more) \ ToSet(first)
  BY <1>3 DEF ToSet
<1>5. ASSUME IsInjective(more) PROVE IsInjective(rest)
  <2>1. PICK at \in [DOMAIN rest -> P] :
              /\ \A i \in DOMAIN rest : rest[i] = more[at[i]]
              /\ \A i, j \in DOMAIN rest : i < j => at[i] < at[j]
    <3> HIDE DEF P
    <3> QED
      BY <1>2, KeptPlaces
  <2> HIDE DEF rest
  <2>2. DOMAIN rest \subseteq Nat /\ P \subseteq Nat
    BY <1>3, LenProperties
  <2> SUFFICES ASSUME NEW i \in DOMAIN rest, NEW j \in DOMAIN rest, i < j
               PROVE  rest[i] # rest[j]
    BY <2>2 DEF IsInjective
  <2>3. at[i] \in P /\ at[j] \in P /\ at[i] # at[j]
    BY <2>1, <2>2
  <2> QED
    BY <1>2, <1>5, <2>1, <2>3 DEF IsInjective
<1> HIDE DEF rest, P
<1>6. /\ Len(first) \in Nat /\ Len(rest) \in Nat
      /\ DOMAIN first = 1..Len(first) /\ DOMAIN rest = 1..Len(rest)
  BY <1>3, LenProperties
<1>7. /\ both \in Seq(S) /\ Len(both) = Len(first) + Len(rest)
      /\ \A i \in 1..Len(first) : both[i] = first[i]
      /\ \A i \in 1..(Len(first) + Len(rest)) :
            i \notin 1..Len(first) => both[i] = rest[i - Len(first)]
  BY <1>1, <1>3, <1>6
<1> HIDE DEF both
<1> DEFINE m == Len(first)
           n == Len(rest)
<1>8. DOMAIN both = 1..(m + n)
  BY <1>7, LenProperties
<1> HIDE DEF m, n
<1>9. ASSUME NEW i \in 1..(m + n)
      PROVE  \/ i \in 1..m /\ both[i] = first[i]
             \/ i - m \in 1..n /\ both[i] = rest[i - m]
  <2>1. CASE i \in 1..m
    BY <1>7, <2>1 DEF m
  <2>2. CASE i \notin 1..m
    <3>1. i - m \in 1..n
      BY <1>6, <2>2 DEF m, n
    <3>2. both[i] = rest[i - m]
      BY <1>7, <2>2 DEF m, n
    <3> QED
      BY <3>1, <3>2
  <2> QED
    BY <2>1, <2>2
<1>10. m \in Nat /\ n \in Nat /\ DOMAIN first = 1..m /\ DOMAIN rest = 1..n
  BY <1>6 DEF m, n
<1>11. ToSet(both) = ToSet(first) \cup ToSet(more)
  <2>1. ASSUME NEW i \in 1..m PROVE first[i] \in ToSet(both)
    <3>1. i \in 1..(m + n) /\ ~(i - m \in 1..n)
      BY <1>10
    <3> QED
      BY <1>8, <1>9, <3>1 DEF ToSet
  <2>2. ASSUME NEW i \in 1..n PROVE rest[i] \in ToSet(both)
    <3>1. m + i \in 1..(m + n) /\ ~(m + i \in 1..m) /\ (m + i) - m = i
      BY <1>10
    <3>2. both[m + i] = rest[i]
      BY <1>9, <3>1
    <3> QED
      BY <1>8, <3>1, <3>2 DEF ToSet
  <2>3. \A i \in 1..(m + n) : both[i] \in ToSet(first) \cup ToSet(rest)
    BY <1>9, <1>10 DEF ToSet
  <2>4. ToSet(both) = ToSet(first) \cup ToSet(rest)
    BY <1>8, <1>10, <2>1, <2>2, <2>3 DEF ToSet
  <2> QED
    BY <1>4, <2>4
<1>12. ASSUME IsInjective(first), IsInjective(more)
       PROVE  IsInjective(both)
  <2>1. IsInjective(rest)
    BY <1>5, <1>12
  <2> SUFFICES ASSUME NEW i \in 1..(m + n), NEW j \in 1..(m + n), both[i] = both[j]
               PROVE  i = j
    BY <1>8 DEF IsInjective
  <2>2. \A k \in 1..n : rest[k] \notin ToSet(first)
    BY <1>4, <1>10 DEF ToSet
  <2>3. \A k \in 1..m : first[k] \in ToSet(first)
    BY <1>10 DEF ToSet
  <2>4. CASE i \in 1..m /\ both[i] = first[i]
    <3>1. ~(j - m \in 1..n /\ both[j] = rest[j - m])
      BY <2>2, <2>3, <2>4
    <3>2. j \in 1..m /\ both[j] = first[j]
      BY <1>9, <3>1
    <3> QED
      BY <1>10, <1>12, <2>4, <3>2 DEF IsInjective
  <2>5. CASE i - m \in 1..n /\ both[i] = rest[i - m]
    <3>1. ~(j \in 1..m /\ both[j] = first[j])
      BY <2>2, <2>3, <2>5
    <3>2. j - m \in 1..n /\ both[j] = rest[j - m]
      BY <1>9, <3>1
    <3>3. i - m = j - m
      BY <1>10, <2>1, <2>5, <3>2 DEF IsInjective
    <3> QED
      BY <1>10, <3>3
  <2> QED
    BY <1>9, <2>4, <2>5
<1>13. ASSUME IsInjective(first), IsInjective(more)
       PROVE  Len(more) <= Len(both)
  <2>1. /\ IsFiniteSet(ToSet(more)) /\ Cardinality(ToSet(more)) = Len(more)
        /\ IsFiniteSet(ToSet(both)) /\ Cardinality(ToSet(both)) = Len(both)
    BY <1>7, <1>12, <1>13, CountRows
  <2>2. ToSet(more) \subseteq ToSet(both)
    BY <1>11
  <2> QED
    BY <2>1, <2>2, FS_Subset
<1>14. Len(first) <= Len(both)
  BY <1>6, <1>7
<1> QED
  BY <1>7, <1>11, <1>12, <1>13, <1>14 DEF both

LEMMA ResolvedLines ==
    ASSUME CommandShape
    PROVE  LET all == Distinct(Lines(syms))
           IN  /\ all \in Seq(AnyLine) /\ IsInjective(all)
               /\ ToSet(all) = {Line(s) : s \in ToSet(syms)}
               /\ Resolved = Prefix(all, Limit + 1)
<1>1. /\ Lines(syms) \in Seq(AnyLine)
      /\ ToSet(Lines(syms)) = {Line(s) : s \in ToSet(syms)}
  BY LinesAreRows DEF CommandShape
<1> QED
  BY <1>1, DistinctRows DEF Resolved

\* The lines of the rows that are kept, each where it is for the first time.
LinesOfRows(rows) ==
    LET kept == Where(rows, LAMBDA r : r[1] \notin Noisy)
    IN  Distinct([i \in DOMAIN kept |-> Line(kept[i][1])])

LEMMA LikeIsRead ==
    ASSUME CommandShape, NEW rows \in Select(RowsOfLike, ScanLimit)
    PROVE  /\ rows \in Seq(RowsOfLike)
           /\ IsFiniteSet(RowsOfLike)
           /\ Cardinality(RowsOfLike) <= ScanLimit => ToSet(rows) = RowsOfLike
<1>1. IsFiniteSet(RowsOfLike)
  <2>1. IsFiniteSet(Symbols) /\ IsFiniteSet(db.docs)
    BY QueryAssumption, ShapeGives
  <2>2. IsFiniteSet(db.docs \cup {NoFile})
    BY <2>1, FS_AddElement
  <2>3. IsFiniteSet(Symbols \X (db.docs \cup {NoFile}))
    BY <2>1, <2>2, FS_Product
  <2>4. RowsOfLike \subseteq Symbols \X (db.docs \cup {NoFile})
    BY DEF RowsOfLike
  <2> QED
    BY <2>3, <2>4, FS_Subset
<1>2. ScanLimit \in Nat
  <2>1. Limit * ScanFactor \in Nat /\ MinScan \in Nat
    BY QueryAssumption, ShapeGives
  <2>2. ASSUME NEW a \in Nat, NEW b \in Nat PROVE Max({a, b}) \in Nat
    <3>1. \E x \in {a, b} : \A y \in {a, b} : x >= y
      BY <2>2
    <3> QED
      BY <3>1 DEF Max
  <2> QED
    BY <2>1, <2>2 DEF ScanLimit
<1> QED
  BY <1>1, <1>2, Selected, AllSelected

LEMMA CollectedLines ==
    ASSUME CommandShape, NEW rows \in Seq(RowsOfLike)
    PROVE  LET all == LinesOfRows(rows)
           IN  /\ all \in Seq(AnyLine) /\ IsInjective(all)
               /\ ToSet(all) = {Line(r[1]) : r \in {x \in ToSet(rows) : x[1] \notin Noisy}}
               /\ Collected(rows) = Prefix(all, Limit + 1)
<1> DEFINE P == {i \in DOMAIN rows : rows[i][1] \notin Noisy}
           kept == AtPlaces(rows, P)
           lines == [i \in DOMAIN kept |-> Line(kept[i][1])]
<1>1. kept = Where(rows, LAMBDA r : r[1] \notin Noisy)
  BY DEF Where
<1>2. kept \in Seq(RowsOfLike) /\ ToSet(kept) = {rows[i] : i \in P}
  <2>1. P \in SUBSET DOMAIN rows
    OBVIOUS
  <2> HIDE DEF P
  <2> QED
    BY <2>1, KeptPlaces
<1>3. ToSet(kept) = {x \in ToSet(rows) : x[1] \notin Noisy}
  BY <1>2 DEF ToSet
<1>4. LinesOfRows(rows) = Distinct(lines) /\ Collected(rows) = Prefix(LinesOfRows(rows), Limit + 1)
  BY <1>1 DEF LinesOfRows, Collected
<1> HIDE DEF kept, P
<1>5. PICK n \in Nat : n = Len(kept) /\ DOMAIN kept = 1..n
  BY <1>2, LenProperties
<1>6. \A i \in 1..n : kept[i] \in RowsOfLike
  BY <1>2, <1>5, ElementOfSeq
<1>7. \A r \in RowsOfLike : r[1] \in Symbols
  BY DEF RowsOfLike
<1>8. lines \in [1..n -> AnyLine]
  BY <1>5, <1>6, <1>7 DEF AnyLine
<1>9. lines \in Seq(AnyLine)
  BY <1>8
<1>10. ToSet(lines) = {Line(r[1]) : r \in ToSet(kept)}
  BY <1>5 DEF ToSet
<1> HIDE DEF lines
<1>11. /\ Distinct(lines) \in Seq(AnyLine) /\ IsInjective(Distinct(lines))
       /\ ToSet(Distinct(lines)) = ToSet(lines)
  BY <1>9, DistinctRows
<1> QED
  BY <1>3, <1>4, <1>10, <1>11

-----------------------------------------------------------------------------
(* The types.                                                              *)

LEMMA SizesAtFirst == QueryInit => Sizes
<1> SUFFICES ASSUME QueryInit PROVE Sizes
  OBVIOUS
<1>1. CommandShape
  BY ShapeAtFirst
<1>2. Limit \in Nat \ {0}
  BY <1>1, ShapeGives
<1>3. /\ step = "resolve" /\ names = command.names /\ syms = <<>> /\ file = NoFile
      /\ offset = 0 /\ refs = <<>> /\ out = <<>> /\ warned = FALSE /\ exit = 0
  BY DEF QueryInit, Start
<1>4. /\ Limit * Max({1, Len(command.names)}) \in Nat
      /\ Limit * Len(command.names) \in Nat
  BY <1>1, RoomFor
<1>5. Len(<<>>) = 0
  OBVIOUS
<1>6. Len(out) <= Limit * Max({1, Len(command.names)})
  BY <1>3, <1>4, <1>5
<1>7. Len(out) + Len(syms) + Limit * Len(names) <= Limit * Len(command.names)
  BY <1>3, <1>4, <1>5
<1>8. Len(refs) <= Limit + 1
  BY <1>2, <1>3, <1>5
<1>9. step \notin {"refs", "print refs", "code", "query"} /\ offset \in Nat
  BY <1>3
<1> QED
  BY <1>3, <1>6, <1>7, <1>8, <1>9 DEF Sizes

\* What search prints is within the limit.
LEMMA SearchIsShort ==
    ASSUME CommandShape, PrintResolved \/ SearchLike
    PROVE  Len(out') <= Limit * Max({1, Len(command.names)}) \/ out' = out
<1>1. /\ Resolved \in Seq(AnyLine) /\ Cut(Resolved) \in Seq(AnyLine)
  <2>1. LET all == Distinct(Lines(syms))
        IN  all \in Seq(AnyLine) /\ Resolved = Prefix(all, Limit + 1)
    BY ResolvedLines
  <2> QED
    BY <2>1, OneMore
<1>2. CASE PrintResolved
  <2>1. out' = Cut(Resolved)
    BY <1>2 DEF PrintResolved, Show
  <2> QED
    BY <1>1, <2>1, CutIsShort
<1>3. CASE SearchLike
  <2>1. PICK rows \in Select(RowsOfLike, ScanLimit) :
           LET more == Collected(rows)
           IN  IF more = <<>> THEN Fail ELSE out' = Cut(MergedWith(Cut(Resolved), Cut(more)))
    BY <1>3 DEF SearchLike
  <2>2. rows \in Seq(RowsOfLike)
    BY LikeIsRead
  <2>3. Cut(Collected(rows)) \in Seq(AnyLine)
    <3>1. LET all == LinesOfRows(rows)
          IN  all \in Seq(AnyLine) /\ Collected(rows) = Prefix(all, Limit + 1)
      BY <2>2, CollectedLines
    <3> QED
      BY <3>1, OneMore
  <2>4. MergedWith(Cut(Resolved), Cut(Collected(rows))) \in Seq(AnyLine)
    BY <1>1, <2>3, Merges
  <2> QED
    BY <2>1, <2>4, CutIsShort DEF Fail
<1> QED
  BY <1>2, <1>3

\* What code and refs have printed so far are rows.
LEMMA OutIsRows ==
    ASSUME RefsSoFar, Sizes, command.verb \in {"refs", "code"}, step # "done"
    PROVE  (\E S : out \in Seq(S)) /\ Len(out) \in Nat
<1>1. CASE command.verb = "refs"
  <2>1. PICK S : out \in Seq(S)
    BY <1>1 DEF RefsSoFar
  <2> QED
    BY <2>1, LenProperties
<1>2. CASE command.verb = "code"
  <2>1. out = <<>>
    BY <1>2 DEF Sizes, OfOne
  <2>2. out \in Seq({}) /\ Len(out) = 0
    BY <2>1
  <2> QED
    BY <2>2
<1> QED
  BY <1>1, <1>2

LEMMA SizesKept ==
    ASSUME CommandShape, OnOne, RefsSoFar, Sizes, [QueryNext]_queryVars
    PROVE  Sizes'
<1>1. command' = command /\ db' = db
  BY DEF QueryNext, queryVars, workVars, ResolvePattern, PrintResolved, SearchLike,
     ResolveName, NamesResolved, ReadBatch, EndRefs, RefsDone, PrintCode, ResolveTheFile,
     SymbolsMain, RdepsMain, DepsOfFile, ResolveTheSymbol, DepsOfSymbol, MembersMain
<1>2. Limit' = Limit /\ Scope' = Scope
  BY <1>1 DEF Limit, Scope
<1>3. /\ Limit \in Nat \ {0} /\ AsksFor(Limit) \in Nat /\ db.docs \subseteq Nat \ {NoFile}
      /\ IsFiniteSet(db.docs)
  BY ShapeGives
<1> DEFINE Room == Limit * Max({1, Len(command.names)})
           All == Limit * Len(command.names)
<1>4. Room \in Nat /\ All \in Nat /\ All <= Room /\ Limit <= Room
  BY RoomFor
<1>5. /\ step \in {"resolve", "query", "refs", "print refs", "code", "done"}
      /\ file \in db.docs \cup {NoFile} /\ offset \in Nat /\ Len(refs) <= Limit + 1
      /\ warned \in BOOLEAN /\ exit \in {0, 1}
      /\ step \in {"refs", "print refs"} => command.verb = "refs"
      /\ step = "code" => command.verb = "code"
      /\ step = "query" => command.verb \in OfOne /\ (file # NoFile \/ syms # <<>>)
      /\ command.verb \notin OfOne \cup {"refs"} /\ step # "done" => out = <<>>
      /\ Len(out) <= Room
      /\ command.verb \in {"refs", "code"} /\ step # "done" =>
            Len(out) + Len(syms) + Limit * Len(names) <= All
  BY DEF Sizes
<1>6. /\ syms \in Seq(Symbols) /\ Len(syms) \in Nat
      /\ names \in Seq(ToSet(command.names)) /\ Len(names) \in Nat
  BY LenProperties DEF CommandShape
<1>7. \A k \in Nat : Limit * k \in Nat
  BY <1>3
<1>8. Room' = Room /\ All' = All
  BY <1>1, <1>2
<1> HIDE DEF Room, All
\* What is the same for every action that ends a command.
<1>9. ASSUME step' = "done", UNCHANGED <<file, offset, refs>>, warned' \in BOOLEAN,
             exit' \in {0, 1}, Len(out') <= Room
      PROVE  Sizes'
  BY <1>1, <1>2, <1>5, <1>8, <1>9 DEF Sizes, Room, All
<1>10. ASSUME CommandShape, NEW S, IsFiniteSet(S), NEW rows \in Select(S, AsksFor(Limit))
       PROVE  rows \in Seq(S) /\ Len(Cut(rows)) <= Room
  BY <1>3, <1>10, Selected, CutIsShort DEF Room
<1>11. CASE ResolvePattern
  <2>1. /\ step = "resolve" /\ step' = "resolve" /\ command.verb = "search"
        /\ UNCHANGED <<file, offset, refs, out, warned, exit>>
    BY <1>11 DEF ResolvePattern
  <2> QED
    BY <1>1, <1>2, <1>5, <1>8, <2>1 DEF Sizes, Room, All
<1>12. CASE PrintResolved \/ SearchLike
  <2>1. Len(out') <= Room
    BY <1>5, <1>12, SearchIsShort DEF Room
  <2>2. /\ step' = "done" /\ UNCHANGED <<file, offset, refs>>
        /\ warned' \in BOOLEAN /\ exit' \in {0, 1}
    BY <1>5, <1>12 DEF PrintResolved, SearchLike, Show, Fail, TooMany, workVars
  <2> QED
    BY <1>9, <2>1, <2>2
<1>13. CASE ResolveName
  <2>1. PICK found \in ResolveSymbol(db, Head(names), command.kind, AsksFor(Limit), Scope) :
           syms' = syms \o Cut(found) /\ warned' = (warned \/ TooMany(found))
    BY <1>13 DEF ResolveName
  <2>2. /\ command.verb \in {"refs", "code"} /\ step = "resolve" /\ names # <<>>
        /\ names' = Tail(names) /\ UNCHANGED <<step, file, offset, refs, out, exit>>
    BY <1>13 DEF ResolveName
  <2>3. found \in Seq(Symbols)
    BY <1>3, <2>1, <2>2, NamesMatch, FindsSymbols
  <2>4. Cut(found) \in Seq(Symbols) /\ Len(Cut(found)) \in Nat /\ Len(Cut(found)) <= Limit
    BY <2>3, CutIsShort
  <2>5. Len(syms') = Len(syms) + Len(Cut(found))
    BY <1>6, <2>1, <2>4, ConcatProperties
  <2>6. Len(names') = Len(names) - 1 /\ Len(names) # 0
    BY <1>6, <2>2, EmptySeq, HeadTailProperties
  <2>7. Limit * Len(names) = Limit * Len(names') + Limit
    <3>1. \A a, k \in Nat : a * k = a * (k - 1) + a
      OBVIOUS
    <3> QED
      BY <1>3, <1>6, <2>6, <3>1
  <2>8. Len(out') + Len(syms') + Limit * Len(names') <= All
    <3>1. Len(out) + Len(syms) + Limit * Len(names) <= All /\ out' = out
      BY <1>5, <2>2
    <3>2. Limit * Len(names') \in Nat
      <4>1. Len(names') \in Nat
        BY <1>6, <2>6
      <4> QED
        BY <1>7, <4>1
    <3>3. Len(out) \in Nat
      BY <2>2, OutIsRows
    <3> QED
      BY <1>3, <1>4, <1>6, <2>4, <2>5, <2>7, <3>1, <3>2, <3>3
  <2>9. warned' \in BOOLEAN
    BY <1>5, <2>1 DEF TooMany
  <2> QED
    BY <1>1, <1>2, <1>5, <1>8, <2>2, <2>8, <2>9 DEF Sizes, Room, All
<1>14. CASE NamesResolved
  <2>1. /\ step' = command.verb /\ command.verb \in {"refs", "code"} /\ step = "resolve"
        /\ UNCHANGED <<names, syms, file, offset, refs, out, warned, exit>>
    BY <1>14 DEF NamesResolved, workVars
  <2> QED
    BY <1>1, <1>2, <1>5, <1>8, <2>1 DEF Sizes, Room, All
<1>15. CASE ReadBatch
  <2> DEFINE s == Head(syms)
             read == refs \o [i \in DOMAIN Batch(s) |-> <<Batch(s)[i].doc, Batch(s)[i].chunk>>]
  <2>1. /\ step = "refs" /\ syms # <<>> /\ command.verb = "refs"
        /\ refs' = Prefix(Distinct(read), Limit + 1)
        /\ \/ step' = "print refs" /\ offset' = offset
           \/ step' = "refs" /\ offset' = offset + Len(Batch(s))
        /\ UNCHANGED <<names, syms, file, out, warned, exit>>
    BY <1>5, <1>15 DEF ReadBatch
  <2>2. /\ offset \in 0..Len(RefRows(s)) /\ refs \in Seq(PairsOf(s)) /\ Rising(refs)
        /\ ToSet(refs) = {PairOf(RefRows(s)[k]) : k \in 1..offset}
    BY <2>1 DEF RefsSoFar
  <2>3. Len(Batch(s)) \in Nat
    BY <2>2, BatchIsRows
  <2>4. Distinct(read) \in Seq(PairsOf(s))
    <3>1. Distinct(read) = Added(s)
      BY DEF Added
    <3> HIDE DEF s, read
    <3> QED
      BY <2>2, <3>1, BatchAdds
  <2> HIDE DEF s, read
  <2>5. Len(refs') <= Limit + 1
    <3>1. Len(Distinct(read)) \in Nat /\ Limit + 1 \in Nat
      BY <1>3, <2>4, LenProperties
    <3>2. Len(refs') = IF Limit + 1 <= Len(Distinct(read)) THEN Limit + 1
                       ELSE Len(Distinct(read))
      BY <2>1, <2>4, <3>1, FirstRows
    <3> QED
      BY <1>3, <3>1, <3>2
  <2>6. offset' \in Nat
    <3>1. offset \in Nat /\ (offset' = offset \/ offset' = offset + Len(Batch(s)))
      BY <1>5, <2>1
    <3> QED
      BY <2>3, <3>1
  <2> QED
    BY <1>1, <1>2, <1>5, <1>8, <2>1, <2>5, <2>6 DEF Sizes, Room, All
<1>16. CASE EndRefs
  <2>1. /\ step = "print refs" /\ command.verb = "refs" /\ step' = "refs" /\ refs' = <<>>
        /\ offset' = 0 /\ syms' = Tail(syms)
        /\ UNCHANGED <<names, file, warned, exit>>
    BY <1>5, <1>16 DEF EndRefs
  <2>2. PICK S : out \in Seq(S)
    BY <2>1, OutIsRows
  <2>3. Len(out) \in Nat
    BY <2>2, LenProperties
  <2>4. Len(out') \in Nat /\ Len(out') <= Len(out) + 1
    <3> DEFINE group == [sym |-> Head(syms), refs |-> Cut(refs), cut |-> TooMany(refs)]
    <3>1. out' = IF refs = <<>> THEN out ELSE Append(out, group)
      BY <1>16 DEF EndRefs
    <3> HIDE DEF group
    <3>2. out \in Seq(S \cup {group})
      BY <2>2
    <3>3. Len(Append(out, group)) = Len(out) + 1
      BY <3>2, AppendProperties
    <3> QED
      BY <2>3, <3>1, <3>3
  <2>5. Len(syms') = Len(syms) - 1
    <3>1. syms # <<>>
      BY <2>1 DEF CommandShape
    <3> QED
      BY <1>6, <2>1, <3>1, HeadTailProperties
  <2>6. Limit * Len(names) \in Nat /\ Limit * Len(names') = Limit * Len(names)
    BY <1>6, <1>7, <2>1
  <2>7. Len(out') + Len(syms') + Limit * Len(names') <= All
    <3>1. Len(out) + Len(syms) + Limit * Len(names) <= All
      BY <1>5, <2>1
    <3> QED
      BY <1>4, <1>6, <2>3, <2>4, <2>5, <2>6, <3>1
  <2>8. Len(out') <= Room
    <3>1. Len(syms') \in Nat
      <4>1. Tail(syms) \in Seq(Symbols)
        BY <1>6, <2>1, HeadTailProperties DEF CommandShape
      <4> QED
        BY <2>1, <4>1, LenProperties
    <3> QED
      BY <1>4, <2>4, <2>6, <2>7, <3>1
  <2>9. Len(refs') <= Limit + 1
    <3>1. refs' = <<>> /\ Limit \in Nat
      BY <1>3, <2>1
    <3>2. Len(refs') = 0
      BY <3>1
    <3> QED
      BY <3>1, <3>2
  <2>10. offset' \in Nat
    BY <2>1
  <2> QED
    BY <1>1, <1>2, <1>5, <1>8, <2>1, <2>7, <2>8, <2>9, <2>10 DEF Sizes, Room, All
<1>17. CASE RefsDone
  <2>1. /\ step' = "done" /\ exit' \in {0, 1}
        /\ UNCHANGED <<file, offset, refs, out, warned>>
    BY <1>17 DEF RefsDone, workVars
  <2> QED
    BY <1>5, <1>9, <2>1
<1>18. CASE PrintCode
  <2>1. PICK shown : out' = AtPlaces(syms, {i \in DOMAIN syms : syms[i] \in shown})
    BY <1>18 DEF PrintCode, Where
  <2> DEFINE P == {i \in DOMAIN syms : syms[i] \in shown}
  <2>2. out' = AtPlaces(syms, P) /\ P \in SUBSET DOMAIN syms
    BY <2>1
  <2> HIDE DEF P
  <2>3. out' \in Seq(Symbols) /\ Len(out') <= Len(syms)
    BY <1>6, <2>2, KeptPlaces
  <2>4. /\ step = "code" /\ command.verb = "code" /\ step' = "done" /\ exit' \in {0, 1}
        /\ UNCHANGED <<file, offset, refs, warned>>
    BY <1>5, <1>18 DEF PrintCode, workVars
  <2>5. Len(out) \in Nat
    BY <2>4, OutIsRows
  <2>6. Limit * Len(names) \in Nat
    BY <1>6, <1>7
  <2>7. Len(out') \in Nat
    BY <2>3, LenProperties
  <2>8. Len(out') <= Room
    BY <1>4, <1>5, <1>6, <2>3, <2>4, <2>5, <2>6, <2>7
  <2> QED
    BY <1>5, <1>9, <2>4, <2>8
<1>19. CASE ResolveTheFile
  <2>1. PICK files \in ResolveFile(db, command.file, Scope) :
           IF files = <<>> THEN Fail /\ UNCHANGED file
           ELSE file' = files[1] /\ step' = "query" /\ UNCHANGED <<out, warned, exit>>
    BY <1>19 DEF ResolveTheFile
  <2>2. /\ command.verb \in OfOne /\ step = "resolve"
        /\ UNCHANGED <<names, syms, offset, refs>>
    BY <1>19 DEF ResolveTheFile, OfOne
  <2>3. CASE files = <<>>
    BY <1>5, <1>9, <2>1, <2>2, <2>3 DEF Fail
  <2>4. CASE files # <<>>
    <3>1. files[1] \in db.docs
      <4>1. IsPattern(command.file)
        BY QueryAssumption DEF CommandShape, IsCommand
      <4>2. files[1] \in FoundFor(db.docs, command.file)
        BY <1>3, <2>4, <4>1, FilesResolved
      <4> QED
        BY <4>2 DEF FoundFor
    <3>2. command.verb \notin {"refs", "code"}
      BY <2>2 DEF OfOne
    <3>3. file' \in db.docs /\ file' # NoFile
      BY <1>3, <2>1, <2>4, <3>1
    <3> QED
      BY <1>1, <1>2, <1>5, <1>8, <2>1, <2>2, <2>4, <3>2, <3>3 DEF Sizes, Room, All
  <2> QED
    BY <2>3, <2>4
<1>20. CASE ResolveTheSymbol
  <2>1. /\ command.verb \in OfOne /\ step = "resolve"
        /\ UNCHANGED <<names, file, offset, refs>>
        /\ \/ Fail
           \/ step' = "query" /\ syms' # <<>> /\ UNCHANGED <<out, warned, exit>>
    BY <1>20 DEF ResolveTheSymbol, OfOne
  <2>2. CASE Fail
    BY <1>5, <1>9, <2>1, <2>2 DEF Fail
  <2>3. CASE step' = "query" /\ syms' # <<>> /\ UNCHANGED <<out, warned, exit>>
    <3>1. command.verb \notin {"refs", "code"}
      BY <2>1 DEF OfOne
    <3> QED
      BY <1>1, <1>2, <1>5, <1>8, <2>1, <2>3, <3>1 DEF Sizes, Room, All
  <2> QED
    BY <2>1, <2>2, <2>3
<1>21. CASE SymbolsMain
  <2>1. PICK rows \in Select(FileSymbols(db, file), AsksFor(Limit)) :
           IF rows = <<>> THEN Fail
           ELSE /\ step' = "done"
                /\ out' = Where(Cut(rows), LAMBDA s : KindOf[s] # "module")
                /\ warned' = TooMany(rows)
                /\ UNCHANGED exit
    BY <1>21 DEF SymbolsMain
  <2>2. UNCHANGED <<file, offset, refs>>
    BY <1>21 DEF SymbolsMain, workVars
  <2>3. CASE rows = <<>>
    BY <1>5, <1>9, <2>1, <2>2, <2>3 DEF Fail
  <2>4. CASE rows # <<>>
    <3>1. IsFiniteSet(FileSymbols(db, file))
      BY AskedForFinite
    <3> DEFINE S == FileSymbols(db, file)
    <3> HIDE DEF S
    <3>2. rows \in Seq(S) /\ Len(Cut(rows)) <= Room /\ Cut(rows) \in Seq(S)
      BY <1>10, <2>1, <3>1, CutIsShort DEF S
    <3> DEFINE P == {i \in DOMAIN Cut(rows) : KindOf[Cut(rows)[i]] # "module"}
    <3>3. out' = AtPlaces(Cut(rows), P) /\ P \in SUBSET DOMAIN Cut(rows)
      BY <2>1, <2>4 DEF Where
    <3> HIDE DEF P
    <3>4. out' \in Seq(S) /\ Len(out') <= Len(Cut(rows))
      BY <3>2, <3>3, KeptPlaces
    <3>5. Len(out') <= Room
      BY <1>4, <3>2, <3>4, LenProperties
    <3>6. step' = "done" /\ warned' \in BOOLEAN /\ exit' = exit
      BY <2>1, <2>4 DEF TooMany
    <3> QED
      BY <1>5, <1>9, <2>2, <3>5, <3>6
  <2> QED
    BY <2>3, <2>4
<1>22. CASE RdepsMain
  <2> DEFINE All2 == ImporterPaths(db, FileSymbols(db, file), file)
             importers == SelectSorted(All2)
             first == Prefix(importers, AsksFor(Limit))
             P == {i \in DOMAIN first : InScope(first[i], Scope)}
             rdeps == AtPlaces(first, P)
  <2>1. IF rdeps = <<>> THEN Fail ELSE Show(rdeps)
    BY <1>22 DEF RdepsMain, Where
  <2>2. IsFiniteSet(All2) /\ All2 \in SUBSET Nat
    BY AskedForFinite
  <2> HIDE DEF All2
  <2>3. importers \in Seq(All2)
    BY <2>2, SortedNumbers
  <2> HIDE DEF importers
  <2>4. first \in Seq(All2)
    BY <1>3, <2>3, FirstRows
  <2>5. P \in SUBSET DOMAIN first
    OBVIOUS
  <2> HIDE DEF first, P
  <2>6. rdeps \in Seq(All2)
    BY <2>4, <2>5, KeptPlaces
  <2> HIDE DEF rdeps
  <2>7. Len(Cut(rdeps)) <= Room
    BY <2>6, CutIsShort DEF Room
  <2>8. UNCHANGED <<file, offset, refs>>
    BY <1>22 DEF RdepsMain, workVars
  <2> QED
    BY <1>5, <1>9, <2>1, <2>7, <2>8 DEF Fail, Show, TooMany
<1>23. ASSUME NEW deps, IsFiniteSet(deps), PrintDeps(deps), UNCHANGED <<file, offset, refs>>
       PROVE  Sizes'
  <2>1. PICK rows \in Select(deps, AsksFor(Limit)) : IF rows = <<>> THEN Fail ELSE Show(rows)
    BY <1>23 DEF PrintDeps
  <2>2. Len(Cut(rows)) <= Room
    BY <1>10, <1>23, <2>1
  <2> QED
    BY <1>5, <1>9, <1>23, <2>1, <2>2 DEF Fail, Show, TooMany
<1>24. CASE DepsOfFile
  <2>1. IsFiniteSet(DepsFromFile(db, file))
    BY AskedForFinite
  <2> QED
    BY <1>23, <1>24, <2>1 DEF DepsOfFile, workVars
<1>25. CASE DepsOfSymbol
  <2>1. UNCHANGED <<file, offset, refs>>
    BY <1>25 DEF DepsOfSymbol, workVars
  <2>2. Fail \/ PrintDeps(DepsFromSymbol(db, syms[1], LocationOf(db, syms[1])))
    BY <1>25 DEF DepsOfSymbol
  <2>3. IsFiniteSet(DepsFromSymbol(db, syms[1], LocationOf(db, syms[1])))
    BY AskedForFinite
  <2> QED
    BY <1>5, <1>9, <1>23, <2>1, <2>2, <2>3 DEF Fail
<1>26. CASE MembersMain
  <2> DEFINE All2 == MemberRows(syms[1])
  <2>1. PICK rows \in Select(All2, MembersCap + 1) :
           LET direct == Prefix(Where(rows, LAMBDA r : r[1] \in DirectOf[syms[1]]), MembersCap)
           IN  IF direct = <<>>
               THEN /\ step' = "done" /\ exit' = 1
                    /\ warned' = (Len(rows) > MembersCap)
                    /\ UNCHANGED out
               ELSE /\ step' = "done"
                    /\ out' = Cut(direct)
                    /\ warned' = (TooMany(direct) \/ Len(rows) > MembersCap)
                    /\ UNCHANGED exit
    BY <1>26 DEF MembersMain
  <2> DEFINE P == {i \in DOMAIN rows : rows[i][1] \in DirectOf[syms[1]]}
             own == AtPlaces(rows, P)
             direct == Prefix(own, MembersCap)
  <2>2. /\ step' = "done" /\ exit' \in {1, exit} /\ warned' \in BOOLEAN
        /\ out' \in {out, Cut(direct)}
    <3>1. IF direct = <<>>
          THEN /\ step' = "done" /\ exit' = 1
               /\ warned' = (Len(rows) > MembersCap)
               /\ UNCHANGED out
          ELSE /\ step' = "done"
               /\ out' = Cut(direct)
               /\ warned' = (TooMany(direct) \/ Len(rows) > MembersCap)
               /\ UNCHANGED exit
      BY <2>1 DEF Where
    <3> HIDE DEF direct
    <3>2. CASE direct = <<>>
      BY <3>1, <3>2
    <3>3. CASE direct # <<>>
      BY <3>1, <3>3 DEF TooMany
    <3> QED
      BY <3>2, <3>3
  <2>3. syms[1] \in Symbols
    <3>1. syms # <<>>
      BY <1>5, <1>26 DEF MembersMain, OnOne, OfOne
    <3>2. Len(syms) # 0
      BY <1>6, <3>1, EmptySeq
    <3> QED
      BY <1>6, <3>2, ElementOfSeq
  <2>4. IsFiniteSet(All2)
    BY <2>3, AskedForFinite
  <2>5. MembersCap \in Nat /\ MembersCap + 1 \in Nat
    BY QueryAssumption
  <2> HIDE DEF All2
  <2>6. rows \in Seq(All2)
    BY <2>1, <2>4, <2>5, Selected
  <2>7. P \in SUBSET DOMAIN rows
    OBVIOUS
  <2> HIDE DEF P
  <2>8. own \in Seq(All2)
    BY <2>6, <2>7, KeptPlaces
  <2> HIDE DEF own
  <2>9. direct \in Seq(All2)
    BY <2>5, <2>8, FirstRows
  <2> HIDE DEF direct
  <2>10. Len(Cut(direct)) <= Room
    BY <2>9, CutIsShort DEF Room
  <2>11. UNCHANGED <<file, offset, refs>>
    BY <1>26 DEF MembersMain, workVars
  <2> QED
    BY <1>5, <1>9, <2>2, <2>10, <2>11
<1>27. CASE UNCHANGED queryVars
  BY <1>1, <1>2, <1>5, <1>8, <1>27 DEF queryVars, workVars, Sizes, Room, All
<1> QED
  BY <1>11, <1>12, <1>13, <1>14, <1>15, <1>16, <1>17, <1>18, <1>19, <1>20, <1>21, <1>22,
     <1>24, <1>25, <1>26, <1>27 DEF QueryNext

\* No command prints more than the limit for each name it is given.
THEOREM QueryTypeCorrect == QuerySpec => []QueryTypeOK
<1> DEFINE Inv == CommandShape /\ OnOne /\ RefsSoFar /\ FirstRefs /\ Sizes
<1>1. QueryInit => Inv
  BY ShapeAtFirst, OneAtFirst, RefsAtFirst, SizesAtFirst
<1>2. Inv /\ [QueryNext]_queryVars => Inv'
  BY ShapeKept, OnOneKept, RefsKept, SizesKept
<1>3. Inv => QueryTypeOK
  <2> SUFFICES ASSUME Inv PROVE QueryTypeOK
    OBVIOUS
  <2>1. IsDatabase(db)
    BY ShapeGives
  <2>2. ToSet(syms) \subseteq Symbols
    <3>1. syms \in Seq(Symbols) /\ DOMAIN syms = 1..Len(syms)
      BY LenProperties DEF CommandShape
    <3> QED
      BY <3>1, ElementOfSeq DEF ToSet
  <2> QED
    BY <2>1, <2>2 DEF QueryTypeOK, CommandShape, Sizes
<1> QED
  BY <1>1, <1>2, <1>3, PTL DEF QuerySpec

-----------------------------------------------------------------------------
(* What search finds.                                                      *)

\* The rows that are in a set.
RowsIn(rows, T) == AtPlaces(rows, {i \in DOMAIN rows : rows[i] \in T})

LEMMA KeptRows ==
    ASSUME NEW S, NEW rows \in Seq(S), NEW T
    PROVE  LET kept == RowsIn(rows, T)
           IN  /\ kept \in Seq(S) /\ ToSet(kept) = ToSet(rows) \cap T
               /\ IsInjective(rows) => IsInjective(kept)
<1> DEFINE P == {i \in DOMAIN rows : rows[i] \in T}
           kept == AtPlaces(rows, P)
<1>1. P \in SUBSET DOMAIN rows
  OBVIOUS
<1>2. {rows[i] : i \in P} = ToSet(rows) \cap T
  BY DEF ToSet
<1> HIDE DEF P
<1>3. kept \in Seq(S) /\ ToSet(kept) = {rows[i] : i \in P}
  BY <1>1, KeptPlaces
<1>4. ASSUME IsInjective(rows) PROVE IsInjective(kept)
  <2>1. PICK at \in [DOMAIN kept -> P] :
              /\ \A i \in DOMAIN kept : kept[i] = rows[at[i]]
              /\ \A i, j \in DOMAIN kept : i < j => at[i] < at[j]
    BY <1>1, KeptPlaces
  <2> HIDE DEF kept
  <2>2. DOMAIN kept \subseteq Nat /\ P \subseteq Nat
    BY <1>1, <1>3, LenProperties
  <2> SUFFICES ASSUME NEW i \in DOMAIN kept, NEW j \in DOMAIN kept, i < j
               PROVE  kept[i] # kept[j]
    BY <2>2 DEF IsInjective
  <2>3. at[i] \in P /\ at[j] \in P /\ at[i] < at[j]
    BY <2>1
  <2>4. at[i] \in Nat /\ at[j] \in Nat
    BY <2>2, <2>3
  <2>5. at[i] # at[j]
    BY <2>3, <2>4
  <2> QED
    BY <1>1, <1>4, <2>1, <2>3, <2>5 DEF IsInjective
<1> QED
  BY <1>2, <1>3, <1>4 DEF P, RowsIn

LEMMA CutRows ==
    ASSUME CommandShape, NEW S, NEW all \in Seq(S)
    PROVE  /\ Cut(all) \in Seq(S) /\ Len(Cut(all)) <= Limit
           /\ ToSet(Cut(all)) \subseteq ToSet(all)
           /\ IsInjective(all) => IsInjective(Cut(all))
           /\ Len(Cut(all)) < Limit => Cut(all) = all
<1>1. Limit \in Nat \ {0}
  BY ShapeGives
<1>2. Len(all) \in Nat /\ DOMAIN all = 1..Len(all)
  BY LenProperties
<1>3. /\ Cut(all) \in Seq(S)
      /\ Len(Cut(all)) = IF Limit <= Len(all) THEN Limit ELSE Len(all)
      /\ \A i \in 1..Len(Cut(all)) : Cut(all)[i] = all[i]
      /\ Len(all) <= Limit => Cut(all) = all
  BY <1>1, FirstRows DEF Cut
<1>4. DOMAIN Cut(all) = 1..Len(Cut(all)) /\ Len(Cut(all)) <= Len(all) /\ Len(Cut(all)) \in Nat
  BY <1>1, <1>2, <1>3, LenProperties
<1>5. \A i \in DOMAIN Cut(all) : i \in DOMAIN all /\ Cut(all)[i] = all[i]
  BY <1>2, <1>3, <1>4
<1>6. ToSet(Cut(all)) \subseteq ToSet(all)
  BY <1>5 DEF ToSet
<1>7. IsInjective(all) => IsInjective(Cut(all))
  BY <1>5 DEF IsInjective
<1>8. Len(Cut(all)) < Limit => Cut(all) = all
  BY <1>1, <1>2, <1>3
<1>9. Len(Cut(all)) <= Limit
  BY <1>1, <1>2, <1>3
<1> QED
  BY <1>3, <1>6, <1>7, <1>8, <1>9

\* The symbols that a name names.
NamedBy(p) == SymbolsFor(db, p.like, command.kind, Scope)
HeldBy(p) == SymbolsFor(db, p.inside, command.kind, Scope)
CasedBy(p) == IF NamedBy(p) = {} THEN HeldBy(p) \cap p.cased ELSE NamedBy(p)
KeptOf(p) == CasedBy(p) \cap p.matching
Resolves(p) == p.qualified /\ KeptOf(p) # {}

LEMMA FoundByMeans ==
    ASSUME NEW p
    PROVE  FoundBy(p) = IF Resolves(p) THEN KeptOf(p) ELSE HeldBy(p) \ Noisy
BY DEF FoundBy, Resolves, KeptOf, CasedBy, NamedBy, HeldBy

\* Of a name whose rows are all read, all the symbols it names are found.
LEMMA ResolveTells ==
    ASSUME CommandShape, NEW p \in ToSet(command.names), p.qualified, ReadWhole(p),
           NEW found \in ResolveSymbol(db, p, command.kind, AsksFor(Limit), Scope)
    PROVE  ToSet(found) = KeptOf(p)
<1> DEFINE limit == AsksFor(Limit)
           read == RowsToRead(p, limit)
           Ends == NamedBy(p)
           Holds == HeldBy(p)
           Matching(rows) == RowsIn(rows, p.matching)
           Cased(rows) == RowsIn(rows, p.cased)
           Exact == Select(Ends, read)
           Loose == {Cased(rows) : rows \in Select(Holds, read)}
<1>1. limit \in Nat \ {0} /\ read \in Nat \ {0}
  <2>1. limit \in Nat \ {0}
    BY ShapeGives
  <2>2. limit * QualifiedFactor \in Nat \ {0} /\ QualifiedRows \in Nat \ {0}
    <3>1. \A a, b \in Nat \ {0} : a * b \in Nat \ {0}
      OBVIOUS
    <3> QED
      BY <2>1, <3>1, QueryAssumption
  <2>3. ASSUME NEW a \in Nat \ {0}, NEW b \in Nat \ {0} PROVE Min({a, b}) \in Nat \ {0}
    <3>1. \E x \in {a, b} : \A y \in {a, b} : x <= y
      BY <2>3
    <3> QED
      BY <3>1 DEF Min
  <2> QED
    BY <2>1, <2>2, <2>3 DEF RowsToRead
<1>2. IsFiniteSet(Ends) /\ IsFiniteSet(Holds) /\ Ends \subseteq Symbols /\ Holds \subseteq Symbols
  <2>1. Ends \subseteq Symbols /\ Holds \subseteq Symbols
    <3>1. p.like \cup p.inside \subseteq Symbols
      BY QueryAssumption DEF CommandShape, IsCommand
    <3> QED
      BY <3>1 DEF NamedBy, HeldBy, SymbolsFor
  <2> HIDE DEF Ends, Holds
  <2> QED
    BY QueryAssumption, FS_Subset, <2>1
<1>3. IF Ends # {}
      THEN Cardinality(Ends) <= read /\ Cardinality(Ends \cap p.matching) <= limit
      ELSE Cardinality(Holds) <= read /\ Cardinality(Holds \cap p.cased \cap p.matching) <= limit
  BY DEF ReadWhole, NamedBy, HeldBy
<1>4. PICK rows : /\ rows \in IF Exact = {<<>>} THEN Loose ELSE Exact
                  /\ found = Prefix(Matching(rows), limit)
  BY DEF ResolveSymbol, NamedBy, HeldBy, Where, RowsIn
<1>5. Exact = {<<>>} <=> Ends = {}
  <2>1. ASSUME Exact = {<<>>} PROVE Ends = {}
    <3>1. <<>> \in Select(Ends, read) /\ Len(<<>>) = 0
      BY <2>1
    <3>2. ToSet(<<>>) = Ends
      BY <1>1, <1>2, <3>1, Selected
    <3> QED
      BY <3>2 DEF ToSet
  <2>2. ASSUME Ends = {} PROVE Exact = {<<>>}
    <3>1. IsFiniteSet({}) /\ Cardinality({}) = 0
      BY FS_EmptySet
    <3>2. SetToSeqs({}) = {<<>>}
      <4>1. SetToSeqs({}) = {f \in [1..0 -> {}] : \A i, j \in 1..0 : i # j => f[i] # f[j]}
        BY <3>1 DEF SetToSeqs
      <4>2. [1..0 -> {}] = {<<>>}
        <5>1. 1..0 = {}
          OBVIOUS
        <5>2. <<>> \in [{} -> {}]
          OBVIOUS
        <5>3. \A f \in [{} -> {}] : f = <<>>
          OBVIOUS
        <5> QED
          BY <5>1, <5>2, <5>3
      <4> QED
        BY <4>1, <4>2
    <3>3. Prefix(<<>>, read) = <<>>
      <4>1. <<>> \in Seq({}) /\ Len(<<>>) <= read
        BY <1>1
      <4> QED
        BY <1>1, <4>1, FirstRows
    <3> QED
      BY <2>2, <3>2, <3>3 DEF Select
  <2> QED
    BY <2>1, <2>2
<1>6. /\ rows \in Seq(Symbols) /\ IsInjective(rows) /\ ToSet(rows) = CasedBy(p)
      /\ Cardinality(ToSet(rows) \cap p.matching) <= limit
  <2>1. CASE Ends # {}
    <3>1. rows \in Select(Ends, read)
      BY <1>4, <1>5, <2>1
    <3>2. rows \in Seq(Ends) /\ IsInjective(rows)
      BY <1>1, <1>2, <3>1, Selected
    <3>3. ToSet(rows) = Ends
      BY <1>1, <1>2, <1>3, <2>1, <3>1, AllSelected
    <3>4. rows \in Seq(Symbols)
      BY <1>2, <3>2
    <3> QED
      BY <1>3, <2>1, <3>2, <3>3, <3>4 DEF CasedBy
  <2>2. CASE Ends = {}
    <3>1. PICK all \in Select(Holds, read) : rows = Cased(all)
      BY <1>4, <1>5, <2>2
    <3>2. all \in Seq(Holds) /\ IsInjective(all)
      BY <1>1, <1>2, <3>1, Selected
    <3>3. ToSet(all) = Holds
      BY <1>1, <1>2, <1>3, <2>2, <3>1, AllSelected
    <3> HIDE DEF Holds
    <3>4. rows \in Seq(Holds) /\ IsInjective(rows) /\ ToSet(rows) = Holds \cap p.cased
      <4>1. all \in Seq(Holds)
        BY <3>2
      <4>2. LET kept == RowsIn(all, p.cased)
            IN  /\ kept \in Seq(Holds) /\ ToSet(kept) = ToSet(all) \cap p.cased
                /\ IsInjective(all) => IsInjective(kept)
        BY <4>1, KeptRows
      <4> QED
        BY <3>1, <3>2, <3>3, <4>2
    <3>5. rows \in Seq(Symbols)
      BY <1>2, <3>4
    <3> QED
      BY <1>3, <2>2, <3>4, <3>5 DEF CasedBy, Holds
  <2> QED
    BY <2>1, <2>2
<1> DEFINE match == Matching(rows)
<1>7. match \in Seq(Symbols) /\ IsInjective(match) /\ ToSet(match) = CasedBy(p) \cap p.matching
  <2>1. rows \in Seq(Symbols)
    BY <1>6
  <2>2. LET kept == RowsIn(rows, p.matching)
        IN  /\ kept \in Seq(Symbols) /\ ToSet(kept) = ToSet(rows) \cap p.matching
            /\ IsInjective(rows) => IsInjective(kept)
    BY <2>1, KeptRows
  <2> QED
    BY <1>6, <2>2
<1>8. found = Prefix(match, limit)
  BY <1>4
<1> HIDE DEF match, limit, read
<1>9. Len(match) = Cardinality(ToSet(match)) /\ Len(match) \in Nat
  BY <1>7, CountRows, LenProperties
<1>10. Len(match) <= limit
  BY <1>6, <1>7, <1>9
<1>11. found = match
  BY <1>1, <1>7, <1>8, <1>10, FirstRows
<1> QED
  BY <1>7, <1>11 DEF KeptOf

\* What the patterns of a command line find.
Asked == ToSet(command.names)
AllRead == \A i \in DOMAIN command.names : ReadWhole(command.names[i])
Wanted == {Line(s) : s \in UNION {FoundBy(command.names[i]) : i \in DOMAIN command.names}}

\* What search has found of the patterns it has looked at.
FoundSoFar ==
    /\ \A s \in ToSet(syms) : \E p \in Asked : Resolves(p) /\ s \in KeptOf(p)
    /\ \A p \in ToSet(like) : ~Resolves(p)
    /\ \A p \in Asked : \/ p \in ToSet(names)
                        \/ Resolves(p) /\ KeptOf(p) \subseteq ToSet(syms)
                        \/ ~Resolves(p) /\ p \in ToSet(like)

SearchSoFar ==
    command.verb = "search" =>
       /\ step \in {"resolve", "done"}
       /\ like \in Seq(Asked)
       /\ step = "resolve" => exit = 0
       /\ step = "resolve" /\ AllRead => FoundSoFar

\* What a search that does not fail may print.
FindsEachOnce(rows) ==
    /\ IsInjective(rows) /\ Len(rows) <= Limit
    /\ AllRead => /\ ToSet(rows) \subseteq Wanted
                  /\ Len(rows) < Limit /\ Cardinality(RowsOfLike) <= ScanLimit
                        => ToSet(rows) = Wanted

LEMMA FindsMeans ==
    SearchFindsEachOnce <=> /\ Done("search") /\ exit = 0 => FindsEachOnce(out)
                            /\ Done("search") /\ exit # 0 => OneFindsNothing
BY DEF SearchFindsEachOnce, FindsEachOnce, AllRead, Wanted

\* What a pattern that does not resolve finds, and the rows that are read for it.
LEMMA LikeTells ==
    ASSUME CommandShape, like \in Seq(Asked), FoundSoFar
    PROVE  {r[1] : r \in RowsOfLike} = UNION {HeldBy(p) : p \in ToSet(like)}
<1>0. DOMAIN like = 1..Len(like) /\ ToSet(like) \subseteq Asked
  <2>1. DOMAIN like = 1..Len(like) /\ \A i \in 1..Len(like) : like[i] \in Asked
    BY LenProperties, ElementOfSeq
  <2> QED
    BY <2>1 DEF ToSet
<1>1. db.defs \subseteq Symbols \X db.docs /\ NoFile \notin db.docs
  BY ShapeGives DEF IsDatabase
<1>2. \A p \in Asked : p.inside \subseteq Symbols
  BY QueryAssumption DEF CommandShape, IsCommand, Asked
<1>3. ASSUME NEW r \in RowsOfLike PROVE r[1] \in UNION {HeldBy(p) : p \in ToSet(like)}
  <2>1. /\ r \in Symbols \X (db.docs \cup {NoFile})
        /\ command.kind = AnyKind \/ KindOf[r[1]] = command.kind
        /\ IF r[2] = NoFile THEN DefinitionsOf(db, r[1]) = {} /\ Scope = NoScope
           ELSE r \in db.defs /\ InScope(r[2], Scope)
    BY DEF RowsOfLike
  <2>2. PICK i \in DOMAIN like : r[1] \in like[i].inside
    BY DEF RowsOfLike
  <2>3. r = <<r[1], r[2]>>
    BY <2>1
  <2>4. Scope = NoScope \/ \E d \in Scope : <<r[1], d>> \in db.defs
    BY <2>1, <2>3 DEF InScope
  <2>5. r[1] \in HeldBy(like[i])
    BY <2>1, <2>2, <2>4 DEF HeldBy, SymbolsFor
  <2> QED
    BY <2>5 DEF ToSet
<1>4. ASSUME NEW p \in ToSet(like), NEW s \in HeldBy(p) PROVE \E r \in RowsOfLike : r[1] = s
  <2>1. PICK i \in DOMAIN like : like[i] = p
    BY DEF ToSet
  <2>2. /\ s \in p.inside /\ s \in Symbols
        /\ command.kind = AnyKind \/ KindOf[s] = command.kind
        /\ Scope = NoScope \/ \E d \in Scope : <<s, d>> \in db.defs
    BY <1>0, <1>2 DEF HeldBy, SymbolsFor
  <2>3. CASE Scope = NoScope /\ DefinitionsOf(db, s) = {}
    <3> DEFINE r == <<s, NoFile>>
    <3>1. r \in RowsOfLike
      BY <2>1, <2>2, <2>3 DEF RowsOfLike
    <3> QED
      BY <3>1
  <2>4. ASSUME NEW d, <<s, d>> \in db.defs, InScope(d, Scope)
        PROVE  \E r \in RowsOfLike : r[1] = s
    <3> DEFINE r == <<s, d>>
    <3>1. d \in db.docs /\ d # NoFile
      BY <1>1, <2>4
    <3>2. r \in RowsOfLike
      BY <2>1, <2>2, <2>4, <3>1 DEF RowsOfLike
    <3> QED
      BY <3>2
  <2>5. CASE Scope = NoScope /\ DefinitionsOf(db, s) # {}
    <3>1. PICK def \in db.defs : def[1] = s
      BY <2>5 DEF DefinitionsOf
    <3>2. def = <<s, def[2]>>
      BY <1>1, <3>1
    <3> QED
      BY <2>4, <2>5, <3>2 DEF InScope
  <2>6. CASE Scope # NoScope
    <3>1. PICK d \in Scope : <<s, d>> \in db.defs
      BY <2>2, <2>6
    <3> QED
      BY <2>4, <3>1 DEF InScope
  <2> QED
    BY <2>3, <2>5, <2>6
<1> QED
  BY <1>3, <1>4

\* All that the patterns find is found by one of the two ways.
LEMMA WantedMeans ==
    ASSUME CommandShape, like \in Seq(Asked), FoundSoFar, names = <<>>
    PROVE  Wanted = {Line(s) : s \in ToSet(syms)}
                       \cup {Line(r[1]) : r \in {x \in RowsOfLike : x[1] \notin Noisy}}
<1>0. \A p \in ToSet(like) : p \in Asked
  <2>1. DOMAIN like = 1..Len(like) /\ \A i \in 1..Len(like) : like[i] \in Asked
    BY LenProperties, ElementOfSeq
  <2> QED
    BY <2>1 DEF ToSet
<1>1. Wanted = {Line(s) : s \in UNION {FoundBy(p) : p \in Asked}}
  BY DEF Wanted, Asked, ToSet
<1>2. /\ \A s \in ToSet(syms) : \E p \in Asked : Resolves(p) /\ s \in KeptOf(p)
      /\ \A p \in ToSet(like) : ~Resolves(p)
      /\ \A p \in Asked : \/ Resolves(p) /\ KeptOf(p) \subseteq ToSet(syms)
                          \/ ~Resolves(p) /\ p \in ToSet(like)
  BY DEF FoundSoFar, ToSet
<1>3. \A p : FoundBy(p) = IF Resolves(p) THEN KeptOf(p) ELSE HeldBy(p) \ Noisy
  BY FoundByMeans
<1> DEFINE LikeSyms == {r[1] : r \in RowsOfLike}
<1>4. LikeSyms = UNION {HeldBy(p) : p \in ToSet(like)}
  BY LikeTells
<1>5. {Line(r[1]) : r \in {x \in RowsOfLike : x[1] \notin Noisy}}
         = {Line(s) : s \in LikeSyms \ Noisy}
  OBVIOUS
<1> HIDE DEF LikeSyms
<1>6. UNION {FoundBy(p) : p \in Asked} = ToSet(syms) \cup (LikeSyms \ Noisy)
  <2>1. ASSUME NEW p \in Asked, NEW s \in FoundBy(p)
        PROVE  s \in ToSet(syms) \cup (LikeSyms \ Noisy)
    BY <1>2, <1>3, <1>4, <2>1
  <2>2. ASSUME NEW s \in ToSet(syms) PROVE \E p \in Asked : s \in FoundBy(p)
    BY <1>2, <1>3
  <2>3. ASSUME NEW s \in LikeSyms \ Noisy PROVE \E p \in Asked : s \in FoundBy(p)
    BY <1>0, <1>2, <1>3, <1>4
  <2> QED
    BY <2>1, <2>2, <2>3
<1> QED
  BY <1>1, <1>5, <1>6

-----------------------------------------------------------------------------
(* A search prints what it has found.                                      *)

LEMMA ResolvedOnly ==
    ASSUME CommandShape, like = <<>>, names = <<>>, like \in Seq(Asked),
           AllRead => FoundSoFar
    PROVE  FindsEachOnce(Cut(Resolved))
<1> DEFINE all == Distinct(Lines(syms))
<1>1. /\ all \in Seq(AnyLine) /\ IsInjective(all)
      /\ ToSet(all) = {Line(s) : s \in ToSet(syms)}
      /\ Resolved = Prefix(all, Limit + 1)
  BY ResolvedLines
<1> HIDE DEF all
<1>2. /\ Len(Cut(Resolved)) <= Limit /\ ToSet(Cut(Resolved)) \subseteq ToSet(all)
      /\ IsInjective(Cut(Resolved))
      /\ Len(Cut(Resolved)) < Limit => Cut(Resolved) = all
  BY <1>1, OneMore
<1>3. RowsOfLike = {}
  BY DEF RowsOfLike
<1>4. AllRead => Wanted = ToSet(all)
  BY <1>1, <1>3, WantedMeans
<1> QED
  BY <1>2, <1>4 DEF FindsEachOnce

\* When no row is kept, a pattern that was not resolved finds nothing.
LEMMA FailsForNothing ==
    ASSUME CommandShape, names = <<>>, like \in Seq(Asked), like # <<>>,
           AllRead => FoundSoFar,
           NEW rows \in Select(RowsOfLike, ScanLimit), Collected(rows) = <<>>
    PROVE  OneFindsNothing
<1> SUFFICES ASSUME AllRead, Cardinality(RowsOfLike) <= ScanLimit
             PROVE  \E p \in Asked : FoundBy(p) = {}
  BY DEF OneFindsNothing, AllRead, Asked, ToSet
<1>1. rows \in Seq(RowsOfLike) /\ ToSet(rows) = RowsOfLike
  BY LikeIsRead
<1> DEFINE all == LinesOfRows(rows)
<1>2. /\ all \in Seq(AnyLine)
      /\ ToSet(all) = {Line(r[1]) : r \in {x \in RowsOfLike : x[1] \notin Noisy}}
      /\ Prefix(all, Limit + 1) = <<>>
  BY <1>1, CollectedLines
<1> HIDE DEF all
<1>3. ToSet(all) = {}
  <2>1. all = <<>>
    BY <1>2, OneMore
  <2> QED
    BY <2>1 DEF ToSet
<1>4. \A r \in RowsOfLike : r[1] \in Noisy
  BY <1>2, <1>3
<1>5. PICK p \in Asked : p \in ToSet(like)
  <2>1. like[1] \in Asked /\ 1 \in DOMAIN like
    BY LenProperties, ElementOfSeq, EmptySeq
  <2> QED
    BY <2>1 DEF ToSet
<1>6. HeldBy(p) \subseteq Noisy
  BY <1>4, <1>5, LikeTells
<1>7. ~Resolves(p)
  BY <1>5 DEF FoundSoFar
<1> QED
  BY <1>6, <1>7, FoundByMeans

LEMMA BothKinds ==
    ASSUME CommandShape, names = <<>>, like \in Seq(Asked), AllRead => FoundSoFar,
           NEW rows \in Select(RowsOfLike, ScanLimit)
    PROVE  FindsEachOnce(Cut(MergedWith(Cut(Resolved), Cut(Collected(rows)))))
<1> DEFINE all == Distinct(Lines(syms))
           found == LinesOfRows(rows)
           first == Cut(Resolved)
           more == Cut(Collected(rows))
           both == MergedWith(first, more)
           print == Cut(both)
           Found(S) == {Line(r[1]) : r \in {x \in S : x[1] \notin Noisy}}
<1>1. /\ all \in Seq(AnyLine) /\ IsInjective(all)
      /\ ToSet(all) = {Line(s) : s \in ToSet(syms)}
      /\ Resolved = Prefix(all, Limit + 1)
  BY ResolvedLines
<1>2. /\ rows \in Seq(RowsOfLike)
      /\ Cardinality(RowsOfLike) <= ScanLimit => ToSet(rows) = RowsOfLike
  BY LikeIsRead
<1>3. /\ found \in Seq(AnyLine) /\ IsInjective(found)
      /\ ToSet(found) = Found(ToSet(rows))
      /\ Collected(rows) = Prefix(found, Limit + 1)
  BY <1>2, CollectedLines
<1>4. ToSet(rows) \subseteq RowsOfLike
  <2>1. DOMAIN rows = 1..Len(rows) /\ \A i \in 1..Len(rows) : rows[i] \in RowsOfLike
    BY <1>2, LenProperties, ElementOfSeq
  <2> QED
    BY <2>1 DEF ToSet
<1>5. ToSet(found) \subseteq Found(RowsOfLike)
  BY <1>3, <1>4
<1>6. Cardinality(RowsOfLike) <= ScanLimit => ToSet(found) = Found(RowsOfLike)
  BY <1>2, <1>3
<1>7. AllRead => Wanted = ToSet(all) \cup Found(RowsOfLike)
  BY <1>1, WantedMeans
<1> HIDE DEF all, found, Found
<1>8. /\ first \in Seq(AnyLine) /\ Len(first) <= Limit /\ ToSet(first) \subseteq ToSet(all)
      /\ IsInjective(first)
      /\ Len(first) < Limit => first = all
  BY <1>1, OneMore
<1>9. /\ more \in Seq(AnyLine) /\ Len(more) <= Limit /\ ToSet(more) \subseteq ToSet(found)
      /\ IsInjective(more)
      /\ Len(more) < Limit => more = found
  BY <1>3, OneMore
<1> HIDE DEF first, more
<1>10. /\ both \in Seq(AnyLine) /\ ToSet(both) = ToSet(first) \cup ToSet(more)
       /\ Len(first) <= Len(both) /\ Len(more) <= Len(both) /\ IsInjective(both)
  BY <1>8, <1>9, Merges
<1> HIDE DEF both
<1>11. /\ print \in Seq(AnyLine) /\ Len(print) <= Limit /\ ToSet(print) \subseteq ToSet(both)
       /\ IsInjective(print)
       /\ Len(print) < Limit => print = both
  BY <1>10, CutRows
<1> HIDE DEF print
<1>12. AllRead => ToSet(print) \subseteq Wanted
  BY <1>5, <1>7, <1>8, <1>9, <1>10, <1>11
<1>13. ASSUME AllRead, Len(print) < Limit, Cardinality(RowsOfLike) <= ScanLimit
       PROVE  ToSet(print) = Wanted
  <2>1. print = both
    BY <1>11, <1>13
  <2>2. Len(first) < Limit /\ Len(more) < Limit
    <3>1. /\ Len(first) \in Nat /\ Len(more) \in Nat /\ Len(both) \in Nat
          /\ Limit \in Nat
      BY <1>8, <1>9, <1>10, LenProperties, ShapeGives
    <3> QED
      BY <1>10, <1>13, <2>1, <3>1
  <2>3. ToSet(both) = ToSet(all) \cup ToSet(found)
    BY <1>8, <1>9, <1>10, <2>2
  <2> QED
    BY <1>6, <1>7, <1>13, <2>1, <2>3
<1>14. FindsEachOnce(print)
  BY <1>11, <1>12, <1>13 DEF FindsEachOnce
<1> QED
  BY <1>14 DEF print, both, first, more

\* Two sequences of rows, one after the other.
LEMMA JoinedRows ==
    ASSUME NEW S, NEW first \in Seq(S), NEW more \in Seq(S)
    PROVE  ToSet(first \o more) = ToSet(first) \cup ToSet(more)
<1>1. PICK m \in Nat, n \in Nat : m = Len(first) /\ n = Len(more)
  BY LenProperties
<1>2. DOMAIN first = 1..m /\ DOMAIN more = 1..n
  BY <1>1, LenProperties
<1>3. /\ first \o more \in Seq(S) /\ Len(first \o more) = m + n
      /\ \A i \in 1..(m + n) :
            (first \o more)[i] = IF i <= m THEN first[i] ELSE more[i - m]
  BY <1>1, ConcatProperties
<1> DEFINE both == first \o more
<1>4. DOMAIN both = 1..(m + n)
  BY <1>1, <1>3, LenProperties
<1>5. \A i \in 1..(m + n) : both[i] = IF i <= m THEN first[i] ELSE more[i - m]
  BY <1>3
<1> HIDE DEF both
<1>6. ASSUME NEW i \in 1..(m + n) PROVE both[i] \in ToSet(first) \cup ToSet(more)
  <2>1. CASE i <= m
    <3>1. i \in 1..m /\ both[i] = first[i]
      BY <1>5, <2>1
    <3> QED
      BY <1>2, <3>1 DEF ToSet
  <2>2. CASE ~(i <= m)
    <3>1. i - m \in 1..n /\ both[i] = more[i - m]
      BY <1>5, <2>2
    <3> QED
      BY <1>2, <3>1 DEF ToSet
  <2> QED
    BY <2>1, <2>2
<1>7. ASSUME NEW i \in 1..m PROVE first[i] \in ToSet(both)
  <2>1. i \in 1..(m + n) /\ both[i] = first[i]
    BY <1>5
  <2> QED
    BY <1>4, <2>1 DEF ToSet
<1>8. ASSUME NEW i \in 1..n PROVE more[i] \in ToSet(both)
  <2>1. m + i \in 1..(m + n) /\ ~(m + i <= m) /\ (m + i) - m = i
    OBVIOUS
  <2>2. both[m + i] = more[i]
    BY <1>5, <2>1
  <2> QED
    BY <1>4, <2>1, <2>2 DEF ToSet
<1>9. ToSet(both) = ToSet(first) \cup ToSet(more)
  BY <1>2, <1>4, <1>6, <1>7, <1>8 DEF ToSet
<1> QED
  BY <1>9 DEF both

LEMMA AddedRow ==
    ASSUME NEW S, NEW rows \in Seq(S), NEW r \in S
    PROVE  ToSet(Append(rows, r)) = ToSet(rows) \cup {r}
<1>1. Append(rows, r) = rows \o <<r>> /\ <<r>> \in Seq(S)
  BY AppendIsConcat
<1>2. ToSet(<<r>>) = {r}
  <2>1. DOMAIN <<r>> = {1} /\ <<r>>[1] = r
    OBVIOUS
  <2> QED
    BY <2>1 DEF ToSet
<1>3. ToSet(rows \o <<r>>) = ToSet(rows) \cup ToSet(<<r>>)
  BY <1>1, JoinedRows
<1> QED
  BY <1>1, <1>2, <1>3

LEMMA SearchAtFirst == QueryInit => SearchSoFar /\ SearchFindsEachOnce
<1> SUFFICES ASSUME QueryInit PROVE SearchSoFar /\ SearchFindsEachOnce
  OBVIOUS
<1>1. /\ step = "resolve" /\ names = command.names /\ syms = <<>> /\ like = <<>>
      /\ exit = 0
  BY DEF QueryInit, Start
<1>2. FoundSoFar
  BY <1>1 DEF FoundSoFar, Asked, ToSet
<1> QED
  BY <1>1, <1>2 DEF SearchSoFar, SearchFindsEachOnce, Done

\* What a pattern names does not change.
LEMMA SameMeaning ==
    ASSUME db' = db, command' = command
    PROVE  /\ \A p : /\ KeptOf(p)' = KeptOf(p) /\ Resolves(p)' = Resolves(p)
                     /\ ReadWhole(p)' = ReadWhole(p) /\ FoundBy(p)' = FoundBy(p)
           /\ Asked' = Asked /\ AllRead' = AllRead /\ Wanted' = Wanted
           /\ Limit' = Limit /\ ScanLimit' = ScanLimit
           /\ like' = like => RowsOfLike' = RowsOfLike
<1>1. Limit' = Limit /\ Scope' = Scope
  BY DEF Limit, Scope
<1>2. \A p : NamedBy(p)' = NamedBy(p) /\ HeldBy(p)' = HeldBy(p)
  BY <1>1 DEF NamedBy, HeldBy, SymbolsFor
<1>3. \A p : KeptOf(p)' = KeptOf(p) /\ Resolves(p)' = Resolves(p)
  BY <1>2 DEF KeptOf, Resolves, CasedBy
<1>4. \A p : FoundBy(p)' = FoundBy(p)
  BY <1>1 DEF FoundBy, SymbolsFor
<1>5. \A p : ReadWhole(p)' = ReadWhole(p)
  BY <1>1 DEF ReadWhole, SymbolsFor, AsksFor, RowsToRead
<1>6. Asked' = Asked /\ AllRead' = AllRead
  BY <1>5 DEF Asked, AllRead
<1>7. \A s : Line(s)' = Line(s)
  BY DEF Line, LocationOf, DefinitionsOf
<1>8. Wanted' = Wanted
  BY <1>4, <1>7 DEF Wanted
<1>9. ScanLimit' = ScanLimit
  BY <1>1 DEF ScanLimit
<1>10. like' = like => RowsOfLike' = RowsOfLike
  BY <1>1 DEF RowsOfLike, DefinitionsOf, InScope
<1> QED
  BY <1>1, <1>3, <1>4, <1>5, <1>6, <1>8, <1>9, <1>10

\* A pattern more is looked at.
LEMMA PatternAdds ==
    ASSUME CommandShape, SearchSoFar, ResolvePattern
    PROVE  SearchSoFar'
<1>1. /\ command.verb = "search" /\ step = "resolve" /\ names # <<>> /\ exit' = exit
      /\ db' = db /\ command' = command /\ step' = step /\ names' = Tail(names)
  BY DEF ResolvePattern
<1> DEFINE p == Head(names)
<1>2. p \in Asked /\ ToSet(names) = {p} \cup ToSet(Tail(names))
  <2>1. names \in Seq(Asked)
    BY DEF CommandShape, Asked
  <2>2. PICK n \in Nat : n = Len(names)
    BY <2>1, LenProperties
  <2>3. DOMAIN names = 1..n /\ n > 0 /\ \A i \in 1..n : names[i] \in Asked
    BY <1>1, <2>1, <2>2, LenProperties, ElementOfSeq, EmptySeq
  <2>4. /\ Head(names) = names[1] /\ Tail(names) \in Seq(Asked) /\ Len(Tail(names)) = n - 1
        /\ \A i \in 1..(n - 1) : Tail(names)[i] = names[i + 1]
    BY <1>1, <2>1, <2>2, HeadTailProperties
  <2>5. DOMAIN Tail(names) = 1..(n - 1)
    BY <2>4, LenProperties
  <2>6. ASSUME NEW i \in 1..n PROVE names[i] \in {p} \cup ToSet(Tail(names))
    <3>1. CASE i = 1
      BY <2>4, <3>1
    <3>2. CASE i # 1
      <4>1. i - 1 \in 1..(n - 1) /\ (i - 1) + 1 = i
        BY <2>2, <3>2
      <4> QED
        BY <2>4, <2>5, <4>1 DEF ToSet
    <3> QED
      BY <3>1, <3>2
  <2>7. ASSUME NEW i \in 1..(n - 1) PROVE Tail(names)[i] \in ToSet(names)
    <3>1. i + 1 \in 1..n
      BY <2>2
    <3> QED
      BY <2>3, <2>4, <3>1 DEF ToSet
  <2>8. 1 \in 1..n
    BY <2>2, <2>3
  <2> QED
    BY <2>3, <2>4, <2>5, <2>6, <2>7, <2>8 DEF ToSet
<1>3. PICK found \in IF p.qualified
                     THEN ResolveSymbol(db, p, command.kind, AsksFor(Limit), Scope)
                     ELSE {<<>>} :
               /\ syms' = syms \o found
               /\ like' = IF found = <<>> THEN Append(like, p) ELSE like
  BY DEF ResolvePattern
<1>4. like \in Seq(Asked) /\ (AllRead => FoundSoFar) /\ exit = 0
  BY <1>1 DEF SearchSoFar
<1>5. like' \in Seq(Asked)
  BY <1>2, <1>3, <1>4
<1>6. ASSUME AllRead
      PROVE  /\ Resolves(p) => found # <<>> /\ ToSet(found) = KeptOf(p)
             /\ ~Resolves(p) => found = <<>>
  <2>1. ReadWhole(p)
    BY <1>2, <1>6 DEF AllRead, Asked, ToSet
  <2>2. CASE p.qualified
    <3>1. found \in Seq(Symbols)
      <4>1. found \in ResolveSymbol(db, p, command.kind, AsksFor(Limit), Scope)
        BY <1>3, <2>2
      <4>2. AsksFor(Limit) \in Nat
        BY ShapeGives
      <4> QED
        BY <1>1, <4>1, <4>2, NamesMatch, FindsSymbols
    <3>2. ToSet(found) = KeptOf(p)
      BY <1>2, <1>3, <2>1, <2>2, ResolveTells DEF Asked
    <3>3. found = <<>> <=> ToSet(found) = {}
      <4>1. DOMAIN found = 1..Len(found) /\ Len(found) \in Nat
        BY <3>1, LenProperties
      <4>2. found # <<>> => 1 \in DOMAIN found
        BY <3>1, <4>1, EmptySeq
      <4> QED
        BY <4>2 DEF ToSet
    <3> QED
      BY <2>2, <3>2, <3>3 DEF Resolves
  <2>3. CASE ~p.qualified
    BY <1>3, <2>3 DEF Resolves
  <2> QED
    BY <2>2, <2>3
<1>7. ToSet(syms') = ToSet(syms) \cup ToSet(found)
  <2>1. syms \in Seq(Symbols) /\ syms' \in Seq(Symbols)
    <3>1. CommandShape'
      BY ShapeKept DEF QueryNext
    <3> QED
      BY <3>1 DEF CommandShape
  <2>2. found \in Seq(Symbols)
    <3>1. CASE p.qualified
      <4>1. found \in ResolveSymbol(db, p, command.kind, AsksFor(Limit), Scope)
        BY <1>3, <3>1
      <4>2. AsksFor(Limit) \in Nat
        BY ShapeGives
      <4> QED
        BY <1>1, <4>1, <4>2, NamesMatch, FindsSymbols
    <3>2. CASE ~p.qualified
      BY <1>3, <3>2
    <3> QED
      BY <3>1, <3>2
  <2> QED
    BY <1>3, <2>1, <2>2, JoinedRows
<1>8. ASSUME AllRead, ~Resolves(p)
      PROVE  ToSet(like') = ToSet(like) \cup {p}
  <2>1. like' = Append(like, p)
    BY <1>3, <1>6, <1>8
  <2> QED
    BY <1>2, <1>4, <2>1, AddedRow
<1>9. AllRead /\ Resolves(p) => like' = like
  BY <1>3, <1>6
<1>10. ASSUME AllRead PROVE FoundSoFar'
  <2>1. /\ Asked' = Asked /\ \A q : Resolves(q)' = Resolves(q) /\ KeptOf(q)' = KeptOf(q)
    BY <1>1, SameMeaning
  <2>2. /\ \A s \in ToSet(syms) : \E q \in Asked : Resolves(q) /\ s \in KeptOf(q)
        /\ \A q \in ToSet(like) : ~Resolves(q)
        /\ \A q \in Asked : \/ q \in ToSet(names)
                            \/ Resolves(q) /\ KeptOf(q) \subseteq ToSet(syms)
                            \/ ~Resolves(q) /\ q \in ToSet(like)
    BY <1>4, <1>10 DEF FoundSoFar
  <2> HIDE DEF p
  <2>3. CASE Resolves(p)
    <3>1. ToSet(syms') = ToSet(syms) \cup KeptOf(p) /\ like' = like
      BY <1>6, <1>7, <1>9, <1>10, <2>3
    <3>2. \A s \in ToSet(syms') : \E q \in Asked : Resolves(q) /\ s \in KeptOf(q)
      BY <1>2, <2>2, <2>3, <3>1
    <3>3. \A q \in Asked : \/ q \in ToSet(names')
                           \/ Resolves(q) /\ KeptOf(q) \subseteq ToSet(syms')
                           \/ ~Resolves(q) /\ q \in ToSet(like')
      BY <1>1, <1>2, <2>2, <2>3, <3>1
    <3> QED
      BY <2>1, <2>2, <3>1, <3>2, <3>3 DEF FoundSoFar
  <2>4. CASE ~Resolves(p)
    <3>1. ToSet(syms') = ToSet(syms) /\ ToSet(like') = ToSet(like) \cup {p}
      <4>1. ToSet(found) = {}
        <5>1. found = <<>> /\ DOMAIN <<>> = {}
          BY <1>6, <1>10, <2>4
        <5> QED
          BY <5>1 DEF ToSet
      <4>2. ToSet(syms') = ToSet(syms)
        BY <1>7, <4>1
      <4>3. ToSet(like') = ToSet(like) \cup {p}
        BY <1>8, <1>10, <2>4
      <4> QED
        BY <4>2, <4>3
    <3>2. \A q \in ToSet(like') : ~Resolves(q)
      BY <2>2, <2>4, <3>1
    <3>3. \A q \in Asked : \/ q \in ToSet(names')
                           \/ Resolves(q) /\ KeptOf(q) \subseteq ToSet(syms')
                           \/ ~Resolves(q) /\ q \in ToSet(like')
      BY <1>1, <1>2, <2>2, <2>4, <3>1
    <3> QED
      BY <2>1, <2>2, <3>1, <3>2, <3>3 DEF FoundSoFar
  <2> QED
    BY <2>3, <2>4
<1>11. Asked' = Asked /\ AllRead' = AllRead
  BY <1>1, SameMeaning
<1> QED
  BY <1>1, <1>4, <1>5, <1>10, <1>11 DEF SearchSoFar

LEMMA SearchKept ==
    ASSUME CommandShape, SearchSoFar, SearchFindsEachOnce, [QueryNext]_queryVars
    PROVE  SearchSoFar' /\ SearchFindsEachOnce'
<1>1. command' = command /\ db' = db
  BY DEF QueryNext, queryVars, workVars, ResolvePattern, PrintResolved, SearchLike,
     ResolveName, NamesResolved, ReadBatch, EndRefs, RefsDone, PrintCode, ResolveTheFile,
     SymbolsMain, RdepsMain, DepsOfFile, ResolveTheSymbol, DepsOfSymbol, MembersMain
<1>2. CASE command.verb # "search"
  BY <1>1, <1>2, FindsMeans DEF SearchSoFar, SearchFindsEachOnce, Done
<1> SUFFICES ASSUME command.verb = "search" PROVE SearchSoFar' /\ SearchFindsEachOnce'
  BY <1>2
<1>3. /\ step \in {"resolve", "done"} /\ like \in Seq(Asked)
      /\ step = "resolve" => exit = 0
      /\ step = "resolve" /\ AllRead => FoundSoFar
  BY DEF SearchSoFar
<1>4. ResolvePattern \/ PrintResolved \/ SearchLike \/ UNCHANGED queryVars
  BY <1>3 DEF QueryNext, ResolveName, NamesResolved, ReadBatch, EndRefs, RefsDone,
     PrintCode, ResolveTheFile, SymbolsMain, RdepsMain, DepsOfFile, ResolveTheSymbol,
     DepsOfSymbol, MembersMain, OnFile
<1>5. Asked' = Asked /\ AllRead' = AllRead
  BY <1>1, SameMeaning
<1>6. ASSUME NEW rows, FindsEachOnce(rows), out' = rows, like' = like, exit' = 0
      PROVE  SearchFindsEachOnce'
  <2>1. /\ Limit' = Limit /\ AllRead' = AllRead /\ Wanted' = Wanted
        /\ ScanLimit' = ScanLimit /\ RowsOfLike' = RowsOfLike
    BY <1>1, <1>6, SameMeaning
  <2>2. FindsEachOnce(out)'
    BY <1>6, <2>1 DEF FindsEachOnce
  <2> QED
    BY <1>6, <2>1 DEF SearchFindsEachOnce, FindsEachOnce, AllRead, Wanted
<1>7. CASE ResolvePattern
  <2>1. step' # "done"
    BY <1>7 DEF ResolvePattern
  <2> QED
    BY <1>7, <2>1, PatternAdds DEF SearchFindsEachOnce, Done
<1>8. ASSUME step' = "done", like' = like PROVE SearchSoFar'
  BY <1>3, <1>5, <1>8 DEF SearchSoFar
<1>12. like' = like /\ OneFindsNothing => OneFindsNothing'
  BY <1>1, SameMeaning DEF OneFindsNothing
<1>9. CASE PrintResolved
  <2>1. /\ step = "resolve" /\ names = <<>> /\ like = <<>> /\ like' = like
        /\ step' = "done" /\ out' = Cut(Resolved) /\ exit' = 0
    BY <1>3, <1>9 DEF PrintResolved, Show, workVars
  <2>2. FindsEachOnce(Cut(Resolved))
    BY <1>3, <2>1, ResolvedOnly
  <2> QED
    BY <1>6, <1>8, <2>1, <2>2
<1>10. CASE SearchLike
  <2>1. step = "resolve" /\ names = <<>> /\ like' = like /\ step' = "done"
    BY <1>10 DEF SearchLike, workVars, Fail
  <2>2. PICK rows \in Select(RowsOfLike, ScanLimit) :
           IF Collected(rows) = <<>> THEN Fail
           ELSE /\ out' = Cut(MergedWith(Cut(Resolved), Cut(Collected(rows))))
                /\ exit' = 0
    BY <1>3, <1>10 DEF SearchLike
  <2>3. CASE Collected(rows) = <<>>
    <3>1. exit' = 1
      BY <2>2, <2>3 DEF Fail
    <3>2. like # <<>>
      BY <1>10 DEF SearchLike
    <3>3. OneFindsNothing
      BY <1>3, <2>1, <2>3, <3>2, FailsForNothing
    <3>4. OneFindsNothing'
      BY <1>12, <2>1, <3>3
    <3> QED
      BY <1>8, <2>1, <3>1, <3>4 DEF SearchFindsEachOnce
  <2>4. CASE Collected(rows) # <<>>
    <3>1. FindsEachOnce(Cut(MergedWith(Cut(Resolved), Cut(Collected(rows)))))
      BY <1>3, <2>1, BothKinds
    <3> QED
      BY <1>6, <1>8, <2>1, <2>2, <2>4, <3>1
  <2> QED
    BY <2>3, <2>4
<1>11. CASE UNCHANGED queryVars
  <2>1. /\ step' = step /\ like' = like /\ out' = out /\ exit' = exit
        /\ syms' = syms /\ names' = names
    BY <1>11 DEF queryVars, workVars
  <2>2. SearchSoFar'
    <3>1. /\ Asked' = Asked /\ AllRead' = AllRead
          /\ \A q : Resolves(q)' = Resolves(q) /\ KeptOf(q)' = KeptOf(q)
      BY <1>1, SameMeaning
    <3>2. FoundSoFar => FoundSoFar'
      BY <2>1, <3>1 DEF FoundSoFar
    <3> QED
      BY <1>3, <2>1, <3>1, <3>2 DEF SearchSoFar
  <2>3. CASE step = "done" /\ exit = 0
    <3>1. FindsEachOnce(out)
      BY <2>3, FindsMeans DEF Done
    <3> QED
      BY <1>6, <2>1, <2>2, <2>3, <3>1
  <2>4. CASE step = "done" /\ exit # 0
    <3>1. OneFindsNothing'
      BY <1>12, <2>1, <2>4 DEF SearchFindsEachOnce, Done
    <3> QED
      BY <2>1, <2>2, <2>4, <3>1 DEF SearchFindsEachOnce
  <2>5. CASE step # "done"
    BY <2>1, <2>2, <2>5 DEF SearchFindsEachOnce, Done
  <2> QED
    BY <2>3, <2>4, <2>5
<1> QED
  BY <1>4, <1>7, <1>9, <1>10, <1>11

\* A search that does not fail prints no line twice and no more than the limit;
\* of patterns that are read whole it prints only what they find, and with room
\* left all of it.  One that fails has a pattern that finds nothing.
THEOREM SearchFindsAll == QuerySpec => []SearchFindsEachOnce
<1> DEFINE Inv == CommandShape /\ SearchSoFar /\ SearchFindsEachOnce
<1>1. QueryInit => Inv
  BY ShapeAtFirst, SearchAtFirst
<1>2. Inv /\ [QueryNext]_queryVars => Inv'
  BY ShapeKept, SearchKept
<1>3. Inv => SearchFindsEachOnce
  OBVIOUS
<1> QED
  BY <1>1, <1>2, <1>3, PTL DEF QuerySpec
=============================================================================
