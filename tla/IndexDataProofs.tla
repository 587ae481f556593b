--------------------------- MODULE IndexDataProofs ---------------------------
(***************************************************************************)
(* Proofs about IndexData, for every repository, list of globs and way in  *)
(* which parts fail: at every step the rows of every database refer to     *)
(* rows it has, and documents, symbols and chunks have one row each; and   *)
(* the output says what its parts say of what is kept, and no more.        *)
(***************************************************************************)
EXTENDS IndexData, FiniteSetTheorems, SequenceTheorems, TLAPS

-----------------------------------------------------------------------------
(* Finite sets as sequences, and their greatest members.                   *)

\* The last of finitely many numbers exists: of the sets of those that are not
\* before one of them, a least one begins with it.
LEMMA MaxExists ==
    ASSUME NEW S \in SUBSET Nat, IsFiniteSet(S), S # {}
    PROVE  Max(S) \in S /\ \A n \in S : Max(S) >= n
<1> DEFINE From(n) == {k \in S : k >= n}
           T == {From(n) : n \in S}
           R == StrictSubsetOrdering(S)
<1>1. IsWellFoundedOn(R, SUBSET S)
  BY FS_StrictSubsetOrderingWellFounded, FS_FiniteSubsetsOfFinite, Zenon
<1>2. T \subseteq SUBSET S /\ T # {}
  OBVIOUS
<1>3. PICK X \in T : \A Y \in T : ~(<<Y, X>> \in R)
  <2> HIDE DEF T, R
  <2> QED
    BY <1>1, <1>2, WFMin
<1>4. PICK n \in S : X = From(n)
  OBVIOUS
<1>5. ASSUME NEW k \in S, k > n PROVE FALSE
  <2>1. /\ \A j \in S : j >= k => j >= n
        /\ n >= n /\ ~(n >= k)
    BY <1>5
  <2>2. From(k) \subseteq From(n) /\ n \in From(n) /\ n \notin From(k)
    BY <2>1
  <2>3. <<From(k), X>> \in R
    BY <2>2, <1>4 DEF StrictSubsetOrdering
  <2> QED
    BY <2>3, <1>3
<1>6. \A k \in S : n >= k
  BY <1>5
<1> QED
  BY <1>6 DEF Max

\* SetToSeq numbers the members of a finite set.
LEMMA SeqOfSet ==
    ASSUME NEW S, IsFiniteSet(S)
    PROVE  /\ Cardinality(S) \in Nat
           /\ SetToSeq(S) \in [1..Cardinality(S) -> S]
           /\ IsInjective(SetToSeq(S))
           /\ \A s \in S : \E i \in DOMAIN SetToSeq(S) : SetToSeq(S)[i] = s
<1> DEFINE n == Cardinality(S)
           f == SetToSeq(S)
<1>1. n \in Nat /\ ExistsBijection(1..n, S)
  BY FS_CardinalityType
<1>2. \E g \in [1..n -> S] : IsInjective(g)
  BY <1>1 DEF ExistsBijection, Bijection, Injection
<1>3. f \in [1..n -> S] /\ IsInjective(f)
  BY <1>2 DEF SetToSeq
<1>4. f \in Injection(1..n, S)
  BY <1>3 DEF Injection
<1>5. Cardinality(1..n) = Cardinality(S)
  BY <1>1, FS_Interval
<1>6. f \in Surjection(1..n, S)
  <2> HIDE DEF f, n
  <2> QED
    BY <1>4, <1>5, FS_Injection
<1> QED
  BY <1>1, <1>3, <1>6 DEF Surjection

LEMMA RangeFinite ==
    ASSUME NEW f, f = [x \in DOMAIN f |-> f[x]], IsFiniteSet(DOMAIN f)
    PROVE  IsFiniteSet(Range(f))
<1>1. f \in Surjection(DOMAIN f, Range(f))
  BY DEF Surjection, Range
<1> QED
  BY <1>1, FS_Surjection

-----------------------------------------------------------------------------
(* Tables.                                                                 *)

Table(t) == /\ t = [id \in DOMAIN t |-> t[id]]
            /\ DOMAIN t \subseteq Ids /\ IsFiniteSet(DOMAIN t)

\* A numbered set is a table without double rows.
LEMMA NewTable ==
    ASSUME NEW rows, IsFiniteSet(rows)
    PROVE  /\ Table(SetToSeq(rows)) /\ IsInjective(SetToSeq(rows))
           /\ Range(SetToSeq(rows)) = rows
<1>1. SetToSeq(rows) \in [1..Cardinality(rows) -> rows] /\ Cardinality(rows) \in Nat
  BY SeqOfSet
<1>2. IsFiniteSet(1..Cardinality(rows))
  BY <1>1, FS_Interval
<1>3. Table(SetToSeq(rows))
  BY <1>1, <1>2 DEF Table, Ids
<1>4. Range(SetToSeq(rows)) = rows
  BY <1>1, SeqOfSet DEF Range
<1> QED
  BY <1>3, <1>4, SeqOfSet

\* An insertion keeps the rows of the table and adds the new ones; the rows stay
\* distinct if the new ones are missing in the table.
LEMMA Inserted ==
    ASSUME NEW t, Table(t), NEW rows, IsFiniteSet(rows)
    PROVE  LET n == InsertInto(t, rows)
           IN  /\ Table(n)
               /\ DOMAIN t \subseteq DOMAIN n /\ \A id \in DOMAIN t : n[id] = t[id]
               /\ Range(n) = Range(t) \cup rows
               /\ IsInjective(t) /\ Range(t) \cap rows = {} => IsInjective(n)
<1> DEFINE n == InsertInto(t, rows)
           new == SetToSeq(rows)
           last == LastId(t)
           many == Cardinality(rows)
<1>1. /\ many \in Nat /\ new \in [1..many -> rows] /\ IsInjective(new)
      /\ \A r \in rows : \E k \in 1..many : new[k] = r
  BY SeqOfSet
<1>2. last \in Nat /\ \A id \in DOMAIN t : last >= id
  <2>1. IsFiniteSet((DOMAIN t) \cup {0})
    BY FS_AddElement DEF Table
  <2>2. (DOMAIN t) \cup {0} \in SUBSET Nat
    BY DEF Table, Ids
  <2> QED
    BY <2>1, <2>2, MaxExists DEF LastId
<1>3. n = [id \in (DOMAIN t) \cup {last + k : k \in 1..many} |->
              IF id \in DOMAIN t THEN t[id] ELSE new[id - last]]
  BY <1>1 DEF InsertInto
<1> HIDE DEF n, new, last, many
<1>4. {last + k : k \in 1..many} \subseteq (last + 1)..(last + many)
  BY <1>1, <1>2
<1>5. IsFiniteSet(DOMAIN n)
  <2>1. IsFiniteSet((last + 1)..(last + many))
    BY <1>1, <1>2, FS_Interval
  <2>2. IsFiniteSet({last + k : k \in 1..many})
    BY <2>1, <1>4, FS_Subset
  <2> QED
    BY <2>2, <1>3, FS_Union DEF Table
<1>6. Table(n)
  BY <1>3, <1>4, <1>5, <1>2 DEF Table, Ids
<1>7. \A k \in 1..many : last + k \in DOMAIN n /\ n[last + k] = new[k]
  <2> TAKE k \in 1..many
  <2>1. last + k \notin DOMAIN t /\ (last + k) - last = k
    BY <1>1, <1>2
  <2> QED
    BY <2>1, <1>3
<1>8. \A id \in DOMAIN t : id \in DOMAIN n /\ n[id] = t[id]
  BY <1>3
<1>9. \A id \in DOMAIN n : id \in DOMAIN t \/ \E k \in 1..many : id = last + k
  BY <1>3
<1>10. Range(n) = Range(t) \cup rows
  <2>1. Range(n) \subseteq Range(t) \cup rows
    BY <1>1, <1>7, <1>8, <1>9 DEF Range
  <2>2. Range(t) \cup rows \subseteq Range(n)
    BY <1>1, <1>7, <1>8 DEF Range
  <2> QED
    BY <2>1, <2>2
<1>11. IsInjective(t) /\ Range(t) \cap rows = {} => IsInjective(n)
  <2> SUFFICES ASSUME IsInjective(t), Range(t) \cap rows = {},
                      NEW x \in DOMAIN n, NEW y \in DOMAIN n, n[x] = n[y]
               PROVE  x = y
    BY DEF IsInjective
  <2>1. CASE x \in DOMAIN t /\ y \in DOMAIN t
    BY <2>1, <1>8 DEF IsInjective
  <2>2. CASE x \in DOMAIN t /\ y \notin DOMAIN t
    BY <2>2, <1>1, <1>7, <1>8, <1>9 DEF Range
  <2>3. CASE x \notin DOMAIN t /\ y \in DOMAIN t
    BY <2>3, <1>1, <1>7, <1>8, <1>9 DEF Range
  <2>4. CASE x \notin DOMAIN t /\ y \notin DOMAIN t
    <3>1. PICK j \in 1..many, k \in 1..many : x = last + j /\ y = last + k
      BY <2>4, <1>9
    <3>2. new[j] = new[k]
      BY <3>1, <1>7
    <3> QED
      BY <3>1, <3>2, <1>1 DEF IsInjective
  <2> QED
    BY <2>1, <2>2, <2>3, <2>4
<1> QED
  BY <1>6, <1>8, <1>10, <1>11 DEF n

\* What is left of a table.
LEMMA Restricted ==
    ASSUME NEW t, Table(t), NEW S, S \subseteq DOMAIN t
    PROVE  LET r == Restrict(t, S)
           IN  /\ Table(r) /\ DOMAIN r = S
               /\ \A id \in S : r[id] = t[id]
               /\ Range(r) \subseteq Range(t)
               /\ IsInjective(t) => IsInjective(r)
<1>1. IsFiniteSet(S)
  BY FS_Subset DEF Table
<1> QED
  BY <1>1 DEF Restrict, Table, Range, IsInjective

-----------------------------------------------------------------------------
(* Databases.                                                              *)

Shape(d) == d = [docs     |-> d.docs,   symbols |-> d.symbols, chunks |-> d.chunks,
                 mentions |-> d.mentions, ranges |-> d.ranges]

\* Everything but the references to symbols: while symbols are being trimmed,
\* mentions and definitions may be of one that is gone.
HalfFine(d) ==
    /\ Shape(d)
    /\ Table(d.docs) /\ Table(d.symbols) /\ Table(d.chunks) /\ Table(d.ranges)
    /\ IsInjective(d.docs) /\ IsInjective(d.symbols) /\ IsInjective(d.chunks)
    /\ Range(d.docs) \subseteq Paths
    /\ \A c \in Range(d.chunks) : c.doc \in DOMAIN d.docs
    /\ \A m \in d.mentions : m.chunk \in DOMAIN d.chunks
    /\ \A r \in Range(d.ranges) : r.doc \in DOMAIN d.docs

Fine(d) == /\ HalfFine(d)
           /\ \A m \in d.mentions : m.symbol \in DOMAIN d.symbols
           /\ \A r \in Range(d.ranges) : r.symbol \in DOMAIN d.symbols

\* Whatever symbols are removed, the rest stays in order ...
LEMMA FewerSymbols ==
    ASSUME NEW d, HalfFine(d), NEW S, S \subseteq DOMAIN d.symbols
    PROVE  LET e == [d EXCEPT !.symbols = Restrict(@, S)]
           IN  HalfFine(e) /\ e.symbols = Restrict(d.symbols, S)
<1> DEFINE e == [d EXCEPT !.symbols = Restrict(@, S)]
<1>1. e = [docs |-> d.docs, symbols |-> Restrict(d.symbols, S), chunks |-> d.chunks,
           mentions |-> d.mentions, ranges |-> d.ranges]
  BY DEF HalfFine, Shape
<1> HIDE DEF e
<1>2. /\ e.docs = d.docs /\ e.symbols = Restrict(d.symbols, S) /\ e.chunks = d.chunks
      /\ e.mentions = d.mentions /\ e.ranges = d.ranges
  BY <1>1
<1>3. Shape(e)
  BY <1>1, <1>2 DEF Shape
<1>4. Table(e.symbols) /\ IsInjective(e.symbols)
  BY <1>2, Restricted DEF HalfFine
<1> QED
  BY <1>2, <1>3, <1>4 DEF HalfFine, e

\* ... and trimming to the known symbols repairs it.
LEMMA TrimmedFine ==
    ASSUME NEW d, HalfFine(d)
    PROVE  Fine(TrimToKnownSymbols(d)) /\ TrimToKnownSymbols(d).symbols = d.symbols
<1> DEFINE e == TrimToKnownSymbols(d)
           known == {id \in DOMAIN d.ranges : d.ranges[id].symbol \in DOMAIN d.symbols}
           mentions == {m \in d.mentions : m.symbol \in DOMAIN d.symbols}
           ranges == Restrict(d.ranges, known)
<1>0. e = [d EXCEPT !.mentions = mentions, !.ranges = ranges]
  BY DEF TrimToKnownSymbols, Keep
<1>1. e = [docs |-> d.docs, symbols |-> d.symbols, chunks |-> d.chunks,
           mentions |-> mentions, ranges |-> ranges]
  <2> HIDE DEF mentions, ranges, e
  <2> QED
    BY <1>0 DEF HalfFine, Shape
<1> HIDE DEF e
<1>2. /\ e.docs = d.docs /\ e.symbols = d.symbols /\ e.chunks = d.chunks
      /\ e.mentions = {m \in d.mentions : m.symbol \in DOMAIN d.symbols}
      /\ e.ranges = Restrict(d.ranges, known)
  BY <1>1
<1>3. Shape(e)
  BY <1>1, <1>2 DEF Shape
<1>4. Table(e.ranges) /\ Range(e.ranges) \subseteq Range(d.ranges)
  BY <1>2, Restricted DEF HalfFine
<1>5. \A r \in Range(e.ranges) : r.symbol \in DOMAIN d.symbols
  BY <1>2 DEF Range, Restrict
<1> QED
  BY <1>2, <1>3, <1>4, <1>5 DEF HalfFine, Fine, e

\* Documents go with all that is in them, and so do the symbols of those.
LEMMA OnlyDocumentsFine ==
    ASSUME NEW d, Fine(d), NEW K, K \subseteq DOMAIN d.docs
    PROVE  HalfFine(OnlyDocuments(d, Restrict(d.docs, K)))
<1> DEFINE docs == Restrict(d.docs, K)
           keptChunks == {id \in DOMAIN d.chunks : d.chunks[id].doc \in K}
           keptRanges == {id \in DOMAIN d.ranges : d.ranges[id].doc \in K}
           chunks == Restrict(d.chunks, keptChunks)
           mentions == {m \in d.mentions : m.chunk \in keptChunks}
           ranges == Restrict(d.ranges, keptRanges)
           rest == OnlyDocuments(d, docs)
<1>1. DOMAIN docs = K /\ DOMAIN chunks = keptChunks
  BY DEF Restrict
<1>2. rest = [d EXCEPT !.docs = docs, !.chunks = chunks,
                       !.mentions = mentions, !.ranges = ranges]
  BY <1>1 DEF OnlyDocuments, Keep
<1>3. rest = [docs |-> docs, symbols |-> d.symbols, chunks |-> chunks,
              mentions |-> mentions, ranges |-> ranges]
  <2> DEFINE D == d.docs  Y == d.symbols  C == d.chunks  M == d.mentions  R == d.ranges
  <2>1. d = [docs |-> D, symbols |-> Y, chunks |-> C, mentions |-> M, ranges |-> R]
    BY DEF Fine, HalfFine, Shape
  <2> HIDE DEF D, Y, C, M, R, docs, chunks, mentions, ranges, rest
  <2>2. rest = [[docs |-> D, symbols |-> Y, chunks |-> C, mentions |-> M, ranges |-> R]
                   EXCEPT !.docs = docs, !.chunks = chunks,
                          !.mentions = mentions, !.ranges = ranges]
    BY <1>2, <2>1
  <2>3. rest = [docs |-> docs, symbols |-> Y, chunks |-> chunks,
                mentions |-> mentions, ranges |-> ranges]
    BY ONLY <2>2
  <2> QED
    BY <2>3 DEF Y
<1> HIDE DEF rest
<1>4. /\ rest.docs = docs /\ rest.symbols = d.symbols /\ rest.chunks = chunks
      /\ rest.mentions = {m \in d.mentions : m.chunk \in keptChunks}
      /\ rest.ranges = Restrict(d.ranges, keptRanges)
  BY <1>3
<1>5. Shape(rest)
  BY <1>3, <1>4 DEF Shape
<1>6. /\ Table(rest.docs) /\ IsInjective(rest.docs) /\ Range(rest.docs) \subseteq Range(d.docs)
      /\ Table(rest.chunks) /\ IsInjective(rest.chunks)
      /\ Table(rest.ranges)
  BY <1>4, Restricted DEF Fine, HalfFine
<1>7. /\ \A c \in Range(rest.chunks) : c.doc \in DOMAIN rest.docs
      /\ \A r \in Range(rest.ranges) : r.doc \in DOMAIN rest.docs
  BY <1>1, <1>4 DEF Range, Restrict
<1> QED
  BY <1>1, <1>4, <1>5, <1>6, <1>7 DEF Fine, HalfFine, rest

LEMMA PrunedFine ==
    ASSUME NEW d, Fine(d), NEW globs
    PROVE  Fine(PruneExcludedDocuments(d, globs))
<1> DEFINE kept == {id \in DOMAIN d.docs : ~PathMatchesAnyGlob(d.docs[id], globs)}
           docs == Restrict(d.docs, kept)
           rest == OnlyDocuments(d, docs)
           used == (DOMAIN rest.symbols) \cap (Mentioned(rest) \cup Defined(rest))
<1>1. HalfFine(rest)
  BY OnlyDocumentsFine
<1> HIDE DEF rest
<1>2. OnlyUsedSymbols(rest) = [rest EXCEPT !.symbols = Restrict(@, used)]
  BY DEF OnlyUsedSymbols
<1> HIDE DEF used
<1>3. HalfFine(OnlyUsedSymbols(rest))
  BY <1>1, <1>2, FewerSymbols DEF used
<1>4. Fine(TrimToKnownSymbols(OnlyUsedSymbols(rest)))
  BY <1>3, TrimmedFine
<1>5. PruneExcludedDocuments(d, globs) =
         IF docs = d.docs THEN d ELSE TrimToKnownSymbols(OnlyUsedSymbols(rest))
  BY DEF PruneExcludedDocuments, Keep, rest
<1> QED
  BY <1>4, <1>5

LEMMA PostprocessedFine ==
    ASSUME NEW d, Fine(d)
    PROVE  /\ Fine(Postprocessed(d))
           /\ Range(Postprocessed(d).symbols) \cap Variables = {}
<1> DEFINE p == PruneExcludedDocuments(d, input.globs)
           S == {s \in DOMAIN p.symbols : /\ p.symbols[s] \notin Variables
                                          /\ \/ input.keepExternal
                                             \/ s \in Defined(p)
                                             \/ p.symbols[s] \in Structural}
           t == [p EXCEPT !.symbols = Restrict(@, S)]
<1>1. Fine(p)
  BY PrunedFine
<1> HIDE DEF p
<1>2. Postprocessed(d) = TrimToKnownSymbols(t)
  BY <1>1 DEF Postprocessed, TrimUnusedColumns, p, Fine, HalfFine, Shape
<1>3. S \subseteq DOMAIN p.symbols /\ \A s \in S : p.symbols[s] \notin Variables
  OBVIOUS
<1> HIDE DEF S
<1>4. HalfFine(t) /\ t.symbols = Restrict(p.symbols, S)
  BY <1>1, <1>3, FewerSymbols DEF Fine
<1>5. Fine(TrimToKnownSymbols(t)) /\ TrimToKnownSymbols(t).symbols = Restrict(p.symbols, S)
  <2> HIDE DEF t
  <2> QED
    BY <1>4, TrimmedFine
<1>6. Range(Restrict(p.symbols, S)) \cap Variables = {}
  BY <1>3 DEF Range, Restrict
<1> QED
  BY <1>2, <1>5, <1>6

\* Paths with the same directory before them are as different as without it.
LEMMA PrefixedFine ==
    ASSUME NEW d, Fine(d), NEW dir \in Paths
    PROVE  Fine(Prefixed(d, dir)) /\ Prefixed(d, dir).symbols = d.symbols
<1> DEFINE docs == [i \in DOMAIN d.docs |-> dir \o d.docs[i]]
           e == Prefixed(d, dir)
<1>0. e = [d EXCEPT !.docs = docs]
  BY DEF Prefixed
<1>1. e = [docs |-> docs, symbols |-> d.symbols, chunks |-> d.chunks,
           mentions |-> d.mentions, ranges |-> d.ranges]
  <2> HIDE DEF docs, e
  <2> QED
    BY <1>0 DEF Fine, HalfFine, Shape
<1> HIDE DEF e
<1>2. /\ e.docs = docs /\ e.symbols = d.symbols /\ e.chunks = d.chunks
      /\ e.mentions = d.mentions /\ e.ranges = d.ranges /\ Shape(e)
  BY <1>1 DEF Shape
<1>3. \A i \in DOMAIN d.docs : d.docs[i] \in Paths
  BY DEF Fine, HalfFine, Range
<1>4. \A p \in Paths : dir \o p \in Paths
  BY DEF Paths
<1>5. \A p, q \in Paths : dir \o p = dir \o q => p = q
  <2> SUFFICES ASSUME NEW p \in Paths, NEW q \in Paths, dir \o p = dir \o q
               PROVE  p = q
    OBVIOUS
  <2>1. Len(p) = Len(q)
    BY ConcatProperties DEF Paths
  <2>2. \A i \in 1..Len(p) : p[i] = (dir \o p)[Len(dir) + i]
    BY ConcatProperties DEF Paths
  <2>3. \A i \in 1..Len(q) : q[i] = (dir \o q)[Len(dir) + i]
    BY ConcatProperties DEF Paths
  <2> QED
    BY <2>1, <2>2, <2>3, SeqEqual DEF Paths
<1>6. IsInjective(docs)
  <2> SUFFICES ASSUME NEW i \in DOMAIN d.docs, NEW j \in DOMAIN d.docs,
                      dir \o d.docs[i] = dir \o d.docs[j]
               PROVE  i = j
    BY DEF IsInjective
  <2>1. d.docs[i] = d.docs[j]
    BY <1>3, <1>5
  <2> QED
    BY <2>1 DEF IsInjective, Fine, HalfFine
<1>7. Table(docs) /\ Range(docs) \subseteq Paths
  BY <1>3, <1>4 DEF Table, Range, Fine, HalfFine
<1> QED
  BY <1>2, <1>6, <1>7 DEF Fine, HalfFine, e

-----------------------------------------------------------------------------
(* Databases of a part.                                                    *)

Proper(part) ==
    /\ part.docs \subseteq Paths
    /\ IsFiniteSet(part.docs) /\ IsFiniteSet(part.mentions) /\ IsFiniteSet(part.defined)
    /\ \A m \in part.mentions : m[1] \in part.docs
    /\ \A d \in part.defined : d = <<d[1], d[2]>> /\ d[1] \in part.docs

\* What scip writes refers to rows it has written.
LEMMA ConvertedFine ==
    ASSUME NEW part, Proper(part)
    PROVE  Fine(Converted(part))
<1> DEFINE names == {m[3] : m \in part.mentions} \cup {d[2] : d \in part.defined}
           docs == SetToSeq(part.docs)
           symbols == SetToSeq(names)
           doc(p) == CHOOSE i \in DOMAIN docs : docs[i] = p
           sym(s) == CHOOSE i \in DOMAIN symbols : symbols[i] = s
           chunkRows == {[doc |-> doc(m[1]), index |-> m[2]] : m \in part.mentions}
           chunks == SetToSeq(chunkRows)
           home(m) == CHOOSE i \in DOMAIN chunks :
                          chunks[i] = [doc |-> doc(m[1]), index |-> m[2]]
           mentions == {[chunk |-> home(m), symbol |-> sym(m[3]), role |-> m[4]] :
                           m \in part.mentions}
           rangeRows == {[doc |-> doc(d[1]), symbol |-> sym(d[2])] : d \in part.defined}
           ranges == SetToSeq(rangeRows)
           e == Converted(part)
<1>1. e = [docs |-> docs, symbols |-> symbols, chunks |-> chunks,
           mentions |-> mentions, ranges |-> ranges]
  BY DEF Converted
<1>2. IsFiniteSet(names)
  <2> DEFINE f == [m \in part.mentions |-> m[3]]
             g == [d \in part.defined |-> d[2]]
  <2>1. IsFiniteSet(Range(f)) /\ IsFiniteSet(Range(g))
    BY RangeFinite DEF Proper
  <2>2. names = Range(f) \cup Range(g)
    BY DEF Range
  <2> HIDE DEF f, g, names
  <2> QED
    BY <2>1, <2>2, FS_Union
<1>3. IsFiniteSet(chunkRows)
  <2> DEFINE f == [m \in part.mentions |-> [doc |-> doc(m[1]), index |-> m[2]]]
  <2> HIDE DEF doc
  <2>1. IsFiniteSet(Range(f))
    BY RangeFinite DEF Proper
  <2>2. chunkRows = Range(f)
    BY DEF Range
  <2> QED
    BY <2>1, <2>2
<1>4. IsFiniteSet(rangeRows)
  <2> DEFINE f == [d \in part.defined |-> [doc |-> doc(d[1]), symbol |-> sym(d[2])]]
  <2> HIDE DEF doc, sym
  <2>1. IsFiniteSet(Range(f))
    BY RangeFinite DEF Proper
  <2>2. rangeRows = Range(f)
    BY DEF Range
  <2> QED
    BY <2>1, <2>2
<1>5. /\ Table(docs) /\ IsInjective(docs) /\ Range(docs) = part.docs
      /\ Table(symbols) /\ IsInjective(symbols) /\ Range(symbols) = names
      /\ Table(chunks) /\ IsInjective(chunks) /\ Range(chunks) = chunkRows
      /\ Table(ranges) /\ Range(ranges) = rangeRows
  <2> HIDE DEF names, chunkRows, rangeRows
  <2> QED
    BY <1>2, <1>3, <1>4, NewTable DEF Proper
<1> HIDE DEF docs, symbols, chunks, ranges
<1>6. \A p \in part.docs : doc(p) \in DOMAIN docs
  BY <1>5 DEF Range
<1>7. \A s \in names : sym(s) \in DOMAIN symbols
  <2> HIDE DEF names
  <2> QED
    BY <1>5 DEF Range
<1>8. /\ \A m \in part.mentions : m[1] \in part.docs /\ m[3] \in names
      /\ \A d \in part.defined : d[1] \in part.docs /\ d[2] \in names
  BY DEF Proper
<1> HIDE DEF doc, sym, names
<1>9. \A m \in part.mentions : home(m) \in DOMAIN chunks
  <2> TAKE m \in part.mentions
  <2>1. [doc |-> doc(m[1]), index |-> m[2]] \in Range(chunks)
    BY <1>5
  <2> QED
    BY <2>1 DEF Range
<1> HIDE DEF home
<1>10. \A c \in Range(chunks) : c.doc \in DOMAIN docs
  BY <1>5, <1>6, <1>8
<1>11. \A m \in mentions : m.chunk \in DOMAIN chunks /\ m.symbol \in DOMAIN symbols
  BY <1>7, <1>8, <1>9
<1>12. \A r \in Range(ranges) : r.doc \in DOMAIN docs /\ r.symbol \in DOMAIN symbols
  BY <1>5, <1>6, <1>7, <1>8
<1> HIDE DEF e, mentions
<1>13. /\ e.docs = docs /\ e.symbols = symbols /\ e.chunks = chunks
       /\ e.mentions = mentions /\ e.ranges = ranges /\ Shape(e)
  BY <1>1 DEF Shape
<1>14. Range(docs) \subseteq Paths
  BY <1>5 DEF Proper
<1> QED
  BY <1>5, <1>10, <1>11, <1>12, <1>13, <1>14 DEF Fine, HalfFine, e

-----------------------------------------------------------------------------
(* Merging.                                                                *)

\* Finite: every row made of a member of one finite set and one of another.
LEMMA RowsFinite ==
    ASSUME NEW A, IsFiniteSet(A), NEW B, IsFiniteSet(B)
    PROVE  /\ IsFiniteSet({[doc |-> x[2], index |-> x[1].index] : x \in A \X B})
           /\ IsFiniteSet({[doc |-> x[1], symbol |-> x[2]] : x \in A \X B})
<1> DEFINE f == [x \in A \X B |-> [doc |-> x[2], index |-> x[1].index]]
           g == [x \in A \X B |-> [doc |-> x[1], symbol |-> x[2]]]
<1>1. IsFiniteSet(A \X B)
  BY FS_Product
<1>2. IsFiniteSet(Range(f)) /\ IsFiniteSet(Range(g))
  BY <1>1, RangeFinite
<1>3. /\ Range(f) = {[doc |-> x[2], index |-> x[1].index] : x \in A \X B}
      /\ Range(g) = {[doc |-> x[1], symbol |-> x[2]] : x \in A \X B}
  BY DEF Range
<1> QED
  BY <1>2, <1>3

NoVariables(d) == Range(d.symbols) \cap Variables = {}

\* The tables of a merged database, and which row of the one that is merged has
\* become which.
MergedDocs(dest, src) == InsertInto(dest.docs, Missing(Range(src.docs), dest.docs))
DocMap(dest, src) == SameRow(src.docs, MergedDocs(dest, src))
MergedSymbols(dest, src) ==
    InsertInto(dest.symbols, Missing(Range(src.symbols) \ Variables, dest.symbols))
SymMap(dest, src) == SameRow(src.symbols, MergedSymbols(dest, src))
Moved(dest, src) ==
    {[doc |-> x[2][2], index |-> x[1].index] :
        x \in {y \in Range(src.chunks) \X DocMap(dest, src) : y[1].doc = y[2][1]}}
MergedChunks(dest, src) == InsertInto(dest.chunks, Missing(Moved(dest, src), dest.chunks))
ChunkMap(dest, src) ==
    {p \in (DOMAIN src.chunks) \X (DOMAIN MergedChunks(dest, src)) :
        /\ <<src.chunks[p[1]].doc, MergedChunks(dest, src)[p[2]].doc>> \in DocMap(dest, src)
        /\ src.chunks[p[1]].index = MergedChunks(dest, src)[p[2]].index}
NewMentions(dest, src) ==
    {[chunk |-> x[2][2], symbol |-> x[3][2], role |-> x[1].role] :
        x \in {y \in src.mentions \X ChunkMap(dest, src) \X SymMap(dest, src) :
                  /\ y[1].chunk = y[2][1]
                  /\ y[1].symbol = y[3][1]}}
NewRanges(dest, src) ==
    {[doc |-> x[2][2], symbol |-> x[3][2]] :
        x \in {y \in Range(src.ranges) \X DocMap(dest, src) \X SymMap(dest, src) :
                  /\ y[1].doc = y[2][1]
                  /\ y[1].symbol = y[3][1]}}
MergedRanges(dest, src) == InsertInto(dest.ranges, NewRanges(dest, src))

\* A table that another one has been added to.
Extends(t, old, rows) ==
    /\ Table(t)
    /\ DOMAIN old \subseteq DOMAIN t /\ \A id \in DOMAIN old : t[id] = old[id]
    /\ Range(t) = Range(old) \cup rows

LEMMA MergedIs ==
    ASSUME NEW dest, NEW src
    PROVE  LET e == Merged(dest, src)
           IN  /\ e.docs = MergedDocs(dest, src) /\ e.symbols = MergedSymbols(dest, src)
               /\ e.chunks = MergedChunks(dest, src)
               /\ e.mentions = dest.mentions \cup NewMentions(dest, src)
               /\ e.ranges = MergedRanges(dest, src)
               /\ Shape(e)
<1> DEFINE e == Merged(dest, src)
<1>1. e = [docs |-> MergedDocs(dest, src), symbols |-> MergedSymbols(dest, src),
           chunks |-> MergedChunks(dest, src),
           mentions |-> dest.mentions \cup NewMentions(dest, src),
           ranges |-> MergedRanges(dest, src)]
  BY DEF Merged, MergedDocs, DocMap, MergedSymbols, SymMap, Moved, MergedChunks, ChunkMap,
     NewMentions, NewRanges, MergedRanges
<1> HIDE DEF e
<1>2. /\ e.docs = MergedDocs(dest, src) /\ e.symbols = MergedSymbols(dest, src)
      /\ e.chunks = MergedChunks(dest, src)
      /\ e.mentions = dest.mentions \cup NewMentions(dest, src)
      /\ e.ranges = MergedRanges(dest, src)
  BY <1>1
<1>3. Shape(e)
  BY <1>1, <1>2 DEF Shape
<1> QED
  BY <1>2, <1>3 DEF e

\* The rows of the first database keep their ids, and those that are added
\* refer to rows that are there or are added too.
LEMMA MergedTables ==
    ASSUME NEW dest, Fine(dest), NEW src, Fine(src)
    PROVE  LET docs == MergedDocs(dest, src)
               symbols == MergedSymbols(dest, src)
               chunks == MergedChunks(dest, src)
           IN  /\ Extends(docs, dest.docs, Range(src.docs)) /\ IsInjective(docs)
               /\ Extends(symbols, dest.symbols, Range(src.symbols) \ Variables)
               /\ IsInjective(symbols)
               /\ Extends(chunks, dest.chunks, Moved(dest, src)) /\ IsInjective(chunks)
               /\ Extends(MergedRanges(dest, src), dest.ranges, NewRanges(dest, src))
               /\ \A c \in Moved(dest, src) : c.doc \in DOMAIN docs
               /\ \A r \in NewRanges(dest, src) : /\ r.doc \in DOMAIN docs
                                                  /\ r.symbol \in DOMAIN symbols
               /\ \A m \in NewMentions(dest, src) : /\ m.chunk \in DOMAIN chunks
                                                    /\ m.symbol \in DOMAIN symbols
<1> DEFINE docs    == MergedDocs(dest, src)
           docMap  == DocMap(dest, src)
           symbols == MergedSymbols(dest, src)
           symMap  == SymMap(dest, src)
           moved   == Moved(dest, src)
           chunks  == MergedChunks(dest, src)
           cMap    == ChunkMap(dest, src)
           newMentions == NewMentions(dest, src)
           newRanges == NewRanges(dest, src)
           ranges  == MergedRanges(dest, src)
           newDocs == Missing(Range(src.docs), dest.docs)
           newSymbols == Missing(Range(src.symbols) \ Variables, dest.symbols)
           newChunks == Missing(moved, dest.chunks)
<1>2. /\ Table(dest.docs) /\ Table(dest.symbols) /\ Table(dest.chunks) /\ Table(dest.ranges)
      /\ Table(src.docs) /\ Table(src.symbols) /\ Table(src.chunks) /\ Table(src.ranges)
      /\ IsInjective(dest.docs) /\ IsInjective(dest.symbols) /\ IsInjective(dest.chunks)
  BY DEF Fine, HalfFine
<1>3. /\ IsFiniteSet(Range(src.docs)) /\ IsFiniteSet(Range(src.symbols))
      /\ IsFiniteSet(Range(src.chunks))
  BY <1>2, RangeFinite DEF Table
<1>4. /\ IsFiniteSet(newDocs) /\ IsFiniteSet(newSymbols)
      /\ Range(dest.docs) \cap newDocs = {}
      /\ Range(dest.symbols) \cap newSymbols = {}
      /\ Range(dest.chunks) \cap newChunks = {}
      /\ newChunks \subseteq moved
  BY <1>3, FS_Subset DEF Missing
<1>a. /\ Range(dest.docs) \cup newDocs = Range(dest.docs) \cup Range(src.docs)
      /\ Range(dest.symbols) \cup newSymbols
            = Range(dest.symbols) \cup (Range(src.symbols) \ Variables)
      /\ Range(dest.chunks) \cup newChunks = Range(dest.chunks) \cup moved
  BY DEF Missing
<1>b. /\ docs = InsertInto(dest.docs, newDocs)
      /\ symbols = InsertInto(dest.symbols, newSymbols)
      /\ chunks = InsertInto(dest.chunks, newChunks)
      /\ ranges = InsertInto(dest.ranges, newRanges)
  BY DEF MergedDocs, MergedSymbols, MergedChunks, MergedRanges
<1> HIDE DEF newDocs, newSymbols, newChunks, docs, symbols, chunks, ranges
<1>5. Extends(docs, dest.docs, Range(src.docs)) /\ IsInjective(docs)
  BY <1>2, <1>4, <1>a, <1>b, Inserted DEF Extends
<1>6. /\ Extends(symbols, dest.symbols, Range(src.symbols) \ Variables)
      /\ IsInjective(symbols)
  BY <1>2, <1>4, <1>a, <1>b, Inserted DEF Extends
<1>7. /\ docMap \subseteq (DOMAIN src.docs) \X (DOMAIN docs)
      /\ symMap \subseteq (DOMAIN src.symbols) \X (DOMAIN symbols)
  BY DEF SameRow, DocMap, SymMap, docs, symbols
<1>8. IsFiniteSet(moved) /\ \A c \in moved : c.doc \in DOMAIN docs
  <2>1. moved \subseteq {[doc |-> x[2], index |-> x[1].index] :
                            x \in Range(src.chunks) \X (DOMAIN docs)}
    <3> HIDE DEF docMap
    <3> SUFFICES ASSUME NEW y \in Range(src.chunks) \X docMap
                 PROVE  [doc |-> y[2][2], index |-> y[1].index] \in
                          {[doc |-> x[2], index |-> x[1].index] :
                              x \in Range(src.chunks) \X (DOMAIN docs)}
      BY DEF Moved, docMap
    <3>1. <<y[1], y[2][2]>> \in Range(src.chunks) \X (DOMAIN docs)
      BY <1>7
    <3> QED
      BY <3>1
  <2>2. IsFiniteSet({[doc |-> x[2], index |-> x[1].index] :
                        x \in Range(src.chunks) \X (DOMAIN docs)})
    BY <1>3, <1>5, RowsFinite DEF Table, Extends
  <2> HIDE DEF moved
  <2>3. IsFiniteSet(moved)
    BY <2>1, <2>2, FS_Subset
  <2> QED
    BY <2>1, <2>3
<1> HIDE DEF moved
<1>9. IsFiniteSet(newChunks)
  BY <1>4, <1>8, FS_Subset
<1>10. Extends(chunks, dest.chunks, moved) /\ IsInjective(chunks)
  BY <1>2, <1>4, <1>9, <1>a, <1>b, Inserted DEF Extends
<1>11. \A m \in newMentions : m.chunk \in DOMAIN chunks /\ m.symbol \in DOMAIN symbols
  <2>1. cMap \subseteq (DOMAIN src.chunks) \X (DOMAIN chunks)
    BY DEF ChunkMap, chunks
  <2>2. newMentions = {[chunk |-> x[2][2], symbol |-> x[3][2], role |-> x[1].role] :
                          x \in {y \in src.mentions \X cMap \X symMap :
                                    /\ y[1].chunk = y[2][1]
                                    /\ y[1].symbol = y[3][1]}}
    BY DEF NewMentions
  <2> HIDE DEF cMap, symMap, newMentions
  <2> QED
    BY <1>7, <2>1, <2>2
<1> HIDE DEF newMentions
<1>12. /\ IsFiniteSet(newRanges)
       /\ \A r \in newRanges : r.doc \in DOMAIN docs /\ r.symbol \in DOMAIN symbols
  <2>1. newRanges \subseteq {[doc |-> x[1], symbol |-> x[2]] :
                                x \in (DOMAIN docs) \X (DOMAIN symbols)}
    <3> HIDE DEF docMap, symMap
    <3> SUFFICES ASSUME NEW y \in Range(src.ranges) \X docMap \X symMap
                 PROVE  [doc |-> y[2][2], symbol |-> y[3][2]] \in
                          {[doc |-> x[1], symbol |-> x[2]] :
                              x \in (DOMAIN docs) \X (DOMAIN symbols)}
      BY DEF NewRanges, docMap, symMap
    <3>1. <<y[2][2], y[3][2]>> \in (DOMAIN docs) \X (DOMAIN symbols)
      BY <1>7
    <3> QED
      BY <3>1
  <2>2. IsFiniteSet({[doc |-> x[1], symbol |-> x[2]] :
                        x \in (DOMAIN docs) \X (DOMAIN symbols)})
    BY <1>5, <1>6, RowsFinite DEF Table, Extends
  <2> HIDE DEF newRanges
  <2>3. IsFiniteSet(newRanges)
    BY <2>1, <2>2, FS_Subset
  <2> QED
    BY <2>1, <2>3
<1> HIDE DEF newRanges
<1>13. Extends(ranges, dest.ranges, newRanges)
  BY <1>2, <1>12, <1>b, Inserted DEF Extends
<1> QED
  BY <1>5, <1>6, <1>8, <1>10, <1>11, <1>12, <1>13
     DEF docs, symbols, chunks, ranges, moved, newMentions, newRanges

LEMMA MergedFine ==
    ASSUME NEW dest, Fine(dest), NoVariables(dest), NEW src, Fine(src)
    PROVE  Fine(Merged(dest, src)) /\ NoVariables(Merged(dest, src))
<1> DEFINE e == Merged(dest, src)
           moved == Moved(dest, src)
           newMentions == NewMentions(dest, src)
           newRanges == NewRanges(dest, src)
<1>1. /\ Extends(e.docs, dest.docs, Range(src.docs)) /\ IsInjective(e.docs)
      /\ Extends(e.symbols, dest.symbols, Range(src.symbols) \ Variables)
      /\ IsInjective(e.symbols)
      /\ Extends(e.chunks, dest.chunks, moved) /\ IsInjective(e.chunks)
      /\ Extends(e.ranges, dest.ranges, newRanges)
      /\ e.mentions = dest.mentions \cup newMentions /\ Shape(e)
      /\ \A c \in moved : c.doc \in DOMAIN e.docs
      /\ \A r \in newRanges : r.doc \in DOMAIN e.docs /\ r.symbol \in DOMAIN e.symbols
      /\ \A m \in newMentions : m.chunk \in DOMAIN e.chunks /\ m.symbol \in DOMAIN e.symbols
  <2> DEFINE docs == MergedDocs(dest, src)
             symbols == MergedSymbols(dest, src)
             chunks == MergedChunks(dest, src)
             ranges == MergedRanges(dest, src)
  <2>1. /\ e.docs = docs /\ e.symbols = symbols /\ e.chunks = chunks /\ e.ranges = ranges
        /\ e.mentions = dest.mentions \cup newMentions /\ Shape(e)
    BY MergedIs
  <2>2. /\ Extends(docs, dest.docs, Range(src.docs)) /\ IsInjective(docs)
        /\ Extends(symbols, dest.symbols, Range(src.symbols) \ Variables)
        /\ IsInjective(symbols)
        /\ Extends(chunks, dest.chunks, moved) /\ IsInjective(chunks)
        /\ Extends(ranges, dest.ranges, newRanges)
        /\ \A c \in moved : c.doc \in DOMAIN docs
        /\ \A r \in newRanges : r.doc \in DOMAIN docs /\ r.symbol \in DOMAIN symbols
        /\ \A m \in newMentions : m.chunk \in DOMAIN chunks /\ m.symbol \in DOMAIN symbols
    BY MergedTables
  <2> HIDE DEF e, docs, symbols, chunks, ranges, moved, newMentions, newRanges
  <2> QED
    BY <2>1, <2>2
<1> HIDE DEF e, moved, newMentions, newRanges
<1>2. Range(e.docs) \subseteq Paths
  BY <1>1 DEF Fine, HalfFine, Extends
<1>3. /\ \A c \in Range(e.chunks) : c.doc \in DOMAIN e.docs
      /\ \A m \in e.mentions : m.chunk \in DOMAIN e.chunks /\ m.symbol \in DOMAIN e.symbols
      /\ \A r \in Range(e.ranges) : r.doc \in DOMAIN e.docs /\ r.symbol \in DOMAIN e.symbols
  BY <1>1 DEF Fine, HalfFine, Extends
<1>4. Fine(e)
  BY <1>1, <1>2, <1>3 DEF Fine, HalfFine, Extends
<1>5. NoVariables(e)
  BY <1>1 DEF NoVariables, Extends
<1> QED
  BY <1>4, <1>5 DEF e

-----------------------------------------------------------------------------
(* The invariant.                                                          *)

Ready(d) == Fine(d) /\ NoVariables(d)

DataShape == /\ input \in Inputs
             /\ phase \in {"convert", "postprocess", "prefix", "merge", "done", "failed"}
             /\ current \in 1..(Len(Source) + 1)
             /\ merged \in 0..Len(parts) /\ Len(indexed) = Len(parts)
             /\ \E S : indexed \in Seq(S)

DataPart == /\ db = NoDB \/ Fine(db)
            /\ phase \in {"postprocess", "prefix"} => Fine(db) /\ current <= Len(Source)
            /\ phase = "prefix" => Ready(db)

DataParts == \E S : parts \in Seq(S) /\ \A d \in S : Ready(d)

DataOutput == /\ output = NoDB \/ Ready(output)
              /\ phase = "merge" => Ready(output)

DataInv == DataShape /\ DataPart /\ DataParts /\ DataOutput

LEMMA DataInitInv == Init => DataInv
<1> SUFFICES ASSUME Init PROVE DataInv
  OBVIOUS
<1>1. Len(Source) \in Nat
  BY InputsAssumption DEF Init, Source
<1>2. DataShape
  BY <1>1 DEF Init, DataShape
<1>3. DataParts
  BY DEF Init, DataParts
<1> QED
  BY <1>2, <1>3 DEF Init, DataInv, DataPart, DataOutput

LEMMA ConvertInv == DataInv /\ Convert => DataInv'
<1> SUFFICES ASSUME DataInv, Convert PROVE DataInv'
  OBVIOUS
<1>1. current \in DOMAIN Source /\ Len(Source) \in Nat
  BY InputsAssumption DEF DataInv, DataShape, Convert, Source
<1>2. Proper(Source[current])
  BY <1>1, InputsAssumption DEF DataInv, DataShape, Source, Proper
<1>3. Fine(db')
  BY <1>2, ConvertedFine DEF Convert
<1> QED
  BY <1>3 DEF Convert, DataInv, DataShape, DataPart, DataParts, DataOutput, Source

LEMMA PostprocessInv == DataInv /\ PostprocessIndex => DataInv'
<1> SUFFICES ASSUME DataInv, PostprocessIndex PROVE DataInv'
  OBVIOUS
<1>1. Ready(db')
  BY PostprocessedFine DEF PostprocessIndex, DataInv, DataPart, Ready, NoVariables
<1> QED
  BY <1>1 DEF PostprocessIndex, DataInv, DataShape, DataPart, DataParts, DataOutput, Source,
     Ready

LEMMA PrefixInv == DataInv /\ PrefixDocumentPaths => DataInv'
<1> SUFFICES ASSUME DataInv, PrefixDocumentPaths PROVE DataInv'
  OBVIOUS
<1> DEFINE new == Prefixed(db, Source[current].dir)
<1>1. current \in DOMAIN Source /\ Len(Source) \in Nat
  BY InputsAssumption DEF DataInv, DataShape, DataPart, PrefixDocumentPaths, Source
<1>2. Source[current].dir \in Paths
  BY <1>1, InputsAssumption DEF DataInv, DataShape, Source
<1>3. Ready(new)
  BY <1>2, PrefixedFine DEF PrefixDocumentPaths, DataInv, DataPart, Ready, NoVariables
<1> HIDE DEF new
<1>4. PICK S : parts \in Seq(S) /\ \A d \in S : Ready(d)
  BY DEF DataInv, DataParts
<1>5. parts \in Seq(S \cup {new})
  BY <1>4
<1>6. parts' \in Seq(S \cup {new}) /\ Len(parts') = Len(parts) + 1
  BY <1>5, AppendProperties DEF PrefixDocumentPaths, new
<1>7. PICK N : indexed \in Seq(N)
  BY DEF DataInv, DataShape
<1>8. indexed \in Seq(N \cup {current})
  BY <1>7
<1>9. indexed' \in Seq(N \cup {current}) /\ Len(indexed') = Len(indexed) + 1
  BY <1>8, AppendProperties DEF PrefixDocumentPaths
<1>10. DataParts'
  BY <1>3, <1>4, <1>6 DEF DataParts
<1>11. Len(parts) \in Nat
  BY <1>4, LenProperties
<1>12. DataShape'
  BY <1>1, <1>6, <1>9, <1>11 DEF PrefixDocumentPaths, DataInv, DataShape, DataPart, Source
<1> QED
  BY <1>10, <1>12 DEF PrefixDocumentPaths, DataInv, DataPart, DataOutput

LEMMA StartInv == DataInv /\ StartOutput => DataInv'
<1> SUFFICES ASSUME DataInv, StartOutput PROVE DataInv'
  OBVIOUS
<1>1. PICK S : parts \in Seq(S) /\ \A d \in S : Ready(d)
  BY DEF DataInv, DataParts
<1>2. CASE parts = <<>>
  BY <1>2 DEF StartOutput, DataInv, DataShape, DataPart, DataParts, DataOutput, Source
<1>3. CASE parts # <<>>
  <2>1. parts[1] \in S /\ Len(parts) \in Nat /\ Len(parts) >= 1
    BY <1>1, <1>3, EmptySeq, LenProperties
  <2>2. Ready(output')
    BY <1>1, <1>3, <2>1 DEF StartOutput
  <2> QED
    BY <1>3, <2>1, <2>2 DEF StartOutput, DataInv, DataShape, DataPart, DataParts, DataOutput,
       Source
<1> QED
  BY <1>2, <1>3

LEMMA MergeInv == DataInv /\ MergeOneDatabase => DataInv'
<1> SUFFICES ASSUME DataInv, MergeOneDatabase PROVE DataInv'
  OBVIOUS
<1>1. PICK S : parts \in Seq(S) /\ \A d \in S : Ready(d)
  BY DEF DataInv, DataParts
<1>2. merged + 1 \in 1..Len(parts) /\ Len(parts) \in Nat
  BY <1>1, LenProperties DEF DataInv, DataShape, MergeOneDatabase
<1>3. Ready(parts[merged + 1])
  BY <1>1, <1>2, ElementOfSeq
<1>4. Ready(output)
  BY DEF DataInv, DataOutput, MergeOneDatabase
<1>5. Ready(output')
  BY <1>3, <1>4, MergedFine DEF MergeOneDatabase, Ready
<1> QED
  BY <1>2, <1>5 DEF MergeOneDatabase, DataInv, DataShape, DataPart, DataParts, DataOutput,
     Source

LEMMA DataStepInv == DataInv /\ [Next]_vars => DataInv'
<1> SUFFICES ASSUME DataInv, [Next]_vars PROVE DataInv'
  OBVIOUS
<1>1. Len(Source) \in Nat
  BY InputsAssumption DEF DataInv, DataShape, Source
<1>2. CASE Convert
  BY <1>2, ConvertInv
<1>3. CASE PostprocessIndex
  BY <1>3, PostprocessInv
<1>4. CASE PrefixDocumentPaths
  BY <1>4, PrefixInv
<1>5. CASE SkipPart
  BY <1>1, <1>5 DEF SkipPart, DataInv, DataShape, DataPart, DataParts, DataOutput, Source
<1>6. CASE StartOutput
  BY <1>6, StartInv
<1>7. CASE MergeOneDatabase
  BY <1>7, MergeInv
<1>8. CASE EndOutput
  BY <1>8 DEF EndOutput, DataInv, DataShape, DataPart, DataParts, DataOutput, Source
<1>9. CASE UNCHANGED vars
  BY <1>9 DEF vars, DataInv, DataShape, DataPart, DataParts, DataOutput, Source
<1> QED
  BY <1>2, <1>3, <1>4, <1>5, <1>6, <1>7, <1>8, <1>9 DEF Next

\* The databases at every moment between conversion and the end of the merge: each
\* is well formed, and each part that waits for the merge has been postprocessed.
THEOREM DataInvariant == Spec => []DataInv
  BY DataInitInv, DataStepInv, PTL DEF Spec

LEMMA DatabasesFine ==
    ASSUME DataInv, NEW d \in Databases
    PROVE  Fine(d) /\ (NoVariables(d) \/ d = db)
<1>1. PICK S : parts \in Seq(S) /\ \A e \in S : Ready(e)
  BY DEF DataInv, DataParts
<1>2. \A i \in DOMAIN parts : parts[i] \in S
  BY <1>1, ElementOfSeq, LenProperties
<1>3. CASE d = db
  BY <1>3 DEF Databases, DataInv, DataPart
<1>4. CASE d = output
  BY <1>4 DEF Databases, DataInv, DataOutput, Ready
<1>5. CASE d \in Range(parts)
  BY <1>1, <1>2, <1>5 DEF Range, Ready
<1> QED
  BY <1>3, <1>4, <1>5 DEF Databases

-----------------------------------------------------------------------------

\* Whatever the parts of a repository hold, the steps and the tables of the
\* databases have the types they should, and variables are trimmed.
THEOREM DataTypeCorrect == Spec => []TypeOK
<1>1. DataInv => TypeOK
  <2> SUFFICES ASSUME DataInv PROVE TypeOK
    OBVIOUS
  <2>1. \A d \in Databases :
          /\ UNION {DOMAIN d.docs, DOMAIN d.symbols, DOMAIN d.chunks,
                    DOMAIN d.ranges} \subseteq Ids
          /\ Range(d.symbols) \cap Variables = {} \/ d = db
    BY DatabasesFine DEF Fine, HalfFine, Table, NoVariables
  <2> QED
    BY <2>1 DEF TypeOK, DataInv, DataShape
<1> QED
  BY <1>1, DataInvariant, PTL

\* No row refers to one that pruning, trimming or merging has taken away or
\* given another id, whatever the parts share and the globs exclude.
THEOREM NothingEverDangles == Spec => []NothingDangles
<1>1. DataInv => NothingDangles
  BY DatabasesFine DEF NothingDangles, Fine, HalfFine
<1> QED
  BY <1>1, DataInvariant, PTL

\* No merge writes a document, a symbol or a chunk twice.
THEOREM RowsStayUnique == Spec => []RowsUnique
<1>1. DataInv => RowsUnique
  BY DatabasesFine DEF RowsUnique, Fine, HalfFine
<1> QED
  BY <1>1, DataInvariant, PTL

-----------------------------------------------------------------------------
(* What a database says, from step to step.                                *)

\* What its rows say of a mention and of a definition.
Told(d, m) == <<d.docs[d.chunks[m.chunk].doc], d.chunks[m.chunk].index,
                d.symbols[m.symbol], m.role>>
ToldDefinition(d, r) == <<d.docs[r.doc], d.symbols[r.symbol]>>

LEMMA SaysMeans ==
    ASSUME NEW d
    PROVE  /\ Mentions(d) = {Told(d, m) : m \in d.mentions}
           /\ Definitions(d) = {ToldDefinition(d, r) : r \in Range(d.ranges)}
BY DEF Mentions, Definitions, Told, ToldDefinition

\* scip's database says what the indexer says.
LEMMA ConvertedSays ==
    ASSUME NEW part, Proper(part)
    PROVE  LET e == Converted(part)
           IN  /\ Range(e.docs) = part.docs
               /\ Mentions(e) = {<<m[1], m[2], m[3], m[4]>> : m \in part.mentions}
               /\ Definitions(e) = {<<d[1], d[2]>> : d \in part.defined}
<1> DEFINE names == {m[3] : m \in part.mentions} \cup {d[2] : d \in part.defined}
           docs == SetToSeq(part.docs)
           symbols == SetToSeq(names)
           doc(p) == CHOOSE i \in DOMAIN docs : docs[i] = p
           sym(s) == CHOOSE i \in DOMAIN symbols : symbols[i] = s
           chunkRows == {[doc |-> doc(m[1]), index |-> m[2]] : m \in part.mentions}
           chunks == SetToSeq(chunkRows)
           home(m) == CHOOSE i \in DOMAIN chunks :
                          chunks[i] = [doc |-> doc(m[1]), index |-> m[2]]
           row(m) == [chunk |-> home(m), symbol |-> sym(m[3]), role |-> m[4]]
           mentions == {row(m) : m \in part.mentions}
           defRow(d) == [doc |-> doc(d[1]), symbol |-> sym(d[2])]
           rangeRows == {defRow(d) : d \in part.defined}
           ranges == SetToSeq(rangeRows)
           e == Converted(part)
<1>1. e = [docs |-> docs, symbols |-> symbols, chunks |-> chunks,
           mentions |-> mentions, ranges |-> ranges]
  BY DEF Converted
<1>2. IsFiniteSet(names) /\ IsFiniteSet(chunkRows) /\ IsFiniteSet(rangeRows)
  <2> DEFINE f == [m \in part.mentions |-> m[3]]
             g == [d \in part.defined |-> d[2]]
             h == [m \in part.mentions |-> [doc |-> doc(m[1]), index |-> m[2]]]
             k == [d \in part.defined |-> defRow(d)]
  <2> HIDE DEF doc, sym
  <2>1. IsFiniteSet(Range(f)) /\ IsFiniteSet(Range(g))
    BY RangeFinite DEF Proper
  <2>2. IsFiniteSet(Range(h)) /\ IsFiniteSet(Range(k))
    <3> HIDE DEF defRow
    <3> QED
      BY RangeFinite DEF Proper
  <2>3. names = Range(f) \cup Range(g) /\ chunkRows = Range(h) /\ rangeRows = Range(k)
    BY DEF Range
  <2> HIDE DEF f, g, h, k, names, chunkRows, rangeRows
  <2> QED
    BY <2>1, <2>2, <2>3, FS_Union
<1>3. /\ Range(docs) = part.docs /\ Range(symbols) = names
      /\ Range(chunks) = chunkRows /\ Range(ranges) = rangeRows
  <2> HIDE DEF names, chunkRows, rangeRows
  <2> QED
    BY <1>2, NewTable DEF Proper
<1> HIDE DEF docs, symbols, chunks, ranges
<1>4. \A p \in part.docs : docs[doc(p)] = p
  BY <1>3 DEF Range
<1>5. \A s \in names : symbols[sym(s)] = s
  <2> HIDE DEF names
  <2> QED
    BY <1>3 DEF Range
<1>6. /\ \A m \in part.mentions : m[1] \in part.docs /\ m[3] \in names
      /\ \A d \in part.defined : d[1] \in part.docs /\ d[2] \in names
  BY DEF Proper
<1> HIDE DEF doc, sym, names
<1>7. \A m \in part.mentions : chunks[home(m)] = [doc |-> doc(m[1]), index |-> m[2]]
  <2> TAKE m \in part.mentions
  <2>1. [doc |-> doc(m[1]), index |-> m[2]] \in Range(chunks)
    BY <1>3
  <2> QED
    BY <2>1 DEF Range
<1> HIDE DEF home, e
<1>8. /\ e.docs = docs /\ e.symbols = symbols /\ e.chunks = chunks
      /\ e.mentions = mentions /\ e.ranges = ranges
  BY <1>1
<1>9. ASSUME NEW m \in part.mentions PROVE Told(e, row(m)) = <<m[1], m[2], m[3], m[4]>>
  <2> DEFINE r == row(m)
  <2>1. r.chunk = home(m) /\ r.symbol = sym(m[3]) /\ r.role = m[4]
    OBVIOUS
  <2>2. chunks[home(m)].doc = doc(m[1]) /\ chunks[home(m)].index = m[2]
    <3>1. chunks[home(m)] = [doc |-> doc(m[1]), index |-> m[2]]
      BY <1>7
    <3> QED
      BY ONLY <3>1
  <2>3. docs[doc(m[1])] = m[1] /\ symbols[sym(m[3])] = m[3]
    BY <1>4, <1>5, <1>6
  <2> HIDE DEF r
  <2>4. Told(e, r) = <<m[1], m[2], m[3], m[4]>>
    BY <1>8, <2>1, <2>2, <2>3 DEF Told
  <2> QED
    BY <2>4 DEF r
<1>10. ASSUME NEW d \in part.defined PROVE ToldDefinition(e, defRow(d)) = <<d[1], d[2]>>
  BY <1>4, <1>5, <1>6, <1>8 DEF ToldDefinition
<1> HIDE DEF row, defRow
<1>11. Mentions(e) = {<<m[1], m[2], m[3], m[4]>> : m \in part.mentions}
  BY <1>8, <1>9, SaysMeans
<1>12. Definitions(e) = {<<d[1], d[2]>> : d \in part.defined}
  BY <1>3, <1>8, <1>10, SaysMeans
<1> QED
  BY <1>3, <1>8, <1>11, <1>12 DEF e

\* Rows that are left over say what they said.
Less(t, old) == /\ DOMAIN t \subseteq DOMAIN old /\ \A id \in DOMAIN t : t[id] = old[id]
LeftOver(e, d) == /\ Fine(e) /\ Fine(d)
                  /\ Less(e.docs, d.docs) /\ Less(e.symbols, d.symbols)
                  /\ Less(e.chunks, d.chunks)
                  /\ e.mentions \subseteq d.mentions /\ Range(e.ranges) \subseteq Range(d.ranges)

LEMMA LeftOverSays ==
    ASSUME NEW d, NEW e, LeftOver(e, d)
    PROVE  /\ \A m \in e.mentions : Told(e, m) = Told(d, m)
           /\ \A r \in Range(e.ranges) : ToldDefinition(e, r) = ToldDefinition(d, r)
<1>1. ASSUME NEW m \in e.mentions PROVE Told(e, m) = Told(d, m)
  <2>1. m.chunk \in DOMAIN e.chunks /\ m.symbol \in DOMAIN e.symbols
    BY DEF LeftOver, Fine, HalfFine
  <2>2. e.chunks[m.chunk] \in Range(e.chunks)
    BY <2>1 DEF Range
  <2>3. e.chunks[m.chunk].doc \in DOMAIN e.docs
    BY <2>2 DEF LeftOver, Fine, HalfFine
  <2> QED
    BY <2>1, <2>3 DEF LeftOver, Less, Told
<1>2. ASSUME NEW r \in Range(e.ranges) PROVE ToldDefinition(e, r) = ToldDefinition(d, r)
  BY DEF LeftOver, Less, Fine, HalfFine, ToldDefinition
<1> QED
  BY <1>1, <1>2

\* Of the documents that a glob matches nothing is left, and all of the others.
LEMMA PrunedSays ==
    ASSUME NEW d, Fine(d), NEW globs
    PROVE  LET e == PruneExcludedDocuments(d, globs)
           IN  /\ Range(e.docs) = {p \in Range(d.docs) : ~PathMatchesAnyGlob(p, globs)}
               /\ Mentions(e) = {x \in Mentions(d) : ~PathMatchesAnyGlob(x[1], globs)}
               /\ Definitions(e) = {x \in Definitions(d) : ~PathMatchesAnyGlob(x[1], globs)}
<1> DEFINE Out(p) == PathMatchesAnyGlob(p, globs)
           kept == {id \in DOMAIN d.docs : ~Out(d.docs[id])}
           docs == Restrict(d.docs, kept)
           rest == OnlyDocuments(d, docs)
           used == (DOMAIN rest.symbols) \cap (Mentioned(rest) \cup Defined(rest))
           few == OnlyUsedSymbols(rest)
           e == TrimToKnownSymbols(few)
<1>1. PruneExcludedDocuments(d, globs) = IF docs = d.docs THEN d ELSE e
  BY DEF PruneExcludedDocuments, Keep
<1>2. /\ Table(d.docs) /\ Table(d.chunks) /\ Table(d.ranges) /\ Table(d.symbols)
      /\ \A m \in d.mentions : m.chunk \in DOMAIN d.chunks /\ m.symbol \in DOMAIN d.symbols
      /\ \A r \in Range(d.ranges) : r.doc \in DOMAIN d.docs /\ r.symbol \in DOMAIN d.symbols
      /\ \A c \in Range(d.chunks) : c.doc \in DOMAIN d.docs
  BY DEF Fine, HalfFine
<1>3. \A m \in d.mentions : d.chunks[m.chunk].doc \in DOMAIN d.docs
  BY <1>2 DEF Range
<1>4. /\ DOMAIN docs = kept /\ Less(docs, d.docs)
      /\ Range(docs) = {p \in Range(d.docs) : ~Out(p)}
  <2> HIDE DEF Out
  <2> QED
    BY <1>2 DEF Restrict, Less, Range
<1>5. CASE docs = d.docs
  <2>1. \A id \in DOMAIN d.docs : ~Out(d.docs[id])
    BY <1>4, <1>5
  <2>2. \A x \in Mentions(d) : ~Out(x[1])
    BY <1>3, <2>1, SaysMeans DEF Told
  <2>3. \A x \in Definitions(d) : ~Out(x[1])
    BY <1>2, <2>1, SaysMeans DEF ToldDefinition
  <2>4. Range(d.docs) = {p \in Range(d.docs) : ~Out(p)}
    BY <1>4, <1>5
  <2> QED
    BY <1>1, <1>5, <2>2, <2>3, <2>4
<1> DEFINE keptChunks == {id \in DOMAIN d.chunks : d.chunks[id].doc \in kept}
           keptRanges == {id \in DOMAIN d.ranges : d.ranges[id].doc \in kept}
<1>6. /\ rest.docs = docs /\ rest.symbols = d.symbols
      /\ rest.chunks = Restrict(d.chunks, keptChunks)
      /\ rest.mentions = {m \in d.mentions : m.chunk \in keptChunks}
      /\ rest.ranges = Restrict(d.ranges, keptRanges)
  <2> DEFINE D == d.docs  Y == d.symbols  C == d.chunks  M == d.mentions  R == d.ranges
             chunks == Restrict(C, keptChunks)
             mentions == {m \in M : m.chunk \in keptChunks}
             ranges == Restrict(R, keptRanges)
  <2>1. d = [docs |-> D, symbols |-> Y, chunks |-> C, mentions |-> M, ranges |-> R]
    BY DEF Fine, HalfFine, Shape
  <2>2. DOMAIN docs = kept /\ DOMAIN chunks = keptChunks
    BY <1>4 DEF Restrict
  <2>3. rest = [d EXCEPT !.docs = docs, !.chunks = chunks,
                         !.mentions = mentions, !.ranges = ranges]
    <3> HIDE DEF kept, docs
    <3> QED
      BY <2>2 DEF OnlyDocuments, Keep
  <2> HIDE DEF D, Y, C, M, R, docs, chunks, mentions, ranges, rest
  <2>4. rest = [[docs |-> D, symbols |-> Y, chunks |-> C, mentions |-> M, ranges |-> R]
                   EXCEPT !.docs = docs, !.chunks = chunks,
                          !.mentions = mentions, !.ranges = ranges]
    BY <2>1, <2>3
  <2>5. rest = [docs |-> docs, symbols |-> Y, chunks |-> chunks,
                mentions |-> mentions, ranges |-> ranges]
    BY ONLY <2>4
  <2>6. /\ rest.docs = docs /\ rest.symbols = Y /\ rest.chunks = chunks
        /\ rest.mentions = mentions /\ rest.ranges = ranges
    BY ONLY <2>5
  <2> QED
    BY <2>6 DEF Y, chunks, C, mentions, M, ranges, R
<1>7. HalfFine(rest)
  <2>1. kept \subseteq DOMAIN d.docs
    OBVIOUS
  <2> HIDE DEF kept
  <2> QED
    BY <2>1, OnlyDocumentsFine
<1> HIDE DEF rest
<1>8. /\ few.docs = rest.docs /\ few.chunks = rest.chunks /\ few.mentions = rest.mentions
      /\ few.ranges = rest.ranges /\ few.symbols = Restrict(rest.symbols, used)
      /\ HalfFine(few)
  <2>1. few = [rest EXCEPT !.symbols = Restrict(@, used)]
    BY DEF OnlyUsedSymbols
  <2>2. HalfFine(few)
    <3>1. used \subseteq DOMAIN rest.symbols
      OBVIOUS
    <3> HIDE DEF used
    <3> QED
      BY <1>7, <2>1, <3>1, FewerSymbols
  <2> HIDE DEF used, few
  <2> QED
    BY <1>7, <2>1, <2>2 DEF HalfFine, Shape
<1>9. DOMAIN few.symbols = used
  BY <1>8 DEF Restrict
<1> HIDE DEF few
<1>10. /\ e.docs = few.docs /\ e.chunks = few.chunks /\ e.symbols = few.symbols
       /\ e.mentions = {m \in few.mentions : m.symbol \in used}
       /\ e.ranges = Restrict(few.ranges, {id \in DOMAIN few.ranges :
                                              few.ranges[id].symbol \in used})
       /\ Fine(e)
  <2>1. Fine(e)
    BY <1>8, TrimmedFine
  <2>2. e = [few EXCEPT !.mentions = {m \in @ : m.symbol \in used},
                        !.ranges = Restrict(@, {id \in DOMAIN @ : @[id].symbol \in used})]
    <3> HIDE DEF used
    <3> QED
      BY <1>9 DEF TrimToKnownSymbols, Keep
  <2> HIDE DEF e, used
  <2> QED
    BY <1>8, <2>1, <2>2 DEF HalfFine, Shape
<1> HIDE DEF e
<1>11. \A r \in Range(rest.ranges) : r \in Range(d.ranges) /\ r.doc \in kept
  BY <1>6 DEF Restrict, Range
<1>12. \A r \in Range(d.ranges) : r.doc \in kept => r \in Range(rest.ranges)
  <2> HIDE DEF kept
  <2> QED
    BY <1>6 DEF Restrict, Range
<1>13. e.mentions = {m \in d.mentions : m.chunk \in keptChunks}
  <2>1. \A m \in rest.mentions : m.symbol \in used
    BY <1>2, <1>6 DEF Mentioned
  <2> HIDE DEF used, keptChunks
  <2> QED
    BY <1>6, <1>8, <1>10, <2>1
<1>14. Range(e.ranges) = {r \in Range(d.ranges) : r.doc \in kept}
  <2>1. \A r \in Range(rest.ranges) : r.symbol \in used
    BY <1>2, <1>6, <1>11 DEF Defined
  <2> HIDE DEF used, kept
  <2>2. Range(e.ranges) = Range(rest.ranges)
    BY <1>8, <1>10, <2>1 DEF Restrict, Range
  <2> QED
    BY <1>11, <1>12, <2>2
<1>15. LeftOver(e, d)
  <2>1. Less(e.docs, d.docs)
    BY <1>4, <1>6, <1>8, <1>10
  <2>2. Less(e.symbols, d.symbols)
    <3>1. used \subseteq DOMAIN d.symbols /\ e.symbols = Restrict(d.symbols, used)
      BY <1>6, <1>8, <1>10
    <3> HIDE DEF used
    <3> QED
      BY <3>1 DEF Less, Restrict
  <2>3. Less(e.chunks, d.chunks)
    <3>1. keptChunks \subseteq DOMAIN d.chunks /\ e.chunks = Restrict(d.chunks, keptChunks)
      BY <1>6, <1>8, <1>10
    <3> HIDE DEF keptChunks
    <3> QED
      BY <3>1 DEF Less, Restrict
  <2> HIDE DEF kept, keptChunks
  <2> QED
    BY <1>10, <1>13, <1>14, <2>1, <2>2, <2>3 DEF LeftOver
<1>16. /\ Mentions(e) = {Told(d, m) : m \in e.mentions}
       /\ Definitions(e) = {ToldDefinition(d, r) : r \in Range(e.ranges)}
  BY <1>15, LeftOverSays, SaysMeans
<1>17. \A m \in d.mentions : m.chunk \in keptChunks <=> ~Out(Told(d, m)[1])
  BY <1>2, <1>3 DEF Told
<1>18. \A r \in Range(d.ranges) : r.doc \in kept <=> ~Out(ToldDefinition(d, r)[1])
  BY <1>2 DEF ToldDefinition
<1> HIDE DEF kept, keptChunks, Out
<1>19. Mentions(e) = {x \in Mentions(d) : ~Out(x[1])}
  BY <1>13, <1>16, <1>17, SaysMeans
<1>20. Definitions(e) = {x \in Definitions(d) : ~Out(x[1])}
  BY <1>14, <1>16, <1>18, SaysMeans
<1>21. CASE docs # d.docs
  <2>1. Range(e.docs) = {p \in Range(d.docs) : ~Out(p)}
    BY <1>4, <1>6, <1>8, <1>10
  <2> QED
    BY <1>1, <1>19, <1>20, <1>21, <2>1 DEF Out
<1> QED
  BY <1>5, <1>21

\* Variables go, and what looks external, with all that is said of them.
Worth(d, s) == /\ s \notin Variables
               /\ \/ input.keepExternal
                  \/ \E x \in Definitions(d) : x[2] = s
                  \/ s \in Structural

LEMMA TrimmedSays ==
    ASSUME NEW d, Fine(d)
    PROVE  LET e == TrimToKnownSymbols(TrimUnusedColumns(d, input.keepExternal))
           IN  /\ Range(e.docs) = Range(d.docs)
               /\ Mentions(e) = {x \in Mentions(d) : Worth(d, x[3])}
               /\ Definitions(e) = {x \in Definitions(d) : Worth(d, x[2])}
<1> DEFINE S == {s \in DOMAIN d.symbols : /\ d.symbols[s] \notin Variables
                                          /\ \/ input.keepExternal
                                             \/ s \in Defined(d)
                                             \/ d.symbols[s] \in Structural}
           t == TrimUnusedColumns(d, input.keepExternal)
           e == TrimToKnownSymbols(t)
<1>1. /\ \A m \in d.mentions : m.symbol \in DOMAIN d.symbols
      /\ \A r \in Range(d.ranges) : r.symbol \in DOMAIN d.symbols
      /\ IsInjective(d.symbols)
  BY DEF Fine, HalfFine
<1>2. S \subseteq DOMAIN d.symbols
  OBVIOUS
<1>3. \A s \in DOMAIN d.symbols : s \in S <=> Worth(d, d.symbols[s])
  <2> SUFFICES ASSUME NEW s \in DOMAIN d.symbols
               PROVE  s \in Defined(d) <=> \E x \in Definitions(d) : x[2] = d.symbols[s]
    BY DEF Worth
  <2>1. ASSUME s \in Defined(d) PROVE \E x \in Definitions(d) : x[2] = d.symbols[s]
    <3>1. PICK r \in Range(d.ranges) : r.symbol = s
      BY <2>1 DEF Defined
    <3>2. ToldDefinition(d, r)[2] = d.symbols[s]
      BY <3>1 DEF ToldDefinition
    <3> QED
      BY <3>2, SaysMeans
  <2>2. ASSUME NEW x \in Definitions(d), x[2] = d.symbols[s] PROVE s \in Defined(d)
    <3>1. PICK r \in Range(d.ranges) : x = ToldDefinition(d, r)
      BY SaysMeans
    <3>2. d.symbols[r.symbol] = d.symbols[s] /\ r.symbol \in DOMAIN d.symbols
      BY <1>1, <2>2, <3>1 DEF ToldDefinition
    <3>3. r.symbol = s
      BY <1>1, <3>2 DEF IsInjective
    <3> QED
      BY <3>3 DEF Defined
  <2> QED
    BY <2>1, <2>2
<1>4. /\ t.docs = d.docs /\ t.chunks = d.chunks /\ t.mentions = d.mentions
      /\ t.ranges = d.ranges /\ t.symbols = Restrict(d.symbols, S) /\ HalfFine(t)
  <2>1. t = [d EXCEPT !.symbols = Restrict(@, S)]
    BY DEF TrimUnusedColumns, Fine, HalfFine, Shape
  <2> HIDE DEF S, t
  <2>2. HalfFine(t)
    BY <1>2, <2>1, FewerSymbols DEF Fine
  <2> QED
    BY <2>1, <2>2 DEF Fine, HalfFine, Shape
<1> HIDE DEF S
<1>5. DOMAIN t.symbols = S
  BY <1>4 DEF Restrict
<1> HIDE DEF t
<1>6. /\ e.docs = t.docs /\ e.chunks = t.chunks /\ e.symbols = t.symbols
      /\ e.mentions = {m \in t.mentions : m.symbol \in S}
      /\ e.ranges = Restrict(t.ranges, {id \in DOMAIN t.ranges : t.ranges[id].symbol \in S})
      /\ Fine(e)
  <2>1. Fine(e)
    BY <1>4, TrimmedFine
  <2>2. e = [t EXCEPT !.mentions = {m \in @ : m.symbol \in S},
                      !.ranges = Restrict(@, {id \in DOMAIN @ : @[id].symbol \in S})]
    BY <1>5 DEF TrimToKnownSymbols, Keep
  <2> HIDE DEF e
  <2> QED
    BY <1>4, <2>1, <2>2 DEF HalfFine, Shape
<1> HIDE DEF e
<1>7. e.mentions = {m \in d.mentions : m.symbol \in S}
  BY <1>4, <1>6
<1>8. Range(e.ranges) = {r \in Range(d.ranges) : r.symbol \in S}
  BY <1>4, <1>6 DEF Restrict, Range
<1>9. LeftOver(e, d)
  <2>1. Less(e.docs, d.docs) /\ Less(e.chunks, d.chunks)
    BY <1>4, <1>6 DEF Less
  <2>2. Less(e.symbols, d.symbols)
    BY <1>2, <1>4, <1>6 DEF Less, Restrict
  <2> QED
    BY <1>6, <1>7, <1>8, <2>1, <2>2 DEF LeftOver
<1>10. /\ Mentions(e) = {Told(d, m) : m \in e.mentions}
       /\ Definitions(e) = {ToldDefinition(d, r) : r \in Range(e.ranges)}
  BY <1>9, LeftOverSays, SaysMeans
<1>11. /\ \A m \in d.mentions : m.symbol \in S <=> Worth(d, Told(d, m)[3])
       /\ \A r \in Range(d.ranges) : r.symbol \in S <=> Worth(d, ToldDefinition(d, r)[2])
  BY <1>1, <1>3 DEF Told, ToldDefinition
<1>12. Mentions(e) = {x \in Mentions(d) : Worth(d, x[3])}
  BY <1>7, <1>10, <1>11, SaysMeans
<1>13. Definitions(e) = {x \in Definitions(d) : Worth(d, x[2])}
  BY <1>8, <1>10, <1>11, SaysMeans
<1>14. Range(e.docs) = Range(d.docs)
  BY <1>4, <1>6
<1> QED
  BY <1>12, <1>13, <1>14 DEF e, t

\* Only the paths change when a directory is put before them.
LEMMA PrefixedSays ==
    ASSUME NEW d, Fine(d), NEW dir
    PROVE  LET e == Prefixed(d, dir)
           IN  /\ Range(e.docs) = {dir \o p : p \in Range(d.docs)}
               /\ Mentions(e) = {<<dir \o x[1], x[2], x[3], x[4]>> : x \in Mentions(d)}
               /\ Definitions(e) = {<<dir \o x[1], x[2]>> : x \in Definitions(d)}
<1> DEFINE docs == [i \in DOMAIN d.docs |-> dir \o d.docs[i]]
           e == Prefixed(d, dir)
<1>1. /\ e.docs = docs /\ e.symbols = d.symbols /\ e.chunks = d.chunks
      /\ e.mentions = d.mentions /\ e.ranges = d.ranges
  <2>1. e = [d EXCEPT !.docs = docs]
    BY DEF Prefixed
  <2> HIDE DEF docs, e
  <2> QED
    BY <2>1 DEF Fine, HalfFine, Shape
<1> HIDE DEF e
<1>2. \A i \in DOMAIN d.docs : docs[i] = dir \o d.docs[i]
  OBVIOUS
<1>3. Range(docs) = {dir \o p : p \in Range(d.docs)}
  BY DEF Range
<1> HIDE DEF docs
<1>4. \A m \in d.mentions : d.chunks[m.chunk].doc \in DOMAIN d.docs
  BY DEF Fine, HalfFine, Range
<1>5. ASSUME NEW m \in d.mentions
      PROVE  LET x == Told(d, m) IN Told(e, m) = <<dir \o x[1], x[2], x[3], x[4]>>
  BY <1>1, <1>2, <1>4 DEF Told
<1>6. ASSUME NEW r \in Range(d.ranges)
      PROVE  LET x == ToldDefinition(d, r) IN ToldDefinition(e, r) = <<dir \o x[1], x[2]>>
  BY <1>1, <1>2 DEF ToldDefinition, Fine, HalfFine
<1> DEFINE Placed(x) == <<dir \o x[1], x[2], x[3], x[4]>>
           PlacedDefinition(x) == <<dir \o x[1], x[2]>>
<1>7. /\ \A m \in d.mentions : Told(e, m) = Placed(Told(d, m))
      /\ \A r \in Range(d.ranges) : ToldDefinition(e, r) = PlacedDefinition(ToldDefinition(d, r))
  BY <1>5, <1>6
<1> HIDE DEF Placed, PlacedDefinition
<1>8. Mentions(e) = {Placed(x) : x \in Mentions(d)}
  <2>1. Mentions(e) = {Told(e, m) : m \in d.mentions}
    BY <1>1, SaysMeans
  <2>2. Mentions(d) = {Told(d, m) : m \in d.mentions}
    BY SaysMeans
  <2> QED
    BY <1>7, <2>1, <2>2
<1>9. Definitions(e) = {PlacedDefinition(x) : x \in Definitions(d)}
  <2>1. Definitions(e) = {ToldDefinition(e, r) : r \in Range(d.ranges)}
    BY <1>1, SaysMeans
  <2>2. Definitions(d) = {ToldDefinition(d, r) : r \in Range(d.ranges)}
    BY SaysMeans
  <2> QED
    BY <1>7, <2>1, <2>2
<1> QED
  BY <1>1, <1>3, <1>8, <1>9 DEF e, Placed, PlacedDefinition


\* A merged database says what both said.
LEMMA MergedSays ==
    ASSUME NEW dest, Ready(dest), NEW src, Ready(src)
    PROVE  LET e == Merged(dest, src)
           IN  /\ Range(e.docs) = Range(dest.docs) \cup Range(src.docs)
               /\ Mentions(e) = Mentions(dest) \cup Mentions(src)
               /\ Definitions(e) = Definitions(dest) \cup Definitions(src)
<1> DEFINE e == Merged(dest, src)
           docs == MergedDocs(dest, src)
           docMap == DocMap(dest, src)
           symbols == MergedSymbols(dest, src)
           symMap == SymMap(dest, src)
           chunks == MergedChunks(dest, src)
           cMap == ChunkMap(dest, src)
           moved == Moved(dest, src)
           newMentions == NewMentions(dest, src)
           newRanges == NewRanges(dest, src)
<1>1. /\ e.docs = docs /\ e.symbols = symbols /\ e.chunks = chunks
      /\ e.mentions = dest.mentions \cup newMentions
      /\ e.ranges = MergedRanges(dest, src)
  BY MergedIs
<1>2. Fine(dest) /\ Fine(src) /\ NoVariables(src)
  BY DEF Ready
<1>3. /\ Extends(docs, dest.docs, Range(src.docs))
      /\ Extends(symbols, dest.symbols, Range(src.symbols) \ Variables)
      /\ Extends(chunks, dest.chunks, moved)
      /\ Extends(MergedRanges(dest, src), dest.ranges, newRanges)
  BY <1>2, MergedTables
<1>4. /\ \A p : p \in docMap <=> /\ p \in (DOMAIN src.docs) \X (DOMAIN docs)
                                 /\ src.docs[p[1]] = docs[p[2]]
      /\ \A p : p \in symMap <=> /\ p \in (DOMAIN src.symbols) \X (DOMAIN symbols)
                                 /\ src.symbols[p[1]] = symbols[p[2]]
  BY DEF DocMap, SymMap, SameRow
<1>5. \A p : p \in cMap <=> /\ p \in (DOMAIN src.chunks) \X (DOMAIN chunks)
                            /\ <<src.chunks[p[1]].doc, chunks[p[2]].doc>> \in docMap
                            /\ src.chunks[p[1]].index = chunks[p[2]].index
  BY DEF ChunkMap
<1>6. moved = {[doc |-> x[2][2], index |-> x[1].index] :
                  x \in {y \in Range(src.chunks) \X docMap : y[1].doc = y[2][1]}}
  BY DEF Moved
<1>7. newMentions = {[chunk |-> x[2][2], symbol |-> x[3][2], role |-> x[1].role] :
                        x \in {y \in src.mentions \X cMap \X symMap :
                                  /\ y[1].chunk = y[2][1]
                                  /\ y[1].symbol = y[3][1]}}
  BY DEF NewMentions
<1>8. newRanges = {[doc |-> x[2][2], symbol |-> x[3][2]] :
                      x \in {y \in Range(src.ranges) \X docMap \X symMap :
                                /\ y[1].doc = y[2][1]
                                /\ y[1].symbol = y[3][1]}}
  BY DEF NewRanges
<1> HIDE DEF e, docs, docMap, symbols, symMap, chunks, cMap, moved, newMentions, newRanges
<1>9. /\ \A m \in src.mentions : m.chunk \in DOMAIN src.chunks /\ m.symbol \in DOMAIN src.symbols
      /\ \A r \in Range(src.ranges) : r.doc \in DOMAIN src.docs /\ r.symbol \in DOMAIN src.symbols
      /\ \A i \in DOMAIN src.chunks : src.chunks[i].doc \in DOMAIN src.docs
      /\ \A m \in dest.mentions : m.chunk \in DOMAIN dest.chunks
                                  /\ m.symbol \in DOMAIN dest.symbols
      /\ \A r \in Range(dest.ranges) : r.doc \in DOMAIN dest.docs
                                       /\ r.symbol \in DOMAIN dest.symbols
      /\ \A i \in DOMAIN dest.chunks : dest.chunks[i].doc \in DOMAIN dest.docs
  BY <1>2 DEF Fine, HalfFine, Range
\* Every row of the second database has become one.
<1>10. ASSUME NEW i \in DOMAIN src.docs PROVE \E j : <<i, j>> \in docMap
  <2>1. src.docs[i] \in Range(docs)
    BY <1>3 DEF Extends, Range
  <2>2. PICK j \in DOMAIN docs : docs[j] = src.docs[i]
    BY <2>1 DEF Range
  <2>3. <<i, j>> \in docMap
    BY <1>4, <2>2
  <2> QED
    BY <2>3
<1>11. ASSUME NEW i \in DOMAIN src.symbols PROVE \E j : <<i, j>> \in symMap
  <2>1. src.symbols[i] \in Range(src.symbols) \ Variables
    BY <1>2 DEF NoVariables, Range
  <2>2. PICK j \in DOMAIN symbols : symbols[j] = src.symbols[i]
    BY <1>3, <2>1 DEF Extends, Range
  <2>3. <<i, j>> \in symMap
    BY <1>4, <2>2
  <2> QED
    BY <2>3
<1>12. ASSUME NEW i \in DOMAIN src.chunks PROVE \E j : <<i, j>> \in cMap
  <2> DEFINE c == src.chunks[i]
  <2>1. PICK k : <<c.doc, k>> \in docMap
    BY <1>9, <1>10
  <2> DEFINE new == [doc |-> k, index |-> c.index]
             y == <<c, <<c.doc, k>>>>
  <2>2. new \in moved
    <3>1. y \in Range(src.chunks) \X docMap /\ y[1].doc = y[2][1]
      BY <2>1 DEF Range
    <3>2. new = [doc |-> y[2][2], index |-> y[1].index]
      OBVIOUS
    <3> HIDE DEF y, new
    <3> QED
      BY <1>6, <3>1, <3>2
  <2>3. new.doc = k /\ new.index = c.index
    OBVIOUS
  <2> HIDE DEF new
  <2>4. PICK j \in DOMAIN chunks : chunks[j] = new
    BY <1>3, <2>2 DEF Extends, Range
  <2>5. <<i, j>> \in cMap
    BY <1>5, <2>1, <2>3, <2>4
  <2> QED
    BY <2>5
\* What the first said is said by the same rows.
<1>13. \A m \in dest.mentions : Told(e, m) = Told(dest, m)
  BY <1>1, <1>3, <1>9 DEF Told, Extends
<1>14. \A r \in Range(dest.ranges) : ToldDefinition(e, r) = ToldDefinition(dest, r)
  BY <1>1, <1>3, <1>9 DEF ToldDefinition, Extends
\* What the second said is said by the rows that its own have become.
<1> DEFINE Row(m, c, s) == [chunk |-> c[2], symbol |-> s[2], role |-> m.role]
           DefRow(d, s) == [doc |-> d[2], symbol |-> s[2]]
<1>15. ASSUME NEW m \in src.mentions, NEW c \in cMap, NEW s \in symMap,
              m.chunk = c[1], m.symbol = s[1]
       PROVE  Told(e, Row(m, c, s)) = Told(src, m)
  <2>1. /\ <<src.chunks[c[1]].doc, chunks[c[2]].doc>> \in docMap
        /\ src.chunks[c[1]].index = chunks[c[2]].index
        /\ src.symbols[s[1]] = symbols[s[2]]
    BY <1>4, <1>5
  <2>2. src.docs[src.chunks[c[1]].doc] = docs[chunks[c[2]].doc]
    BY <1>4, <2>1
  <2> QED
    BY <1>1, <1>15, <2>1, <2>2 DEF Told
<1>16. ASSUME NEW r \in Range(src.ranges), NEW d \in docMap, NEW s \in symMap,
              r.doc = d[1], r.symbol = s[1]
       PROVE  ToldDefinition(e, DefRow(d, s)) = ToldDefinition(src, r)
  BY <1>1, <1>4, <1>16 DEF ToldDefinition
<1>17. /\ \A n \in newMentions : \E m \in src.mentions, c \in cMap, s \in symMap :
             m.chunk = c[1] /\ m.symbol = s[1] /\ n = Row(m, c, s)
       /\ \A m \in src.mentions, c \in cMap, s \in symMap :
             m.chunk = c[1] /\ m.symbol = s[1] => Row(m, c, s) \in newMentions
  <2>1. ASSUME NEW n \in newMentions
        PROVE  \E m \in src.mentions, c \in cMap, s \in symMap :
                  m.chunk = c[1] /\ m.symbol = s[1] /\ n = Row(m, c, s)
    <3>1. PICK y \in src.mentions \X cMap \X symMap :
             /\ y[1].chunk = y[2][1] /\ y[1].symbol = y[3][1]
             /\ n = [chunk |-> y[2][2], symbol |-> y[3][2], role |-> y[1].role]
      BY <1>7
    <3>2. y[1] \in src.mentions /\ y[2] \in cMap /\ y[3] \in symMap
      OBVIOUS
    <3> QED
      BY <3>1, <3>2
  <2>2. ASSUME NEW m \in src.mentions, NEW c \in cMap, NEW s \in symMap,
               m.chunk = c[1], m.symbol = s[1]
        PROVE  Row(m, c, s) \in newMentions
    <3> DEFINE y == <<m, c, s>>
    <3>1. y \in src.mentions \X cMap \X symMap
      OBVIOUS
    <3>2. y[1].chunk = y[2][1] /\ y[1].symbol = y[3][1]
      BY <2>2
    <3>3. Row(m, c, s) = [chunk |-> y[2][2], symbol |-> y[3][2], role |-> y[1].role]
      OBVIOUS
    <3> HIDE DEF y, Row
    <3> QED
      BY <1>7, <3>1, <3>2, <3>3
  <2> QED
    BY <2>1, <2>2
<1>18. /\ \A n \in newRanges : \E r \in Range(src.ranges), d \in docMap, s \in symMap :
             r.doc = d[1] /\ r.symbol = s[1] /\ n = DefRow(d, s)
       /\ \A r \in Range(src.ranges), d \in docMap, s \in symMap :
             r.doc = d[1] /\ r.symbol = s[1] => DefRow(d, s) \in newRanges
  <2>1. ASSUME NEW n \in newRanges
        PROVE  \E r \in Range(src.ranges), d \in docMap, s \in symMap :
                  r.doc = d[1] /\ r.symbol = s[1] /\ n = DefRow(d, s)
    <3>1. PICK y \in Range(src.ranges) \X docMap \X symMap :
             /\ y[1].doc = y[2][1] /\ y[1].symbol = y[3][1]
             /\ n = [doc |-> y[2][2], symbol |-> y[3][2]]
      BY <1>8
    <3>2. y[1] \in Range(src.ranges) /\ y[2] \in docMap /\ y[3] \in symMap
      OBVIOUS
    <3> QED
      BY <3>1, <3>2
  <2>2. ASSUME NEW r \in Range(src.ranges), NEW d \in docMap, NEW s \in symMap,
               r.doc = d[1], r.symbol = s[1]
        PROVE  DefRow(d, s) \in newRanges
    <3> DEFINE y == <<r, d, s>>
    <3>1. y \in Range(src.ranges) \X docMap \X symMap
      OBVIOUS
    <3>2. y[1].doc = y[2][1] /\ y[1].symbol = y[3][1]
      BY <2>2
    <3>3. DefRow(d, s) = [doc |-> y[2][2], symbol |-> y[3][2]]
      OBVIOUS
    <3> HIDE DEF y, DefRow
    <3> QED
      BY <1>8, <3>1, <3>2, <3>3
  <2> QED
    BY <2>1, <2>2
<1> HIDE DEF Row, DefRow
<1>19. {Told(e, n) : n \in newMentions} = {Told(src, m) : m \in src.mentions}
  <2>1. ASSUME NEW n \in newMentions PROVE \E m \in src.mentions : Told(e, n) = Told(src, m)
    <3>1. PICK m \in src.mentions, c \in cMap, s \in symMap :
             m.chunk = c[1] /\ m.symbol = s[1] /\ n = Row(m, c, s)
      BY <1>17
    <3>2. Told(e, n) = Told(src, m)
      BY <1>15, <3>1
    <3> QED
      BY <3>2
  <2>2. ASSUME NEW m \in src.mentions PROVE \E n \in newMentions : Told(e, n) = Told(src, m)
    <3>1. PICK i : <<m.chunk, i>> \in cMap
      BY <1>9, <1>12
    <3>2. PICK j : <<m.symbol, j>> \in symMap
      BY <1>9, <1>11
    <3> DEFINE c == <<m.chunk, i>>
               s == <<m.symbol, j>>
    <3>3. c \in cMap /\ s \in symMap /\ m.chunk = c[1] /\ m.symbol = s[1]
      BY <3>1, <3>2
    <3> HIDE DEF c, s
    <3>4. Row(m, c, s) \in newMentions /\ Told(e, Row(m, c, s)) = Told(src, m)
      BY <1>15, <1>17, <3>3
    <3> QED
      BY <3>4
  <2> QED
    BY <2>1, <2>2
<1>20. {ToldDefinition(e, n) : n \in newRanges}
          = {ToldDefinition(src, r) : r \in Range(src.ranges)}
  <2>1. ASSUME NEW n \in newRanges
        PROVE  \E r \in Range(src.ranges) : ToldDefinition(e, n) = ToldDefinition(src, r)
    <3>1. PICK r \in Range(src.ranges), d \in docMap, s \in symMap :
             r.doc = d[1] /\ r.symbol = s[1] /\ n = DefRow(d, s)
      BY <1>18
    <3>2. ToldDefinition(e, n) = ToldDefinition(src, r)
      BY <1>16, <3>1
    <3> QED
      BY <3>2
  <2>2. ASSUME NEW r \in Range(src.ranges)
        PROVE  \E n \in newRanges : ToldDefinition(e, n) = ToldDefinition(src, r)
    <3>1. PICK i : <<r.doc, i>> \in docMap
      BY <1>9, <1>10
    <3>2. PICK j : <<r.symbol, j>> \in symMap
      BY <1>9, <1>11
    <3> DEFINE d == <<r.doc, i>>
               s == <<r.symbol, j>>
    <3>3. d \in docMap /\ s \in symMap /\ r.doc = d[1] /\ r.symbol = s[1]
      BY <3>1, <3>2
    <3> HIDE DEF d, s
    <3>4. DefRow(d, s) \in newRanges /\ ToldDefinition(e, DefRow(d, s)) = ToldDefinition(src, r)
      BY <1>16, <1>18, <3>3
    <3> QED
      BY <3>4
  <2> QED
    BY <2>1, <2>2
<1>21. Mentions(e) = Mentions(dest) \cup Mentions(src)
  <2>1. Mentions(e) = {Told(e, m) : m \in dest.mentions} \cup {Told(e, m) : m \in newMentions}
    BY <1>1, SaysMeans
  <2>2. {Told(e, m) : m \in dest.mentions} = {Told(dest, m) : m \in dest.mentions}
    BY <1>13
  <2>3. /\ Mentions(dest) = {Told(dest, m) : m \in dest.mentions}
        /\ Mentions(src) = {Told(src, m) : m \in src.mentions}
    BY SaysMeans
  <2> QED
    BY <1>19, <2>1, <2>2, <2>3
<1>22. Definitions(e) = Definitions(dest) \cup Definitions(src)
  <2>1. Range(e.ranges) = Range(dest.ranges) \cup newRanges
    BY <1>1, <1>3 DEF Extends
  <2>2. Definitions(e) = {ToldDefinition(e, r) : r \in Range(dest.ranges)}
                            \cup {ToldDefinition(e, r) : r \in newRanges}
    BY <2>1, SaysMeans
  <2>3. {ToldDefinition(e, r) : r \in Range(dest.ranges)}
           = {ToldDefinition(dest, r) : r \in Range(dest.ranges)}
    BY <1>14
  <2>4. /\ Definitions(dest) = {ToldDefinition(dest, r) : r \in Range(dest.ranges)}
        /\ Definitions(src) = {ToldDefinition(src, r) : r \in Range(src.ranges)}
    BY SaysMeans
  <2> QED
    BY <1>20, <2>2, <2>3, <2>4
<1>23. Range(e.docs) = Range(dest.docs) \cup Range(src.docs)
  BY <1>1, <1>3 DEF Extends
<1> QED
  BY <1>21, <1>22, <1>23 DEF e

-----------------------------------------------------------------------------
(* What the output says.                                                   *)

\* The database of a part when it is ready.
Indexed(part) == Prefixed(Postprocessed(Converted(part)), part.dir)

LEMMA IndexedSays ==
    ASSUME NEW part, Proper(part)
    PROVE  LET e == Indexed(part)
           IN  /\ Range(e.docs) = {part.dir \o q : q \in Kept(part)}
               /\ Mentions(e) = WantedMentions(part)
               /\ Definitions(e) = WantedDefinitions(part)
<1> DEFINE Out(p) == PathMatchesAnyGlob(p, input.globs)
           c == Converted(part)
           p == PruneExcludedDocuments(c, input.globs)
           t == Postprocessed(c)
           e == Indexed(part)
           Four(m) == <<m[1], m[2], m[3], m[4]>>
           Two(d) == <<d[1], d[2]>>
<1>1. Fine(c) /\ Fine(p) /\ Fine(t)
  BY ConvertedFine, PrunedFine, PostprocessedFine
<1>2. /\ Range(c.docs) = part.docs
      /\ Mentions(c) = {Four(m) : m \in part.mentions}
      /\ Definitions(c) = {Two(d) : d \in part.defined}
  BY ConvertedSays
<1> HIDE DEF c
<1>3. /\ Range(p.docs) = {q \in Range(c.docs) : ~Out(q)}
      /\ Mentions(p) = {x \in Mentions(c) : ~Out(x[1])}
      /\ Definitions(p) = {x \in Definitions(c) : ~Out(x[1])}
  BY <1>1, PrunedSays
<1>4. t = TrimToKnownSymbols(TrimUnusedColumns(p, input.keepExternal))
  BY DEF Postprocessed
<1> HIDE DEF p
<1>5. /\ Range(t.docs) = Range(p.docs)
      /\ Mentions(t) = {x \in Mentions(p) : Worth(p, x[3])}
      /\ Definitions(t) = {x \in Definitions(p) : Worth(p, x[2])}
  BY <1>1, <1>4, TrimmedSays
<1>6. e = Prefixed(t, part.dir)
  BY DEF Indexed, c
<1> HIDE DEF t
<1>7. /\ Range(e.docs) = {part.dir \o q : q \in Range(t.docs)}
      /\ Mentions(e) = {<<part.dir \o x[1], x[2], x[3], x[4]>> : x \in Mentions(t)}
      /\ Definitions(e) = {<<part.dir \o x[1], x[2]>> : x \in Definitions(t)}
  BY <1>1, <1>6, PrefixedSays
<1> HIDE DEF e, Out
<1>8. Kept(part) = {q \in part.docs : ~Out(q)}
  BY DEF Kept, Out
<1>9. /\ \A m \in part.mentions : Four(m)[1] = m[1] /\ (~Out(m[1]) <=> m[1] \in Kept(part))
      /\ \A d \in part.defined : Two(d)[1] = d[1] /\ (~Out(d[1]) <=> d[1] \in Kept(part))
  BY <1>8 DEF Proper
<1> DEFINE says == {m \in part.mentions : m[1] \in Kept(part)}
           defines == {d \in part.defined : d[1] \in Kept(part)}
<1>10. Mentions(p) = {Four(m) : m \in says}
  <2> HIDE DEF Four
  <2> QED
    BY <1>2, <1>3, <1>9
<1>11. Definitions(p) = {Two(d) : d \in defines}
  <2> HIDE DEF Two
  <2> QED
    BY <1>2, <1>3, <1>9
<1>12. \A d \in defines : Local(part, d[2])
  <2> TAKE d \in defines
  <2>1. d = <<d[1], d[2]>> /\ d \in part.defined /\ d[1] \in Kept(part)
    BY DEF Proper
  <2> QED
    BY <2>1 DEF Local
<1>13. ASSUME NEW s PROVE (\E x \in Definitions(p) : x[2] = s) <=> Local(part, s)
  <2>1. (\E x \in Definitions(p) : x[2] = s) <=> \E d \in defines : d[2] = s
    <3>1. \A d : Two(d)[2] = d[2]
      OBVIOUS
    <3> HIDE DEF Two, defines
    <3> QED
      BY <1>11, <3>1
  <2>2. ASSUME Local(part, s) PROVE \E d \in defines : d[2] = s
    <3>1. PICK q \in Kept(part) : <<q, s>> \in part.defined
      BY <2>2 DEF Local
    <3>2. <<q, s>> \in defines /\ <<q, s>>[2] = s
      BY <3>1
    <3> QED
      BY <3>2
  <2> HIDE DEF defines
  <2> QED
    BY <1>12, <2>1, <2>2
<1> DEFINE worth(s) == /\ s \notin Variables
                       /\ input.keepExternal \/ s \in Structural \/ Local(part, s)
<1>14. \A s : Worth(p, s) <=> worth(s)
  BY <1>13 DEF Worth
<1>15. \A d \in defines : worth(d[2]) <=> d[2] \notin Variables
  BY <1>12
<1> DEFINE FromRoot(m) == <<part.dir \o m[1], m[2], m[3], m[4]>>
           DefinedFromRoot(d) == <<part.dir \o d[1], d[2]>>
<1>16. /\ \A m : Four(m)[3] = m[3] /\ FromRoot(Four(m)) = FromRoot(m)
       /\ \A d : Two(d)[2] = d[2] /\ DefinedFromRoot(Two(d)) = DefinedFromRoot(d)
  OBVIOUS
<1>17. /\ WantedMentions(part) = {FromRoot(m) : m \in {n \in says : worth(n[3])}}
       /\ WantedDefinitions(part)
             = {DefinedFromRoot(d) : d \in {n \in defines : n[2] \notin Variables}}
  BY DEF WantedMentions, WantedDefinitions
<1>18. /\ Mentions(e) = {FromRoot(x) : x \in Mentions(t)}
       /\ Definitions(e) = {DefinedFromRoot(x) : x \in Definitions(t)}
  BY <1>7
<1> HIDE DEF Four, Two, FromRoot, DefinedFromRoot, says, defines, worth
<1>19. Mentions(e) = WantedMentions(part)
  <2>1. Mentions(t) = {Four(m) : m \in {n \in says : worth(n[3])}}
    BY <1>5, <1>10, <1>14, <1>16
  <2> QED
    BY <1>16, <1>17, <1>18, <2>1
<1>20. Definitions(e) = WantedDefinitions(part)
  <2>1. Definitions(t) = {Two(d) : d \in {n \in defines : n[2] \notin Variables}}
    BY <1>5, <1>11, <1>14, <1>15, <1>16
  <2> QED
    BY <1>16, <1>17, <1>18, <2>1
<1>21. Range(e.docs) = {part.dir \o q : q \in Kept(part)}
  BY <1>2, <1>3, <1>5, <1>7, <1>8
<1> QED
  BY <1>19, <1>20, <1>21 DEF e

\* What a database says of one part, and of several.
DocsOf(n) == {Source[n].dir \o q : q \in Kept(Source[n])}

SaysPart(d, n) == /\ Range(d.docs) = DocsOf(n)
                  /\ Mentions(d) = WantedMentions(Source[n])
                  /\ Definitions(d) = WantedDefinitions(Source[n])

SaysParts(d, N) == /\ Range(d.docs) = UNION {DocsOf(n) : n \in N}
                   /\ Mentions(d) = UNION {WantedMentions(Source[n]) : n \in N}
                   /\ Definitions(d) = UNION {WantedDefinitions(Source[n]) : n \in N}

LEMMA SaysUnchanged ==
    ASSUME input' = input
    PROVE  /\ \A d, n : SaysPart(d, n)' <=> SaysPart(d, n)
           /\ \A d, N : SaysParts(d, N)' <=> SaysParts(d, N)
<1>1. \A part : Kept(part)' = Kept(part)
  BY DEF Kept
<1>2. \A part, s : Local(part, s)' <=> Local(part, s)
  BY <1>1 DEF Local
<1>3. \A part : /\ WantedMentions(part)' = WantedMentions(part)
                /\ WantedDefinitions(part)' = WantedDefinitions(part)
  BY <1>1, <1>2 DEF WantedMentions, WantedDefinitions
<1>4. \A n : DocsOf(n)' = DocsOf(n)
  BY <1>1 DEF DocsOf, Source
<1> QED
  BY <1>3, <1>4 DEF SaysPart, SaysParts, Source

\* The parts whose databases are the first k.
FirstParts(k) == {indexed[i] : i \in 1..k}

\* From its conversion to its merging, a database says what its part says, and
\* the output what the parts say that have been merged.
SaysSoFar ==
    /\ phase = "postprocess" => db = Converted(Source[current])
    /\ phase = "prefix" => db = Postprocessed(Converted(Source[current]))
    /\ \A i \in DOMAIN parts : indexed[i] \in DOMAIN Source /\ SaysPart(parts[i], indexed[i])
    /\ phase \in {"merge", "done"} => merged >= 1 /\ SaysParts(output, FirstParts(merged))
    /\ phase = "done" => merged = Len(parts)

LEMMA SaysInit == Init => SaysSoFar
BY DEF Init, SaysSoFar

LEMMA SaysPrefixed == DataInv /\ SaysSoFar /\ PrefixDocumentPaths => SaysSoFar'
<1> SUFFICES ASSUME DataInv, SaysSoFar, PrefixDocumentPaths PROVE SaysSoFar'
  OBVIOUS
<1>1. current \in DOMAIN Source /\ Proper(Source[current])
  BY InputsAssumption DEF DataInv, DataShape, DataPart, PrefixDocumentPaths, Source, Proper
<1> DEFINE new == Indexed(Source[current])
<1>2. SaysPart(new, current)
  BY <1>1, IndexedSays DEF SaysPart, DocsOf
<1>3. parts' = Append(parts, new)
  BY DEF PrefixDocumentPaths, SaysSoFar, Indexed
<1> HIDE DEF new
<1>4. PICK S : parts \in Seq(S)
  BY DEF DataInv, DataParts
<1>5. PICK N : indexed \in Seq(N)
  BY DEF DataInv, DataShape
<1>6. /\ Len(parts) \in Nat /\ DOMAIN parts = 1..Len(parts)
      /\ Len(indexed) = Len(parts) /\ indexed' = Append(indexed, current)
  BY <1>4, LenProperties DEF DataInv, DataShape, PrefixDocumentPaths
<1>7. /\ DOMAIN parts' = 1..(Len(parts) + 1)
      /\ \A i \in 1..Len(parts) : parts'[i] = parts[i] /\ indexed'[i] = indexed[i]
      /\ parts'[Len(parts) + 1] = new /\ indexed'[Len(parts) + 1] = current
  <2>1. /\ parts \in Seq(S \cup {new}) /\ indexed \in Seq(N \cup {current})
    BY <1>4, <1>5
  <2> QED
    BY <1>3, <1>6, <2>1, AppendProperties
<1>8. ASSUME NEW i \in DOMAIN parts'
      PROVE  indexed'[i] \in DOMAIN Source /\ SaysPart(parts'[i], indexed'[i])
  <2>1. CASE i \in 1..Len(parts)
    BY <1>6, <1>7, <2>1 DEF SaysSoFar
  <2>2. CASE i = Len(parts) + 1
    BY <1>1, <1>2, <1>7, <2>2
  <2> QED
    BY <1>6, <1>7, <2>1, <2>2
<1>9. /\ input' = input /\ Source' = Source /\ phase' = "convert"
  BY DEF PrefixDocumentPaths, Source
<1> QED
  BY <1>8, <1>9, SaysUnchanged DEF SaysSoFar

LEMMA SaysStarted == DataInv /\ SaysSoFar /\ StartOutput => SaysSoFar'
<1> SUFFICES ASSUME DataInv, SaysSoFar, StartOutput PROVE SaysSoFar'
  OBVIOUS
<1>1. /\ input' = input /\ Source' = Source /\ parts' = parts /\ indexed' = indexed
      /\ phase = "convert"
  BY DEF StartOutput, Source
<1>2. CASE parts = <<>>
  BY <1>1, <1>2, SaysUnchanged DEF StartOutput, SaysSoFar
<1>3. CASE parts # <<>>
  <2>1. PICK S : parts \in Seq(S)
    BY DEF DataInv, DataParts
  <2>2. 1 \in DOMAIN parts
    BY <1>3, <2>1, EmptySeq, LenProperties
  <2>3. output' = parts[1] /\ merged' = 1 /\ phase' = "merge"
    BY <1>3 DEF StartOutput
  <2>4. FirstParts(merged)' = {indexed[1]}
    BY <1>1, <2>3 DEF FirstParts
  <2>5. SaysParts(parts[1], {indexed[1]})
    BY <2>2 DEF SaysSoFar, SaysPart, SaysParts
  <2>6. (merged >= 1 /\ SaysParts(output, FirstParts(merged)))'
    BY <1>1, <2>3, <2>4, <2>5, SaysUnchanged
  <2> QED
    BY <1>1, <2>3, <2>6, SaysUnchanged DEF SaysSoFar
<1> QED
  BY <1>2, <1>3

LEMMA SaysMerged == DataInv /\ SaysSoFar /\ MergeOneDatabase => SaysSoFar'
<1> SUFFICES ASSUME DataInv, SaysSoFar, MergeOneDatabase PROVE SaysSoFar'
  OBVIOUS
<1>1. /\ input' = input /\ Source' = Source /\ parts' = parts /\ indexed' = indexed
      /\ phase = "merge" /\ phase' = "merge" /\ merged' = merged + 1
  BY DEF MergeOneDatabase, Source
<1>2. PICK S : parts \in Seq(S) /\ \A d \in S : Ready(d)
  BY DEF DataInv, DataParts
<1>3. /\ merged \in Nat /\ merged >= 1 /\ merged + 1 \in 1..Len(parts)
      /\ merged + 1 \in DOMAIN parts
  BY <1>1, <1>2, LenProperties DEF DataInv, DataShape, SaysSoFar, MergeOneDatabase
<1> DEFINE k == merged + 1
           src == parts[k]
           e == Merged(output, src)
<1>4. Ready(output) /\ Ready(src)
  BY <1>1, <1>2, <1>3, ElementOfSeq DEF DataInv, DataOutput
<1>5. /\ Range(e.docs) = Range(output.docs) \cup Range(src.docs)
      /\ Mentions(e) = Mentions(output) \cup Mentions(src)
      /\ Definitions(e) = Definitions(output) \cup Definitions(src)
  BY <1>4, MergedSays
<1>6. SaysParts(output, FirstParts(merged)) /\ SaysPart(src, indexed[k])
  BY <1>1, <1>3 DEF SaysSoFar
<1>7. output' = e
  BY DEF MergeOneDatabase
<1>8. FirstParts(merged)' = FirstParts(merged) \cup {indexed[k]}
  <2>1. 1..k = (1..merged) \cup {k}
    BY <1>3
  <2> QED
    BY <1>1, <2>1 DEF FirstParts
<1> HIDE DEF e, src
<1>9. SaysParts(e, FirstParts(merged) \cup {indexed[k]})
  BY <1>5, <1>6 DEF SaysPart, SaysParts
<1>10. (merged >= 1 /\ SaysParts(output, FirstParts(merged)))'
  <2>1. (merged >= 1)'
    BY <1>1, <1>3
  <2>2. SaysParts(output, FirstParts(merged))'
    BY <1>1, <1>7, <1>8, <1>9, SaysUnchanged
  <2> QED
    BY <2>1, <2>2
<1> QED
  BY <1>1, <1>10, SaysUnchanged DEF SaysSoFar

LEMMA SaysStep == DataInv /\ SaysSoFar /\ [Next]_vars => SaysSoFar'
<1> SUFFICES ASSUME DataInv, SaysSoFar, [Next]_vars PROVE SaysSoFar'
  OBVIOUS
<1>1. CASE Convert
  BY <1>1, SaysUnchanged DEF Convert, SaysSoFar, Source
<1>2. CASE PostprocessIndex
  <2>1. ASSUME NEW d PROVE Postprocessed(d)' = Postprocessed(d)
    BY <1>2 DEF PostprocessIndex, Postprocessed
  <2>2. /\ db' = Postprocessed(Converted(Source[current])) /\ phase' = "prefix"
        /\ Source' = Source /\ current' = current
    BY <1>2 DEF PostprocessIndex, SaysSoFar, Source
  <2>3. (db = Postprocessed(Converted(Source[current])))'
    BY <2>1, <2>2
  <2> QED
    BY <1>2, <2>2, <2>3, SaysUnchanged DEF PostprocessIndex, SaysSoFar
<1>3. CASE PrefixDocumentPaths
  BY <1>3, SaysPrefixed
<1>4. CASE SkipPart
  BY <1>4, SaysUnchanged DEF SkipPart, SaysSoFar, Source
<1>5. CASE StartOutput
  BY <1>5, SaysStarted
<1>6. CASE MergeOneDatabase
  BY <1>6, SaysMerged
<1>7. CASE EndOutput
  <2>1. FirstParts(merged)' = FirstParts(merged) /\ input' = input /\ output' = output
    BY <1>7 DEF EndOutput, FirstParts
  <2> QED
    BY <1>7, <2>1, SaysUnchanged DEF EndOutput, SaysSoFar, Source
<1>8. CASE UNCHANGED vars
  <2>1. FirstParts(merged)' = FirstParts(merged) /\ input' = input /\ output' = output
    BY <1>8 DEF vars, FirstParts
  <2>2. \A d : Postprocessed(d)' = Postprocessed(d)
    BY <2>1 DEF Postprocessed
  <2> QED
    BY <1>8, <2>1, <2>2, SaysUnchanged DEF vars, SaysSoFar, Source
<1> QED
  BY <1>1, <1>2, <1>3, <1>4, <1>5, <1>6, <1>7, <1>8 DEF Next

\* Whatever the parts of a repository share, which of them fail and what the
\* globs match, the merged index says exactly what the indexed parts say of the
\* documents and symbols that are kept.
THEOREM OutputAlwaysFiltered == Spec => []OutputIsFiltered
<1>1. DataInv /\ SaysSoFar => OutputIsFiltered
  <2> SUFFICES ASSUME DataInv, SaysSoFar, phase = "done"
               PROVE  /\ Range(output.docs)
                           = UNION {DocsOf(indexed[i]) : i \in DOMAIN indexed}
                      /\ Mentions(output)
                           = UNION {WantedMentions(Source[indexed[i]]) : i \in DOMAIN indexed}
                      /\ Definitions(output)
                           = UNION {WantedDefinitions(Source[indexed[i]]) : i \in DOMAIN indexed}
    BY DEF OutputIsFiltered, Union, DocsOf
  <2>1. DOMAIN indexed = 1..merged
    BY LenProperties DEF DataInv, DataShape, SaysSoFar
  <2>2. SaysParts(output, {indexed[i] : i \in DOMAIN indexed})
    BY <2>1 DEF SaysSoFar, FirstParts
  <2> QED
    BY <2>2 DEF SaysParts
<1>2. Spec => []SaysSoFar
  BY SaysInit, SaysStep, DataInvariant, PTL DEF Spec
<1> QED
  BY <1>1, <1>2, DataInvariant, PTL
=============================================================================
