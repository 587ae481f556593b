----------------------------- MODULE OrderedRows -----------------------------
(***************************************************************************)
(* Rows in order, and what is taken of them: ORDER BY, LIMIT, and the loops *)
(* that keep the rows that pass a test.                                    *)
(***************************************************************************)
EXTENDS Naturals, Sequences, FiniteSets, SequencesExt, FiniteSetsExt

Prefix(rows, n) == SubSeq(rows, 1, Min({n, Len(rows)}))

\* ORDER BY: each row has its rank for its place.
Ordered(S, before(_, _)) ==
    [i \in 1..Cardinality(S) |->
        CHOOSE r \in S : Cardinality({q \in S : before(q, r)}) = i - 1]
SelectSorted(S) == Ordered(S, LAMBDA a, b : a < b)

\* The rows at some of the places, those that a test keeps, and each one where
\* it is for the first time.
AtPlaces(rows, places) == LET at == SelectSorted(places)
                          IN  [i \in DOMAIN at |-> rows[at[i]]]
Where(rows, keep(_)) == AtPlaces(rows, {i \in DOMAIN rows : keep(rows[i])})
Distinct(rows) ==
    AtPlaces(rows, {i \in DOMAIN rows : \A j \in DOMAIN rows : j < i => rows[j] # rows[i]})
=============================================================================
