-------------------------- MODULE OrderedRowsProofs --------------------------
(***************************************************************************)
(* What OrderedRows does to any rows: rows in order have their ranks for   *)
(* their places, and what is taken of them stays in order.                 *)
(***************************************************************************)
EXTENDS OrderedRows, FiniteSetTheorems, SequenceTheorems, FunctionTheorems, TLAPS

\* A relation that puts any two members of a set in one order.
OrdersStrictly(R, S) ==
    /\ \A x \in S : <<x, x>> \notin R
    /\ \A x, y, z \in S : <<x, y>> \in R /\ <<y, z>> \in R => <<x, z>> \in R
    /\ \A x, y \in S : x = y \/ <<x, y>> \in R \/ <<y, x>> \in R

\* The rank of a member is the number of those before it.
Rank(S, R, x) == Cardinality({y \in S : <<y, x>> \in R})

\* The members of a finite set have the ranks 0, 1, ... , in their order.
LEMMA RanksTell ==
    ASSUME NEW S, IsFiniteSet(S), NEW R, OrdersStrictly(R, S)
    PROVE  /\ Cardinality(S) \in Nat
           /\ \A x \in S : Rank(S, R, x) \in 0..(Cardinality(S) - 1)
           /\ \A x, y \in S : <<x, y>> \in R => Rank(S, R, x) < Rank(S, R, y)
           /\ \A i \in 1..Cardinality(S) : \E x \in S : Rank(S, R, x) = i - 1
<1> DEFINE n == Cardinality(S)
           Before(x) == {y \in S : <<y, x>> \in R}
           rank == [x \in S |-> Rank(S, R, x)]
<1>1. n \in Nat
  BY FS_CardinalityType
<1>2. ASSUME NEW x \in S
      PROVE  IsFiniteSet(Before(x)) /\ Cardinality(Before(x)) \in 0..(n - 1)
  <2>1. Before(x) \subseteq S \ {x}
    BY DEF OrdersStrictly
  <2>2. IsFiniteSet(S \ {x}) /\ Cardinality(S \ {x}) = n - 1
    BY FS_RemoveElement
  <2> HIDE DEF Before
  <2>3. IsFiniteSet(Before(x)) /\ Cardinality(Before(x)) <= n - 1
    BY <2>1, <2>2, FS_Subset
  <2>4. Cardinality(Before(x)) \in Nat
    BY <2>3, FS_CardinalityType
  <2> QED
    BY <1>1, <2>3, <2>4
<1>3. ASSUME NEW x \in S, NEW y \in S, <<x, y>> \in R
      PROVE  Cardinality(Before(x)) < Cardinality(Before(y))
  <2>1. Before(x) \subseteq Before(y) /\ x \in Before(y) /\ x \notin Before(x)
    BY <1>3 DEF OrdersStrictly
  <2> HIDE DEF Before
  <2>2. /\ Cardinality(Before(x)) <= Cardinality(Before(y))
        /\ Cardinality(Before(x)) = Cardinality(Before(y)) => Before(x) = Before(y)
    BY <1>2, <2>1, FS_Subset
  <2>3. Cardinality(Before(x)) \in Nat /\ Cardinality(Before(y)) \in Nat
    BY <1>1, <1>2
  <2> QED
    BY <2>1, <2>2, <2>3
<1>4. /\ \A x \in S : Rank(S, R, x) \in 0..(n - 1)
      /\ \A x, y \in S : <<x, y>> \in R => Rank(S, R, x) < Rank(S, R, y)
  BY <1>2, <1>3 DEF Rank
<1> HIDE DEF n
<1>5. {rank[x] : x \in S} = 0..(n - 1)
  <2> DEFINE T == {rank[x] : x \in S}
  <2>1. T \subseteq 0..(n - 1)
    BY <1>4
  <2>2. rank \in Bijection(S, T)
    <3>1. rank \in [S -> T]
      OBVIOUS
    <3>2. ASSUME NEW x \in S, NEW y \in S, rank[x] = rank[y] PROVE x = y
      <4>1. Rank(S, R, x) = Rank(S, R, y) /\ Rank(S, R, x) \in Int
        BY <1>1, <1>4, <3>2
      <4> HIDE DEF rank
      <4>2. <<x, y>> \notin R /\ <<y, x>> \notin R
        BY <1>4, <4>1
      <4> QED
        BY <4>2 DEF OrdersStrictly
    <3>3. \A t \in T : \E x \in S : rank[x] = t
      OBVIOUS
    <3> HIDE DEF T, rank
    <3> QED
      BY <3>1, <3>2, <3>3 DEF Bijection, Injection, Surjection, IsInjective
  <2> HIDE DEF T, rank
  <2>3. IsFiniteSet(T) /\ Cardinality(T) = n
    BY <2>2, FS_Bijection DEF ExistsBijection, n
  <2>4. IsFiniteSet(0..(n - 1)) /\ Cardinality(0..(n - 1)) = n
    <3>1. IsFiniteSet(0..(n - 1))
          /\ Cardinality(0..(n - 1)) = IF 0 > n - 1 THEN 0 ELSE n - 1 - 0 + 1
      <4>1. 0 \in Int /\ n - 1 \in Int
        BY <1>1
      <4> QED
        BY <4>1, FS_Interval
    <3> QED
      BY <1>1, <3>1
  <2>5. T = 0..(n - 1)
    BY <2>1, <2>3, <2>4, FS_Subset
  <2> QED
    BY <2>5 DEF T
<1>6. \A i \in 1..n : \E x \in S : Rank(S, R, x) = i - 1
  <2> SUFFICES ASSUME NEW i \in 1..n PROVE \E x \in S : Rank(S, R, x) = i - 1
    OBVIOUS
  <2>1. i - 1 \in 0..(n - 1)
    BY <1>1
  <2>2. PICK x \in S : rank[x] = i - 1
    BY <1>5, <2>1
  <2> QED
    BY <2>2
<1> QED
  BY <1>1, <1>4, <1>6 DEF n

\* With its rank for its place, each member is there once and in order.
Ranked(rows, S, R) ==
    /\ IsFiniteSet(S) /\ OrdersStrictly(R, S)
    /\ rows \in [1..Cardinality(S) -> S]
    /\ \A i \in 1..Cardinality(S) : Rank(S, R, rows[i]) = i - 1
InOrder(rows, S, R) ==
    /\ rows \in Seq(S) /\ Len(rows) = Cardinality(S) /\ ToSet(rows) = S
    /\ \A i, j \in 1..Cardinality(S) : i < j => <<rows[i], rows[j]>> \in R

LEMMA RankedRows ==
    ASSUME NEW S, NEW R, NEW rows, Ranked(rows, S, R)
    PROVE  InOrder(rows, S, R)
<1> DEFINE n == Cardinality(S)
<1>a. /\ IsFiniteSet(S) /\ OrdersStrictly(R, S)
      /\ rows \in [1..n -> S]
      /\ \A i \in 1..n : Rank(S, R, rows[i]) = i - 1
  BY DEF Ranked
<1>b. n \in Nat
  BY <1>a, FS_CardinalityType
<1> HIDE DEF n
<1>1. /\ Cardinality(S) \in Nat
      /\ \A x \in S : Rank(S, R, x) \in 0..(Cardinality(S) - 1)
      /\ \A x, y \in S : <<x, y>> \in R => Rank(S, R, x) < Rank(S, R, y)
      /\ \A i \in 1..Cardinality(S) : \E x \in S : Rank(S, R, x) = i - 1
  BY <1>a, RanksTell
<1>2. n = Cardinality(S)
  BY DEF n
<1>3. \A i \in 1..n : rows[i] \in S /\ Rank(S, R, rows[i]) = i - 1
  BY <1>a
<1>4. rows \in [1..n -> S]
  BY <1>a
<1>5. ASSUME NEW i \in 1..n, NEW j \in 1..n, i < j
      PROVE  <<rows[i], rows[j]>> \in R
  <2>1. rows[i] \in S /\ rows[j] \in S /\ rows[i] # rows[j]
    <3>1. /\ rows[i] \in S /\ Rank(S, R, rows[i]) = i - 1
          /\ rows[j] \in S /\ Rank(S, R, rows[j]) = j - 1
      BY <1>3
    <3>2. i - 1 # j - 1
      BY <1>5
    <3> QED
      BY ONLY <3>1, <3>2
  <2>2. <<rows[j], rows[i]>> \notin R
    BY <1>1, <1>3, <1>5
  <2> QED
    BY <1>a, <2>1, <2>2 DEF OrdersStrictly
<1>6. ASSUME NEW x \in S PROVE \E i \in 1..n : rows[i] = x
  <2>1. PICK i \in 1..n : Rank(S, R, x) = i - 1
    <3>1. Rank(S, R, x) + 1 \in 1..n /\ Rank(S, R, x) = (Rank(S, R, x) + 1) - 1
      BY <1>1, <1>2
    <3> QED
      BY <3>1
  <2>2. rows[i] \in S /\ Rank(S, R, rows[i]) = Rank(S, R, x) /\ Rank(S, R, x) \in Int
    BY <1>3, <2>1
  <2>3. <<x, rows[i]>> \notin R /\ <<rows[i], x>> \notin R
    BY ONLY <1>1, <2>2
  <2>4. rows[i] = x
    BY ONLY <1>a, <2>2, <2>3, x \in S DEF OrdersStrictly
  <2> QED
    BY <2>4
<1>7. rows \in Seq(S) /\ Len(rows) = n
  BY ONLY <1>4, <1>b
<1>8. ToSet(rows) = S
  BY <1>4, <1>6 DEF ToSet
<1> QED
  BY <1>2, <1>5, <1>7, <1>8 DEF InOrder

\* Rows in order, with all that come before one of them, are the first ones.
Leads(some, S, R) ==
    /\ some \in Seq(S)
    /\ \A i, j \in 1..Len(some) : i < j => <<some[i], some[j]>> \in R
    /\ \A x \in S : \A i \in 1..Len(some) :
          <<x, some[i]>> \in R => \E k \in 1..Len(some) : some[k] = x

LEMMA LeadingRows ==
    ASSUME NEW S, NEW R, NEW rows, Ranked(rows, S, R), NEW some, Leads(some, S, R)
    PROVE  /\ Len(some) <= Len(rows)
           /\ \A i \in 1..Len(some) : some[i] = rows[i]
           /\ ToSet(some) = S => some = rows
<1> DEFINE n == Cardinality(S)
<1>1. /\ IsFiniteSet(S) /\ OrdersStrictly(R, S) /\ rows \in [1..n -> S]
      /\ \A i \in 1..n : Rank(S, R, rows[i]) = i - 1
  BY DEF Ranked
<1>2. /\ n \in Nat
      /\ \A x \in S : Rank(S, R, x) \in 0..(n - 1)
      /\ \A x, y \in S : <<x, y>> \in R => Rank(S, R, x) < Rank(S, R, y)
  BY <1>1, RanksTell
<1>3. rows \in Seq(S) /\ Len(rows) = n
  BY RankedRows DEF InOrder
<1>4. /\ some \in Seq(S) /\ Len(some) \in Nat /\ DOMAIN some = 1..Len(some)
      /\ \A i, j \in 1..Len(some) : i < j => <<some[i], some[j]>> \in R
      /\ \A x \in S : \A i \in 1..Len(some) :
            <<x, some[i]>> \in R => \E k \in 1..Len(some) : some[k] = x
  BY LenProperties DEF Leads
<1>5. \A i \in 1..Len(some) : some[i] \in S
  BY <1>4
<1> HIDE DEF n
<1>6. \A x \in S : <<x, x>> \notin R
  BY <1>1 DEF OrdersStrictly
<1>7. \A x, y \in S : <<x, y>> \in R => <<y, x>> \notin R
  BY <1>1 DEF OrdersStrictly
<1>8. ASSUME NEW i \in 1..Len(some) PROVE Rank(S, R, some[i]) = i - 1
  <2> DEFINE before == {y \in S : <<y, some[i]>> \in R}
             place == [k \in 1..(i - 1) |-> some[k]]
  <2>1. i - 1 \in Nat /\ \A k \in 1..(i - 1) : k \in 1..Len(some) /\ k < i
    BY <1>4
  <2>2. \A k \in 1..(i - 1) : some[k] \in before
    BY <1>4, <1>5, <2>1
  <2>3. \A y \in before : \E k \in 1..(i - 1) : some[k] = y
    <3> SUFFICES ASSUME NEW y \in before PROVE \E k \in 1..(i - 1) : some[k] = y
      OBVIOUS
    <3>1. PICK k \in 1..Len(some) : some[k] = y
      BY <1>4
    <3>2. k # i
      BY <1>5, <1>6, <3>1
    <3>3. ~(i < k)
      BY <1>4, <1>5, <1>7, <3>1
    <3>4. k \in 1..(i - 1)
      BY <1>4, <3>2, <3>3
    <3> QED
      BY <3>1, <3>4
  <2>4. \A k, l \in 1..(i - 1) : some[k] = some[l] => k = l
    <3> SUFFICES ASSUME NEW k \in 1..(i - 1), NEW l \in 1..(i - 1), k < l
                 PROVE  some[k] # some[l]
      BY <2>1
    <3> QED
      BY <1>4, <1>5, <1>6, <2>1
  <2> HIDE DEF before
  <2>5. place \in Bijection(1..(i - 1), before)
    BY <2>2, <2>3, <2>4 DEF Bijection, Injection, Surjection, IsInjective
  <2> HIDE DEF place
  <2>6. PICK m \in Nat : m = i - 1
    BY <2>1
  <2>7. IsFiniteSet(1..m) /\ Cardinality(1..m) = m
    BY FS_Interval
  <2>8. Cardinality(before) = i - 1
    BY <2>5, <2>6, <2>7, FS_Bijection DEF ExistsBijection
  <2> QED
    BY <2>8 DEF Rank, before
<1>9. Len(some) <= n
  <2> SUFFICES ASSUME Len(some) > n PROVE FALSE
    BY <1>2, <1>4
  <2>1. Len(some) \in 1..Len(some)
    BY <1>2, <1>4
  <2>2. Len(some) - 1 \in 0..(n - 1)
    BY <1>2, <1>5, <1>8, <2>1
  <2> QED
    BY <1>2, <1>4, <2>2
<1>10. ASSUME NEW i \in 1..Len(some) PROVE some[i] = rows[i]
  <2>1. i \in 1..n
    BY <1>2, <1>4, <1>9
  <2>2. /\ rows[i] \in S /\ some[i] \in S
        /\ Rank(S, R, rows[i]) = i - 1 /\ Rank(S, R, some[i]) = i - 1
    BY <1>1, <1>5, <1>8, <2>1
  <2>3. <<some[i], rows[i]>> \notin R /\ <<rows[i], some[i]>> \notin R
    BY ONLY <1>2, <2>1, <2>2
  <2> QED
    BY ONLY <1>1, <2>2, <2>3 DEF OrdersStrictly
<1>11. ASSUME ToSet(some) = S PROVE some = rows
  <2>1. Len(some) = n
    <3>a. n \in Nat /\ Len(some) \in Nat /\ Len(some) <= n
      BY <1>2, <1>4, <1>9
    <3> SUFFICES ~(Len(some) < n)
      BY <3>a
    <3> SUFFICES ASSUME Len(some) < n PROVE FALSE
      OBVIOUS
    <3> DEFINE l == Len(some) + 1
    <3>1. l \in 1..n /\ rows[l] \in S
      BY <1>1, <3>a
    <3>2. PICK k \in 1..Len(some) : some[k] = rows[l]
      BY <1>4, <1>11, <3>1 DEF ToSet
    <3>3. k \in 1..n /\ Rank(S, R, rows[k]) = k - 1 /\ rows[k] = rows[l]
      BY <1>1, <1>2, <1>4, <1>9, <1>10, <3>2
    <3>4. Rank(S, R, rows[l]) = l - 1
      BY <1>1, <3>1
    <3>5. k - 1 = l - 1
      <4> HIDE DEF l
      <4> QED
        BY ONLY <3>3, <3>4
    <3> QED
      BY <1>4, <3>5
  <2> QED
    BY <1>3, <1>4, <1>10, <2>1, SeqEqual
<1> QED
  BY <1>3, <1>9, <1>10, <1>11

\* Numbers in their order.
LEMMA SortedNumbers ==
    ASSUME NEW S \in SUBSET Nat, IsFiniteSet(S)
    PROVE  LET s == SelectSorted(S)
               n == Cardinality(S)
           IN  /\ n \in Nat /\ s \in [1..n -> S] /\ s \in Seq(S) /\ Len(s) = n
               /\ \A i, j \in 1..n : i < j => s[i] < s[j]
               /\ \A x \in S : \E i \in 1..n : s[i] = x
<1> DEFINE R == {p \in S \X S : p[1] < p[2]}
           n == Cardinality(S)
           s == SelectSorted(S)
<1>1. \A x, y \in S : <<x, y>> \in R <=> x < y
  OBVIOUS
<1> HIDE DEF R
<1>2. OrdersStrictly(R, S)
  BY <1>1 DEF OrdersStrictly
<1>3. \A r \in S : Cardinality({q \in S : q < r}) = Rank(S, R, r)
  <2> SUFFICES ASSUME NEW r \in S PROVE {q \in S : q < r} = {y \in S : <<y, r>> \in R}
    BY DEF Rank
  <2> QED
    BY <1>1
<1>4. \A i \in 1..n : \E r \in S : Cardinality({q \in S : q < r}) = i - 1
  BY <1>2, <1>3, RanksTell
<1> DEFINE At(i) == CHOOSE r \in S : Cardinality({q \in S : q < r}) = i - 1
<1>5. /\ s = [i \in 1..n |-> At(i)]
      /\ \A i \in 1..n : At(i) \in S /\ Rank(S, R, At(i)) = i - 1
  <2>1. \A i \in 1..n : At(i) \in S /\ Cardinality({q \in S : q < At(i)}) = i - 1
    BY <1>4
  <2>2. s = [i \in 1..n |-> At(i)]
    BY DEF SelectSorted, Ordered
  <2> QED
    BY <1>3, <2>1, <2>2
<1> HIDE DEF s, At
<1>6. n \in Nat
  BY FS_CardinalityType
<1> DEFINE m == n
<1>7. m \in Nat /\ m = Cardinality(S)
  BY <1>6
<1> HIDE DEF m
<1>8. s \in [1..m -> S] /\ \A i \in 1..m : Rank(S, R, s[i]) = i - 1
  BY <1>5, <1>7
<1>9. /\ s \in Seq(S) /\ Len(s) = m /\ ToSet(s) = S
      /\ \A i, j \in 1..m : i < j => <<s[i], s[j]>> \in R
  <2>1. Ranked(s, S, R)
    BY <1>2, <1>7, <1>8 DEF Ranked
  <2> QED
    BY <1>7, <2>1, RankedRows DEF InOrder
<1>10. \A i, j \in 1..m : i < j => s[i] < s[j]
  BY <1>1, <1>8, <1>9
<1>11. \A x \in S : \E i \in 1..m : s[i] = x
  BY <1>8, <1>9 DEF ToSet
<1> QED
  BY <1>7, <1>8, <1>9, <1>10, <1>11 DEF s


\* The rows at some places of a sequence are there in their order, and no others.
LEMMA KeptPlaces ==
    ASSUME NEW S, NEW rows \in Seq(S), NEW P \in SUBSET DOMAIN rows
    PROVE  LET kept == AtPlaces(rows, P)
           IN  /\ kept \in Seq(S) /\ Len(kept) <= Len(rows)
               /\ ToSet(kept) = {rows[i] : i \in P}
               /\ P = DOMAIN rows => Len(kept) = Len(rows)
               /\ \E at \in [DOMAIN kept -> P] :
                     /\ \A i \in DOMAIN kept : kept[i] = rows[at[i]]
                     /\ \A i, j \in DOMAIN kept : i < j => at[i] < at[j]
                     /\ \A p \in P : \E i \in DOMAIN kept : at[i] = p
<1> DEFINE at == SelectSorted(P)
           n == Cardinality(P)
           kept == AtPlaces(rows, P)
<1>1. Len(rows) \in Nat /\ DOMAIN rows = 1..Len(rows)
  BY LenProperties
<1>2. IsFiniteSet(DOMAIN rows) /\ Cardinality(DOMAIN rows) = Len(rows)
  <2>1. PICK m \in Nat : m = Len(rows)
    BY <1>1
  <2>2. IsFiniteSet(1..m) /\ Cardinality(1..m) = m
    BY FS_Interval
  <2> QED
    BY <1>1, <2>1, <2>2
<1>3. IsFiniteSet(P) /\ n <= Len(rows) /\ P \in SUBSET Nat
  BY <1>1, <1>2, FS_Subset
<1>4. /\ n \in Nat /\ at \in [1..n -> P]
      /\ \A i, j \in 1..n : i < j => at[i] < at[j]
      /\ \A p \in P : \E i \in 1..n : at[i] = p
  BY <1>3, SortedNumbers
<1>5. kept = [i \in 1..n |-> rows[at[i]]]
  BY <1>4 DEF AtPlaces
<1> HIDE DEF at, n, kept
<1>6. \A i \in 1..n : rows[at[i]] \in S
  BY <1>1, <1>4, ElementOfSeq
<1>7. kept \in Seq(S) /\ Len(kept) = n /\ DOMAIN kept = 1..n
  BY <1>4, <1>5, <1>6
<1>8. ToSet(kept) = {rows[i] : i \in P}
  BY <1>4, <1>5, <1>7 DEF ToSet
<1>9. P = DOMAIN rows => n = Len(rows)
  BY <1>2 DEF n
<1>10. /\ at \in [DOMAIN kept -> P]
       /\ \A i \in DOMAIN kept : kept[i] = rows[at[i]]
       /\ \A i, j \in DOMAIN kept : i < j => at[i] < at[j]
       /\ \A p \in P : \E i \in DOMAIN kept : at[i] = p
  BY <1>4, <1>5, <1>7
<1>11. /\ kept \in Seq(S) /\ Len(kept) <= Len(rows)
       /\ ToSet(kept) = {rows[i] : i \in P}
       /\ P = DOMAIN rows => Len(kept) = Len(rows)
  BY <1>3, <1>7, <1>8, <1>9
<1> QED
  BY <1>10, <1>11 DEF kept

\* There is a least one of any numbers.
LEMMA LeastNumber ==
    ASSUME NEW S \in SUBSET Nat, S # {}
    PROVE  \E n \in S : \A k \in S : n <= k
<1> DEFINE R == OpToRel(<, Nat)
<1>1. IsWellFoundedOn(R, Nat)
  BY NatLessThanWellFounded
<1>2. \A x, y \in Nat : x < y => <<x, y>> \in R
  BY DEF OpToRel
<1> HIDE DEF R
<1>3. PICK n \in S : \A k \in S : <<k, n>> \notin R
  BY <1>1, WFMin
<1>4. \A k \in S : ~(k < n)
  BY <1>2, <1>3
<1>5. \A k \in S : n <= k
  BY <1>4
<1> QED
  BY <1>5

\* Each of the rows is there once, where it is for the first time.
LEMMA DistinctRows ==
    ASSUME NEW S, NEW rows \in Seq(S)
    PROVE  /\ Distinct(rows) \in Seq(S) /\ Len(Distinct(rows)) <= Len(rows)
           /\ ToSet(Distinct(rows)) = ToSet(rows)
           /\ IsInjective(Distinct(rows))
           /\ \E at \in [DOMAIN Distinct(rows) -> DOMAIN rows] :
                 /\ \A i \in DOMAIN Distinct(rows) : Distinct(rows)[i] = rows[at[i]]
                 /\ \A i, j \in DOMAIN Distinct(rows) : i < j => at[i] < at[j]
<1> DEFINE P == {i \in DOMAIN rows : \A j \in DOMAIN rows : j < i => rows[j] # rows[i]}
           D == Distinct(rows)
<1>1. D = AtPlaces(rows, P)
  BY DEF Distinct
<1>2. P \in SUBSET DOMAIN rows /\ P \in SUBSET Nat /\ DOMAIN rows \in SUBSET Nat
  BY LenProperties
<1>3. \A i, j \in P : rows[i] = rows[j] => i = j
  <2> SUFFICES ASSUME NEW i \in P, NEW j \in P, i < j PROVE rows[i] # rows[j]
    BY <1>2
  <2> QED
    BY DEF P
<1>4. \A k \in DOMAIN rows : \E i \in P : rows[i] = rows[k]
  <2> SUFFICES ASSUME NEW k \in DOMAIN rows PROVE \E i \in P : rows[i] = rows[k]
    OBVIOUS
  <2> DEFINE Same == {j \in DOMAIN rows : rows[j] = rows[k]}
  <2>1. Same \in SUBSET Nat /\ Same # {}
    BY <1>2
  <2> HIDE DEF Same
  <2>2. PICK i \in Same : \A j \in Same : i <= j
    BY <2>1, LeastNumber
  <2>3. i \in DOMAIN rows /\ rows[i] = rows[k]
    BY DEF Same
  <2>4. \A j \in DOMAIN rows : j < i => rows[j] # rows[i]
    <3> SUFFICES ASSUME NEW j \in DOMAIN rows, j < i, rows[j] = rows[i] PROVE FALSE
      OBVIOUS
    <3>1. j \in Same
      BY <2>3 DEF Same
    <3>2. i <= j /\ i \in Nat /\ j \in Nat
      BY <1>2, <2>1, <2>2, <3>1
    <3> QED
      BY <3>2
  <2> QED
    BY <2>3, <2>4
<1>5. {rows[i] : i \in P} = ToSet(rows)
  BY <1>2, <1>4 DEF ToSet
<1> HIDE DEF P, D
<1>6. /\ D \in Seq(S) /\ Len(D) <= Len(rows)
      /\ ToSet(D) = {rows[i] : i \in P}
  BY <1>1, <1>2, KeptPlaces
<1>7. PICK at \in [DOMAIN D -> P] :
         /\ \A i \in DOMAIN D : D[i] = rows[at[i]]
         /\ \A i, j \in DOMAIN D : i < j => at[i] < at[j]
  BY <1>1, <1>2, KeptPlaces
<1>8. DOMAIN D \subseteq Nat
  BY <1>6, LenProperties
<1>9. IsInjective(D)
  <2> SUFFICES ASSUME NEW i \in DOMAIN D, NEW j \in DOMAIN D, i < j PROVE D[i] # D[j]
    BY <1>8 DEF IsInjective
  <2>1. at[i] \in P /\ at[j] \in P /\ at[i] < at[j]
    BY <1>7
  <2>2. at[i] # at[j]
    BY <1>2, <2>1
  <2> QED
    BY <1>3, <1>7, <2>1, <2>2
<1>10. \E f \in [DOMAIN D -> DOMAIN rows] :
          /\ \A i \in DOMAIN D : D[i] = rows[f[i]]
          /\ \A i, j \in DOMAIN D : i < j => f[i] < f[j]
  BY <1>2, <1>7
<1> QED
  BY <1>5, <1>6, <1>9, <1>10 DEF D

\* The first of the rows, or all.
LEMMA FirstRows ==
    ASSUME NEW S, NEW rows \in Seq(S), NEW k \in Nat
    PROVE  /\ Prefix(rows, k) \in Seq(S)
           /\ Len(Prefix(rows, k)) = IF k <= Len(rows) THEN k ELSE Len(rows)
           /\ \A i \in 1..Len(Prefix(rows, k)) : Prefix(rows, k)[i] = rows[i]
           /\ Len(rows) <= k => Prefix(rows, k) = rows
<1> DEFINE m == IF k <= Len(rows) THEN k ELSE Len(rows)
<1>1. Len(rows) \in Nat /\ m \in Nat /\ m <= Len(rows)
  BY LenProperties
<1>2. Min({k, Len(rows)}) = m
  <2>1. m \in {k, Len(rows)} /\ \A y \in {k, Len(rows)} : m <= y
    BY <1>1
  <2>2. \A x \in {k, Len(rows)} : (\A y \in {k, Len(rows)} : x <= y) => x = m
    BY <1>1
  <2> HIDE DEF m
  <2> QED
    BY <2>1, <2>2 DEF Min
<1>3. Prefix(rows, k) = SubSeq(rows, 1, m)
  BY <1>2 DEF Prefix
<1> HIDE DEF m
<1>4. /\ SubSeq(rows, 1, m) \in Seq(S) /\ Len(SubSeq(rows, 1, m)) = m
      /\ \A i \in 1..m : SubSeq(rows, 1, m)[i] = rows[i]
  BY <1>1, SubSeqProperties
<1>5. m = Len(rows) => SubSeq(rows, 1, m) = rows
  <2>1. DOMAIN rows = 1..Len(rows)
    BY LenProperties
  <2> QED
    BY <1>1, <1>4, <2>1, SeqEqual
<1> QED
  BY <1>1, <1>3, <1>4, <1>5 DEF m
=============================================================================
