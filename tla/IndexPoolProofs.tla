--------------------------- MODULE IndexPoolProofs ---------------------------
(***************************************************************************)
(* Proofs about IndexPool, for any number of projects, in batches of any   *)
(* size, and any number of workers.                                        *)
(*                                                                         *)
(* The room in the channel is not a matter of its length alone: it follows *)
(* from every batch being in it or received at most once, and only after   *)
(* its goroutine has sent it, so that one that has yet to send is missing. *)
(***************************************************************************)
EXTENDS IndexPool, FiniteSetTheorems, SequenceTheorems, TLAPS

Sent == {i \in Batch : task[i] \in {"sent", "released", "done"}}

PoolShape == /\ Len(batches) \in Nat /\ Batch = 1..Len(batches)
             /\ workers \in Nat
             /\ task \in [Batch -> Places]
             /\ channel \in Seq(Batch) /\ received \in Seq(Batch)

PoolSlots == IsFiniteSet(InSlot) /\ Cardinality(InSlot) <= workers

PoolResults == /\ IsInjective(channel) /\ IsInjective(received)
               /\ Range(channel) \cap Range(received) = {}
               /\ Range(channel) \cup Range(received) = Sent

PoolClosed == closed => \A i \in Batch : task[i] = "done"

PoolInv == PoolShape /\ PoolSlots /\ PoolResults /\ PoolClosed

-----------------------------------------------------------------------------
(* Sequences in which nothing is twice.                                    *)

\* What is not in a sequence may be appended to it.
LEMMA AppendNew ==
    ASSUME NEW S, NEW s \in Seq(S), NEW e \in S, IsInjective(s), e \notin Range(s)
    PROVE  /\ Append(s, e) \in Seq(S) /\ IsInjective(Append(s, e))
           /\ Range(Append(s, e)) = Range(s) \cup {e}
<1>1. Len(s) \in Nat /\ DOMAIN s = 1..Len(s)
  BY LenProperties
<1>2. /\ Append(s, e) \in Seq(S) /\ Len(Append(s, e)) = Len(s) + 1
      /\ \A i \in 1..Len(s) : Append(s, e)[i] = s[i]
      /\ Append(s, e)[Len(s) + 1] = e
  BY AppendProperties
<1>3. DOMAIN Append(s, e) = 1..(Len(s) + 1)
  BY <1>2, LenProperties
<1> QED
  BY <1>1, <1>2, <1>3 DEF IsInjective, Range

\* The head of a sequence is not in its tail.
LEMMA TakeHead ==
    ASSUME NEW S, NEW s \in Seq(S), s # <<>>, IsInjective(s)
    PROVE  /\ Head(s) \in S /\ Tail(s) \in Seq(S) /\ IsInjective(Tail(s))
           /\ Head(s) \in Range(s) /\ Range(Tail(s)) = Range(s) \ {Head(s)}
<1>1. Len(s) \in Nat \ {0} /\ DOMAIN s = 1..Len(s)
  BY LenProperties, EmptySeq
<1>2. /\ Head(s) \in S /\ Tail(s) \in Seq(S) /\ Len(Tail(s)) = Len(s) - 1
      /\ \A i \in 1..Len(Tail(s)) : Tail(s)[i] = s[i + 1]
  BY HeadTailProperties
<1>3. DOMAIN Tail(s) = 1..(Len(s) - 1) /\ Head(s) = s[1]
  BY <1>2, LenProperties
<1>4. IsInjective(Tail(s)) /\ Head(s) \in Range(s)
  BY <1>1, <1>2, <1>3 DEF IsInjective, Range
<1>5. \A i \in 2..Len(s) : i - 1 \in DOMAIN Tail(s) /\ Tail(s)[i - 1] = s[i]
  BY <1>1, <1>2, <1>3
<1>6. Range(s) \ {Head(s)} \subseteq Range(Tail(s))
  <2> SUFFICES ASSUME NEW i \in DOMAIN s, s[i] # Head(s) PROVE s[i] \in Range(Tail(s))
    BY DEF Range
  <2>1. i \in 2..Len(s)
    BY <1>1, <1>3
  <2> QED
    BY <1>5, <2>1 DEF Range
<1>7. Range(Tail(s)) \subseteq Range(s) \ {Head(s)}
  BY <1>1, <1>2, <1>3 DEF IsInjective, Range
<1> QED
  BY <1>2, <1>4, <1>6, <1>7

\* Two sequences that share nothing make one in which nothing is twice.
LEMMA JoinApart ==
    ASSUME NEW S, NEW s \in Seq(S), NEW t \in Seq(S), IsInjective(s), IsInjective(t),
           Range(s) \cap Range(t) = {}
    PROVE  IsInjective(s \o t) /\ Range(s \o t) = Range(s) \cup Range(t)
<1>1. /\ Len(s) \in Nat /\ DOMAIN s = 1..Len(s)
      /\ Len(t) \in Nat /\ DOMAIN t = 1..Len(t)
  BY LenProperties
<1>2. /\ s \o t \in Seq(S) /\ Len(s \o t) = Len(s) + Len(t)
      /\ \A i \in 1..(Len(s) + Len(t)) : (s \o t)[i] =
                     IF i <= Len(s) THEN s[i] ELSE t[i - Len(s)]
  BY ConcatProperties
<1>3. DOMAIN (s \o t) = 1..(Len(s) + Len(t))
  BY <1>2, LenProperties
<1>4. IsInjective(s \o t)
  <2> SUFFICES ASSUME NEW i \in 1..(Len(s) + Len(t)), NEW j \in 1..(Len(s) + Len(t)),
                      (s \o t)[i] = (s \o t)[j]
               PROVE  i = j
    BY <1>3 DEF IsInjective
  <2>1. CASE i <= Len(s) /\ j <= Len(s)
    BY <1>1, <1>2, <2>1 DEF IsInjective
  <2>2. CASE i > Len(s) /\ j > Len(s)
    <3>1. i - Len(s) \in DOMAIN t /\ j - Len(s) \in DOMAIN t
      BY <1>1, <2>2
    <3>2. t[i - Len(s)] = t[j - Len(s)]
      BY <1>1, <1>2, <2>2
    <3> QED
      BY <1>1, <3>1, <3>2 DEF IsInjective
  <2>3. ASSUME NEW k \in 1..(Len(s) + Len(t)), NEW l \in 1..(Len(s) + Len(t)),
               k <= Len(s), l > Len(s)
        PROVE  (s \o t)[k] # (s \o t)[l]
    <3>1. (s \o t)[k] \in Range(s)
      BY <1>1, <1>2, <2>3 DEF Range
    <3>2. (s \o t)[l] \in Range(t)
      <4>1. l - Len(s) \in DOMAIN t /\ (s \o t)[l] = t[l - Len(s)]
        BY <1>1, <1>2, <2>3
      <4> QED
        BY <4>1 DEF Range
    <3> QED
      BY <3>1, <3>2
  <2> QED
    BY <1>1, <2>1, <2>2, <2>3
<1> QED
  BY <1>4, RangeConcatenation

\* A sequence in which nothing is twice is no longer than what it is made of.
LEMMA LengthBounded ==
    ASSUME NEW S, NEW s \in Seq(S), IsInjective(s), NEW T, IsFiniteSet(T),
           Range(s) \subseteq T
    PROVE  Len(s) <= Cardinality(T)
<1>1. Len(s) \in Nat /\ DOMAIN s = 1..Len(s) /\ s \in [1..Len(s) -> S]
  BY LenProperties
<1>2. s \in [1..Len(s) -> T]
  BY <1>1 DEF Range
<1>3. s \in Injection(1..Len(s), T)
  BY <1>2 DEF Injection
<1>4. Cardinality(1..Len(s)) <= Cardinality(T)
  BY <1>3, FS_Injection
<1>5. Cardinality(1..Len(s)) = Len(s)
  BY <1>1, FS_Interval
<1> QED
  BY <1>4, <1>5

-----------------------------------------------------------------------------
(* The batches.                                                            *)

\* The batches share out the projects, in their order.
Shared == /\ found \in 0..MaxProjects
          /\ Len(batches) \in Nat /\ Batch = 1..Len(batches)
          /\ \A i \in Batch : /\ batches[i] \in Seq(1..found)
                              /\ IsInjective(batches[i])
          /\ ProjectsOf(Batch) = 1..found
          /\ \A i, j \in Batch : i < j =>
                \A p \in Range(batches[i]), q \in Range(batches[j]) : p < q

\* A part of the projects, from one to another, holds what is between them.
LEMMA CutOut ==
    ASSUME NEW n \in Nat, NEW a \in Nat \ {0}, NEW b \in Nat, a <= b + 1, b <= n
    PROVE  LET s == SubSeq([k \in 1..n |-> k], a, b)
           IN  s \in Seq(1..n) /\ IsInjective(s) /\ Range(s) = a..b
<1> DEFINE all == [k \in 1..n |-> k]
           s == SubSeq(all, a, b)
<1>1. all \in Seq(1..n) /\ Len(all) = n
  OBVIOUS
<1>2. s = [k \in 1..(b - a + 1) |-> all[a + k - 1]]
  BY <1>1
<1>3. \A k \in 1..(b - a + 1) : a + k - 1 \in 1..n
  OBVIOUS
<1>4. s = [k \in 1..(b - a + 1) |-> a + k - 1]
  BY <1>2, <1>3
<1>5. b - a + 1 \in Nat
  OBVIOUS
<1> HIDE DEF s
<1>6. s \in Seq(1..n)
  BY <1>3, <1>4, <1>5
<1>7. DOMAIN s = 1..(b - a + 1) /\ \A k \in DOMAIN s : s[k] = a + k - 1
  BY <1>4
<1>8. IsInjective(s)
  BY <1>7 DEF IsInjective
<1>9. Range(s) = a..b
  <2>1. \A x \in a..b : x - a + 1 \in DOMAIN s /\ s[x - a + 1] = x
    BY <1>7
  <2>2. \A k \in DOMAIN s : s[k] \in a..b
    BY <1>7
  <2> QED
    BY <2>1, <2>2 DEF Range
<1> QED
  BY <1>6, <1>8, <1>9 DEF s

\* What multiples of one number keep of the order of the others.
LEMMA Multiples ==
    ASSUME NEW a \in Nat, NEW b \in Nat, NEW c \in Nat
    PROVE  /\ a * c \in Nat /\ (a + 1) * c = a * c + c
           /\ a <= b => a * c <= b * c
<1>1. a * c \in Nat /\ (a + 1) * c = a * c + c
  OBVIOUS
<1>2. ASSUME a <= b PROVE a * c <= b * c
  <2>1. PICK d \in Nat : b = a + d
    <3>1. b - a \in Nat /\ b = a + (b - a)
      BY <1>2
    <3> QED
      BY <3>1
  <2>2. (a + d) * c = a * c + d * c /\ d * c \in Nat
    OBVIOUS
  <2> QED
    BY <1>1, <2>1, <2>2
<1> QED
  BY <1>1, <1>2

\* Rounding up and down.
LEMMA Rounding ==
    ASSUME NEW x \in Nat, NEW c \in Nat \ {0}
    PROVE  LET q == x \div c
           IN  q \in Nat /\ q * c <= x /\ x < q * c + c
  OBVIOUS

\* Where the batches of a size begin and end.
LEMMA BatchEnds ==
    ASSUME NEW n \in Nat \ {0}, NEW size \in Nat \ {0}
    PROVE  LET number == (n + size - 1) \div size
               end(i) == IF i * size > n THEN n ELSE i * size
           IN  /\ \A i \in 1..number :
                     /\ (i - 1) * size \in Nat /\ (i - 1) * size < n
                     /\ end(i) \in Nat /\ end(i) <= n
                     /\ (i - 1) * size + 1 <= end(i)
               /\ \A i, j \in 1..number : i < j => end(i) <= (j - 1) * size
               /\ \A p \in 1..n : \E i \in 1..number :
                     (i - 1) * size + 1 <= p /\ p <= end(i)
<1> DEFINE number == (n + size - 1) \div size
           end(i) == IF i * size > n THEN n ELSE i * size
<1>1. number \in Nat /\ number * size <= n + size - 1 /\ n - 1 < number * size
  <2>1. n + size - 1 \in Nat
    OBVIOUS
  <2> QED
    BY <2>1, Rounding
<1> HIDE DEF number
<1>2. ASSUME NEW i \in 1..number
      PROVE  /\ (i - 1) * size \in Nat /\ (i - 1) * size < n
             /\ i * size = (i - 1) * size + size /\ i * size \in Nat
  <2>1. i - 1 \in Nat /\ i \in Nat /\ i <= number
    BY <1>1
  <2>2. /\ (i - 1) * size \in Nat /\ i * size \in Nat
        /\ (i - 1 + 1) * size = (i - 1) * size + size
        /\ i * size <= number * size
    BY <1>1, <2>1, Multiples
  <2>3. i - 1 + 1 = i /\ number * size \in Nat
    BY <1>1, <2>1, Multiples
  <2> QED
    BY <1>1, <2>2, <2>3
<1>3. \A i \in 1..number : /\ (i - 1) * size \in Nat /\ (i - 1) * size < n
                           /\ end(i) \in Nat /\ end(i) <= n
                           /\ (i - 1) * size + 1 <= end(i)
  <2> SUFFICES ASSUME NEW i \in 1..number
               PROVE  /\ (i - 1) * size \in Nat /\ (i - 1) * size < n
                      /\ end(i) \in Nat /\ end(i) <= n
                      /\ (i - 1) * size + 1 <= end(i)
    OBVIOUS
  <2> QED
    BY <1>2
<1>4. ASSUME NEW i \in 1..number, NEW j \in 1..number, i < j
      PROVE  end(i) <= (j - 1) * size
  <2>1. i \in Nat /\ j - 1 \in Nat /\ i <= j - 1
    BY <1>1, <1>4
  <2>2. i * size <= (j - 1) * size
    BY <2>1, Multiples
  <2>3. (j - 1) * size \in Nat /\ i * size \in Nat
    BY <1>2
  <2> QED
    BY <2>2, <2>3
<1>5. ASSUME NEW p \in 1..n
      PROVE  \E i \in 1..number : (i - 1) * size + 1 <= p /\ p <= end(i)
  <2>1. PICK q \in Nat : q * size <= p - 1 /\ p - 1 < q * size + size
    <3>1. p - 1 \in Nat
      OBVIOUS
    <3> QED
      BY <3>1, Rounding
  <2>2. q * size \in Nat /\ (q + 1) * size = q * size + size
    BY <2>1, Multiples
  <2>3. q < number
    <3> SUFFICES ASSUME number <= q PROVE FALSE
      BY <1>1, <2>1
    <3>1. number * size <= q * size /\ number * size \in Nat
      BY <1>1, <2>1, Multiples
    <3> QED
      BY <1>1, <2>1, <2>2, <3>1
  <2>4. q + 1 \in 1..number /\ (q + 1) - 1 = q
    BY <1>1, <2>1, <2>3
  <2>5. ((q + 1) - 1) * size + 1 <= p /\ p <= end(q + 1)
    BY <2>1, <2>2, <2>4
  <2> QED
    BY <2>4, <2>5
<1> QED
  BY <1>3, <1>4, <1>5 DEF number

LEMMA InitShared == Init => Shared
<1> SUFFICES ASSUME Init PROVE Shared
  OBVIOUS
<1>1. PICK size \in 0..MaxProjects :
         batches = BatchProjects([k \in 1..found |-> k], size)
  BY DEF Init
<1> DEFINE all == [k \in 1..found |-> k]
           number == IF size = 0 THEN 1 ELSE (found + size - 1) \div size
           end(i) == IF size = 0 \/ i * size > found THEN found ELSE i * size
           cut == [i \in 1..number |-> SubSeq(all, (i - 1) * size + 1, end(i))]
<1>2. found \in Nat /\ size \in Nat /\ found \in 0..MaxProjects
  BY PoolAssumption DEF Init
<1>3. Len(all) = found
  BY <1>2
<1>4. CASE found = 0
  <2>1. batches = <<>>
    BY <1>1, <1>3, <1>4 DEF BatchProjects
  <2>2. Batch = {} /\ Len(batches) = 0
    BY <2>1 DEF Batch
  <2>3. ProjectsOf(Batch) = {}
    BY <2>2 DEF ProjectsOf
  <2> QED
    BY <1>2, <1>4, <2>2, <2>3 DEF Shared
<1>5. CASE found # 0
  <2>1. batches = cut
    BY <1>1, <1>3, <1>5 DEF BatchProjects
  <2>2. number \in Nat
    BY <1>2, <1>5
  <2>3. \A i \in 1..number : /\ (i - 1) * size \in Nat /\ (i - 1) * size < found
                             /\ end(i) \in Nat /\ end(i) <= found
                             /\ (i - 1) * size + 1 <= end(i)
    <3>1. CASE size = 0
      BY <1>2, <1>5, <3>1
    <3>2. CASE size # 0
      BY <1>2, <1>5, <3>2, BatchEnds
    <3> QED
      BY <3>1, <3>2
  <2>4. \A i, j \in 1..number : i < j => end(i) <= (j - 1) * size
    <3>1. CASE size = 0
      BY <3>1
    <3>2. CASE size # 0
      BY <1>2, <1>5, <3>2, BatchEnds
    <3> QED
      BY <3>1, <3>2
  <2>5. \A p \in 1..found : \E i \in 1..number : (i - 1) * size + 1 <= p /\ p <= end(i)
    <3> SUFFICES ASSUME NEW p \in 1..found
                 PROVE  \E i \in 1..number : (i - 1) * size + 1 <= p /\ p <= end(i)
      OBVIOUS
    <3>1. CASE size = 0
      <4>1. number = 1 /\ (1 - 1) * size + 1 = 1 /\ end(1) = found
        BY <3>1
      <4> HIDE DEF number, end
      <4> QED
        BY <1>2, <4>1
    <3>2. CASE size # 0
      BY <1>2, <1>5, <3>2, BatchEnds
    <3> QED
      BY <3>1, <3>2
  <2> HIDE DEF number, end
  <2>6. Batch = 1..number /\ Len(batches) = number
    BY <2>1, <2>2 DEF Batch
  <2>7. \A i \in Batch : /\ batches[i] \in Seq(1..found) /\ IsInjective(batches[i])
                         /\ Range(batches[i]) = ((i - 1) * size + 1)..end(i)
    <3> SUFFICES ASSUME NEW i \in 1..number
                 PROVE  /\ batches[i] \in Seq(1..found) /\ IsInjective(batches[i])
                        /\ Range(batches[i]) = ((i - 1) * size + 1)..end(i)
      BY <2>6
    <3>1. batches[i] = SubSeq(all, (i - 1) * size + 1, end(i))
      BY <2>1
    <3> DEFINE a == (i - 1) * size + 1
    <3>2. a \in Nat \ {0} /\ end(i) \in Nat /\ a <= end(i) + 1 /\ end(i) <= found
      BY <2>3
    <3> HIDE DEF a
    <3>3. /\ SubSeq(all, a, end(i)) \in Seq(1..found)
          /\ IsInjective(SubSeq(all, a, end(i)))
          /\ Range(SubSeq(all, a, end(i))) = a..end(i)
      BY <1>2, <3>2, CutOut
    <3> QED
      BY <3>1, <3>3 DEF a
  <2>8. ProjectsOf(Batch) = 1..found
    <3>1. \A i \in Batch : Range(batches[i]) \subseteq 1..found
      <4> SUFFICES ASSUME NEW i \in Batch, NEW k \in DOMAIN batches[i]
                   PROVE  batches[i][k] \in 1..found
        BY DEF Range
      <4>1. batches[i] \in Seq(1..found)
        BY <2>7
      <4> QED
        BY <4>1, LenProperties, ElementOfSeq
    <3>2. \A p \in 1..found : \E i \in Batch : p \in Range(batches[i])
      <4> SUFFICES ASSUME NEW p \in 1..found PROVE \E i \in Batch : p \in Range(batches[i])
        OBVIOUS
      <4>1. PICK i \in 1..number : (i - 1) * size + 1 <= p /\ p <= end(i)
        BY <2>5
      <4>2. (i - 1) * size \in Nat /\ end(i) \in Nat
        BY <2>3
      <4> QED
        BY <2>6, <2>7, <4>1, <4>2
    <3> QED
      BY <3>1, <3>2 DEF ProjectsOf
  <2>9. \A i, j \in Batch : i < j =>
           \A p \in Range(batches[i]), q \in Range(batches[j]) : p < q
    <3> SUFFICES ASSUME NEW i \in 1..number, NEW j \in 1..number, i < j,
                        NEW p \in Range(batches[i]), NEW q \in Range(batches[j])
                 PROVE  p < q
      BY <2>6
    <3>1. p <= end(i) /\ q >= (j - 1) * size + 1 /\ p \in Int /\ q \in Int
      BY <2>3, <2>6, <2>7
    <3>2. end(i) <= (j - 1) * size /\ end(i) \in Nat /\ (j - 1) * size \in Nat
      BY <2>3, <2>4
    <3> QED
      BY <3>1, <3>2
  <2> QED
    BY <1>2, <2>2, <2>6, <2>7, <2>8, <2>9 DEF Shared
<1> QED
  BY <1>4, <1>5

-----------------------------------------------------------------------------
(* The steps.                                                              *)

LEMMA PoolInitInv == Init => PoolInv
<1> SUFFICES ASSUME Init PROVE PoolInv
  OBVIOUS
<1>1. Len(batches) \in Nat /\ Batch = 1..Len(batches)
  BY InitShared DEF Shared
<1>2. workers \in Nat /\ task = [i \in Batch |-> "waiting"]
  BY PoolAssumption DEF Init
<1>3. channel = <<>> /\ received = <<>> /\ closed = FALSE
  BY DEF Init
<1>4. PoolShape
  BY <1>1, <1>2, <1>3 DEF PoolShape, Places
<1>5. InSlot = {} /\ Sent = {}
  BY <1>2 DEF InSlot, Sent
<1>6. PoolSlots
  BY <1>2, <1>5, FS_EmptySet DEF PoolSlots
<1>7. PoolResults
  BY <1>3, <1>5 DEF PoolResults, IsInjective, Range
<1> QED
  BY <1>3, <1>4, <1>6, <1>7 DEF PoolInv, PoolClosed

\* A step that leaves all but the progress of one goroutine as it is.
LEMMA MoveShape ==
    ASSUME PoolShape, UNCHANGED input, NEW i \in Batch, NEW from, NEW to \in Places,
           Move(i, from, to)
    PROVE  /\ Batch' = Batch /\ task' \in [Batch -> Places]
           /\ Len(batches') \in Nat /\ Batch' = 1..Len(batches') /\ workers' \in Nat
           /\ task[i] = from /\ task'[i] = to
           /\ \A j \in Batch \ {i} : task'[j] = task[j]
  BY DEF PoolShape, Move, input, Batch

\* No slot is taken, unless one is free.
LEMMA FewerInSlots ==
    ASSUME PoolSlots, workers' = workers, InSlot' \subseteq InSlot, workers \in Nat
    PROVE  PoolSlots'
<1>1. IsFiniteSet(InSlot') /\ Cardinality(InSlot') <= Cardinality(InSlot)
  BY FS_Subset DEF PoolSlots
<1>2. Cardinality(InSlot) \in Nat /\ Cardinality(InSlot') \in Nat
  BY <1>1, FS_CardinalityType DEF PoolSlots
<1> QED
  BY <1>1, <1>2 DEF PoolSlots

LEMMA TaskInv ==
    ASSUME PoolInv, NEW i \in Batch, Task(i)
    PROVE  PoolInv'
<1> USE DEF PoolInv
<1>0. UNCHANGED input /\ workers' = workers /\ workers \in Nat
  BY DEF Task, TakeSlot, Index, Send, ReleaseSlot, TaskDone, input, PoolShape
<1>1. CASE TakeSlot(i)
  <2>1. /\ Batch' = Batch /\ task' \in [Batch -> Places]
        /\ Len(batches') \in Nat /\ Batch' = 1..Len(batches') /\ workers' \in Nat
        /\ task[i] = "waiting" /\ task'[i] = "running"
        /\ \A j \in Batch \ {i} : task'[j] = task[j]
    BY <1>0, <1>1, MoveShape DEF TakeSlot, Places
  <2>2. InSlot' = InSlot \cup {i} /\ i \notin InSlot /\ Sent' = Sent
    BY <2>1 DEF InSlot, Sent
  <2>3. IsFiniteSet(InSlot') /\ Cardinality(InSlot') = Cardinality(InSlot) + 1
    BY <2>2, FS_AddElement DEF PoolSlots
  <2>4. Cardinality(InSlot) \in Nat /\ Cardinality(InSlot) < workers
    BY <1>1, FS_CardinalityType DEF PoolSlots, TakeSlot
  <2>5. PoolSlots'
    BY <1>0, <2>3, <2>4 DEF PoolSlots
  <2>6. PoolResults' /\ PoolShape'
    BY <1>1, <2>1, <2>2 DEF PoolResults, PoolShape, TakeSlot
  <2>7. PoolClosed'
    BY <1>1, <2>1 DEF PoolClosed, TakeSlot
  <2> QED
    BY <2>5, <2>6, <2>7
<1>2. CASE Index(i)
  <2>1. /\ Batch' = Batch /\ task' \in [Batch -> Places]
        /\ Len(batches') \in Nat /\ Batch' = 1..Len(batches') /\ workers' \in Nat
        /\ task[i] = "running" /\ task'[i] = "indexed"
        /\ \A j \in Batch \ {i} : task'[j] = task[j]
    BY <1>0, <1>2, MoveShape DEF Index, Places
  <2>2. InSlot' \subseteq InSlot /\ Sent' = Sent
    BY <2>1 DEF InSlot, Sent
  <2>3. PoolSlots'
    BY <1>0, <2>2, FewerInSlots
  <2>4. PoolResults' /\ PoolShape'
    BY <1>2, <2>1, <2>2 DEF PoolResults, PoolShape, Index
  <2>5. PoolClosed'
    BY <1>2, <2>1 DEF PoolClosed, Index
  <2> QED
    BY <2>3, <2>4, <2>5
<1>3. CASE Send(i)
  <2>1. /\ Batch' = Batch /\ task' \in [Batch -> Places]
        /\ Len(batches') \in Nat /\ Batch' = 1..Len(batches') /\ workers' \in Nat
        /\ task[i] = "indexed" /\ task'[i] = "sent"
        /\ \A j \in Batch \ {i} : task'[j] = task[j]
    BY <1>0, <1>3, MoveShape DEF Send, Places
  <2>2. InSlot' \subseteq InSlot /\ Sent' = Sent \cup {i} /\ i \notin Sent
    BY <2>1 DEF InSlot, Sent
  <2>3. PoolSlots'
    BY <1>0, <2>2, FewerInSlots
  <2>4. /\ channel' = Append(channel, i) /\ received' = received
        /\ channel \in Seq(Batch) /\ received \in Seq(Batch)
        /\ i \notin Range(channel) /\ i \notin Range(received)
    BY <1>3, <2>2 DEF Send, PoolResults, PoolShape
  <2>5. /\ channel' \in Seq(Batch) /\ IsInjective(channel')
        /\ Range(channel') = Range(channel) \cup {i}
    BY <2>4, AppendNew DEF PoolResults
  <2>6. PoolShape'
    BY <2>1, <2>4, <2>5 DEF PoolShape
  <2>7. PoolResults'
    BY <2>2, <2>4, <2>5 DEF PoolResults
  <2>8. PoolClosed'
    BY <1>3, <2>1 DEF PoolClosed, Send
  <2> QED
    BY <2>3, <2>6, <2>7, <2>8
<1>4. CASE ReleaseSlot(i) \/ TaskDone(i)
  <2>1. /\ Batch' = Batch /\ task' \in [Batch -> Places]
        /\ Len(batches') \in Nat /\ Batch' = 1..Len(batches') /\ workers' \in Nat
        /\ \/ task[i] = "sent" /\ task'[i] = "released"
           \/ task[i] = "released" /\ task'[i] = "done"
        /\ \A j \in Batch \ {i} : task'[j] = task[j]
    BY <1>0, <1>4, MoveShape DEF ReleaseSlot, TaskDone, Places
  <2>2. InSlot' \subseteq InSlot /\ Sent' = Sent
    BY <2>1 DEF InSlot, Sent
  <2>3. PoolSlots'
    BY <1>0, <2>2, FewerInSlots
  <2>4. PoolResults' /\ PoolShape'
    BY <1>4, <2>1, <2>2 DEF PoolResults, PoolShape, ReleaseSlot, TaskDone
  <2>5. PoolClosed'
    BY <1>4, <2>1 DEF PoolClosed, ReleaseSlot, TaskDone
  <2> QED
    BY <2>3, <2>4, <2>5
<1> QED
  BY <1>1, <1>2, <1>3, <1>4 DEF Task

\* The steps that leave the goroutines and the channel as they are.
LEMMA OtherInv ==
    ASSUME PoolInv, UNCHANGED <<input, task, channel, received>>,
           closed' = closed \/ \A i \in Batch : task[i] = "done"
    PROVE  PoolInv'
<1>1. Batch' = Batch /\ workers' = workers /\ InSlot' = InSlot /\ Sent' = Sent
  BY DEF input, Batch, InSlot, Sent
<1>2. PoolShape' /\ PoolSlots'
  BY <1>1 DEF PoolInv, PoolShape, PoolSlots, input
<1>3. PoolResults' /\ PoolClosed'
  BY <1>1 DEF PoolInv, PoolResults, PoolClosed
<1> QED
  BY <1>2, <1>3 DEF PoolInv

LEMMA ReceiveInv == PoolInv /\ Receive => PoolInv'
<1> SUFFICES ASSUME PoolInv, Receive PROVE PoolInv'
  OBVIOUS
<1> DEFINE i == Head(channel)
<1>1. /\ Batch' = Batch /\ workers' = workers /\ InSlot' = InSlot /\ Sent' = Sent
      /\ UNCHANGED <<input, task, closed>>
  BY DEF Receive, input, Batch, InSlot, Sent
<1>2. channel \in Seq(Batch) /\ channel # <<>> /\ IsInjective(channel)
  BY DEF PoolInv, PoolShape, PoolResults, Receive
<1>3. channel' = Tail(channel) /\ received' = Append(received, i)
  BY DEF Receive
<1>4. /\ i \in Batch /\ channel' \in Seq(Batch) /\ IsInjective(channel')
      /\ i \in Range(channel) /\ Range(channel') = Range(channel) \ {i}
  BY <1>2, <1>3, TakeHead
<1>5. received \in Seq(Batch) /\ IsInjective(received) /\ i \notin Range(received)
  BY <1>4 DEF PoolInv, PoolShape, PoolResults
<1>6. /\ received' \in Seq(Batch) /\ IsInjective(received')
      /\ Range(received') = Range(received) \cup {i}
  BY <1>3, <1>4, <1>5, AppendNew
<1>7. PoolShape' /\ PoolSlots'
  BY <1>1, <1>4, <1>6 DEF PoolInv, PoolShape, PoolSlots, input
<1>8. PoolResults' /\ PoolClosed'
  BY <1>1, <1>4, <1>6 DEF PoolInv, PoolResults, PoolClosed
<1> QED
  BY <1>7, <1>8 DEF PoolInv

LEMMA PoolStepInv == PoolInv /\ [Next]_vars => PoolInv'
<1> SUFFICES ASSUME PoolInv, [Next]_vars PROVE PoolInv'
  OBVIOUS
<1>1. CASE Begin
  BY <1>1, OtherInv DEF Begin
<1>2. CASE Receive
  BY <1>2, ReceiveInv
<1>3. CASE Collected
  BY <1>3, OtherInv DEF Collected
<1>4. CASE IndexNext
  BY <1>4, OtherInv DEF IndexNext
<1>5. CASE LoopDone
  BY <1>5, OtherInv DEF LoopDone
<1>6. CASE Assemble
  BY <1>6, OtherInv DEF Assemble
<1>7. CASE CloseChannel
  BY <1>7, OtherInv DEF CloseChannel
<1>8. CASE \E i \in Batch : Task(i)
  BY <1>8, TaskInv
<1>9. CASE UNCHANGED vars
  BY <1>9, OtherInv DEF vars, input
<1> QED
  BY <1>1, <1>2, <1>3, <1>4, <1>5, <1>6, <1>7, <1>8, <1>9 DEF Next, Main

\* runProjectIndexTasks at every moment: no more tasks hold a slot than there are
\* workers, a result is in the channel or received and never in both or twice, for
\* just the tasks that have sent one, and the channel is closed after the last.
THEOREM PoolInvariant == Spec => []PoolInv
  BY PoolInitInv, PoolStepInv, PTL DEF Spec

-----------------------------------------------------------------------------

\* However many projects there are, no more indexers run at a time than workers
\* are allowed.
THEOREM SlotsAreBounded == Spec => []SlotsBounded
<1>1. PoolInv => SlotsBounded
  <2> SUFFICES ASSUME PoolInv PROVE SlotsBounded
    OBVIOUS
  <2> DEFINE running == {i \in Batch : task[i] = "running"}
  <2>1. running \subseteq InSlot
    BY DEF InSlot
  <2>2. IsFiniteSet(InSlot) /\ Cardinality(InSlot) <= workers /\ workers \in Nat
    BY DEF PoolInv, PoolSlots, PoolShape
  <2>3. IsFiniteSet(running) /\ Cardinality(running) <= Cardinality(InSlot)
    BY <2>1, <2>2, FS_Subset
  <2>4. Cardinality(running) \in Nat /\ Cardinality(InSlot) \in Nat
    BY <2>2, <2>3, FS_CardinalityType
  <2> QED
    BY <2>2, <2>3, <2>4 DEF SlotsBounded
<1> QED
  BY <1>1, PoolInvariant, PTL

\* No goroutine waits at the channel or sends over one that is closed.
THEOREM SendsAreSafe == Spec => []SendsSafe
<1>1. PoolInv => SendsSafe
  <2> SUFFICES ASSUME PoolInv, NEW i \in Batch, task[i] = "indexed"
               PROVE  Len(channel) < Len(batches) /\ ~closed
    BY DEF SendsSafe
  <2>1. ~closed
    BY DEF PoolInv, PoolClosed
  <2>2. Len(batches) \in Nat /\ Batch = 1..Len(batches)
    BY DEF PoolInv, PoolShape
  <2>3. IsFiniteSet(Batch) /\ Cardinality(Batch) = Len(batches)
    <3>1. IsFiniteSet(1..Len(batches))
      BY <2>2, FS_Interval
    <3>2. Cardinality(1..Len(batches)) = IF 1 > Len(batches) THEN 0 ELSE Len(batches) - 1 + 1
      BY <2>2, FS_Interval
    <3>3. Cardinality(1..Len(batches)) = Len(batches)
      BY <2>2, <3>2
    <3> QED
      BY <2>2, <3>1, <3>3
  <2>4. /\ IsFiniteSet(Batch \ {i})
        /\ Cardinality(Batch \ {i}) = Len(batches) - 1
    BY <2>3, FS_RemoveElement
  <2>5. channel \in Seq(Batch) /\ IsInjective(channel) /\ Range(channel) \subseteq Batch \ {i}
    BY DEF PoolInv, PoolShape, PoolResults, Sent
  <2>6. Len(channel) <= Len(batches) - 1
    BY <2>4, <2>5, LengthBounded
  <2>7. Len(channel) \in Nat
    BY <2>5, LenProperties
  <2> QED
    BY <2>1, <2>2, <2>6, <2>7
<1> QED
  BY <1>1, PoolInvariant, PTL

\* Every result that has been sent is in the channel or received, once.
THEOREM ResultsAreKept == Spec => []NothingLostOrDoubled
<1>1. PoolInv => NothingLostOrDoubled
  <2> SUFFICES ASSUME PoolInv
               PROVE  /\ IsInjective(channel \o received)
                      /\ Range(channel \o received) = Sent
    BY DEF NothingLostOrDoubled, Sent
  <2>1. channel \in Seq(Batch) /\ received \in Seq(Batch)
    BY DEF PoolInv, PoolShape
  <2>2. /\ IsInjective(channel) /\ IsInjective(received)
        /\ Range(channel) \cap Range(received) = {}
        /\ Range(channel) \cup Range(received) = Sent
    BY DEF PoolInv, PoolResults
  <2>3. /\ IsInjective(channel \o received)
        /\ Range(channel \o received) = Range(channel) \cup Range(received)
    BY ONLY <2>1, <2>2, JoinApart
  <2> QED
    BY <2>2, <2>3
<1> QED
  BY <1>1, PoolInvariant, PTL

-----------------------------------------------------------------------------
(* What the index is made of.                                              *)

Made(B)   == {i \in B : indexed[i]}
GaveUp(B) == {i \in B : ~indexed[i]}

PoolType == /\ language \in {"typescript", "other"} /\ workers \in 1..MaxWorkers
            /\ main \in {"start", "loop", "collect", "assemble", "end"}
            /\ cursor \in 1..(Len(batches) + 1)
            /\ indexed \in [Batch -> BOOLEAN] /\ closed \in BOOLEAN
            /\ parts \in Seq(Batch)
            /\ output \in {"none", "direct", "copied", "merged", "failed"}

\* Nothing is made before the first step ...
PoolStart ==
    main = "start" => /\ received = <<>> /\ parts = <<>> /\ cursor = 1
                      /\ skipped = 0 /\ \A i \in Batch : ~indexed[i]

\* ... the loop has made what it was past ...
PoolLoop ==
    main = "loop" =>
       /\ ~Parallel
       /\ Range(parts) = Made(1..(cursor - 1))
       /\ skipped = Cardinality(ProjectsOf(GaveUp(1..(cursor - 1))))
       /\ \A i \in cursor..Len(batches) : ~indexed[i]

\* ... the pool counts what it received ...
PoolCollect ==
    main = "collect" =>
       /\ Parallel /\ parts = <<>>
       /\ skipped = Cardinality(ProjectsOf(GaveUp(Range(received))))

\* ... and from then on, no goroutine being left, nothing changes.
PoolMade ==
    main \in {"assemble", "end"} =>
       /\ Parallel => closed
       /\ Range(parts) = Made(Batch)
       /\ skipped = Cardinality(ProjectsOf(GaveUp(Batch)))

PoolDirect == main = "end" /\ output = "direct" => parts = <<1>>

PoolOutcome == /\ PoolStart /\ PoolLoop /\ PoolCollect /\ PoolMade /\ PoolDirect
               /\ Increasing(parts)

PoolFull == PoolInv /\ Shared /\ PoolType /\ PoolOutcome

\* The projects of some batches are some of those found ...
LEMMA CountBounded ==
    ASSUME Shared, NEW S \in SUBSET Batch
    PROVE  /\ IsFiniteSet(ProjectsOf(S)) /\ ProjectsOf(S) \subseteq 1..found
           /\ Cardinality(ProjectsOf(S)) \in 0..found /\ found \in Nat
<1>1. found \in Nat /\ ProjectsOf(S) \subseteq 1..found
  <2>1. found \in 0..MaxProjects /\ ProjectsOf(Batch) = 1..found
    BY DEF Shared
  <2>2. found \in Nat
    BY <2>1, PoolAssumption
  <2>3. ProjectsOf(S) \subseteq ProjectsOf(Batch)
    BY DEF ProjectsOf
  <2> QED
    BY <2>1, <2>2, <2>3
<1>2. IsFiniteSet(1..found) /\ Cardinality(1..found) = found
  BY <1>1, FS_Interval
<1>3. /\ IsFiniteSet(ProjectsOf(S))
      /\ Cardinality(ProjectsOf(S)) <= found
  BY <1>1, <1>2, FS_Subset
<1>4. Cardinality(ProjectsOf(S)) \in Nat
  BY <1>3, FS_CardinalityType
<1> QED
  BY <1>1, <1>3, <1>4

\* ... and one more batch adds as many as are in it.
LEMMA CountOneMore ==
    ASSUME Shared, NEW S \in SUBSET Batch, NEW i \in Batch \ S
    PROVE  Cardinality(ProjectsOf(S \cup {i})) =
              Cardinality(ProjectsOf(S)) + Len(batches[i])
<1>1. ProjectsOf(S \cup {i}) = ProjectsOf(S) \cup Range(batches[i])
  BY DEF ProjectsOf
<1>2. ProjectsOf(S) \cap Range(batches[i]) = {}
  <2> SUFFICES ASSUME NEW j \in S, NEW p \in Range(batches[j]), p \in Range(batches[i])
               PROVE  FALSE
    BY DEF ProjectsOf
  <2>1. j \in Nat /\ i \in Nat /\ j # i
    BY DEF Shared
  <2>2. p \in Nat
    <3>1. p \in 1..found
      BY DEF Shared, ProjectsOf
    <3> QED
      BY <3>1, PoolAssumption DEF Shared
  <2>3. p < p
    BY <2>1 DEF Shared
  <2> QED
    BY <2>2, <2>3
<1>3. /\ IsFiniteSet(Range(batches[i]))
      /\ Cardinality(Range(batches[i])) = Len(batches[i])
  <2> DEFINE b == batches[i]
  <2>1. b \in Seq(1..found) /\ IsInjective(b)
    BY DEF Shared
  <2> HIDE DEF b
  <2>2. Len(b) \in Nat /\ DOMAIN b = 1..Len(b)
    BY <2>1, LenProperties
  <2>3. b \in Bijection(1..Len(b), Range(b))
    BY <2>1, <2>2 DEF Bijection, Injection, Surjection, IsInjective, Range
  <2>4. PICK k \in Nat : k = Len(b)
    BY <2>2
  <2>5. IsFiniteSet(1..k) /\ Cardinality(1..k) = k
    BY FS_Interval
  <2>6. IsFiniteSet(Range(b)) /\ Cardinality(Range(b)) = Cardinality(1..k)
    BY <2>3, <2>4, <2>5, FS_Bijection DEF ExistsBijection
  <2> QED
    BY <2>4, <2>5, <2>6 DEF b
<1>4. IsFiniteSet(ProjectsOf(S)) /\ Cardinality(ProjectsOf(S)) \in Nat
  BY CountBounded, FS_CardinalityType
<1>5. Cardinality(ProjectsOf(S) \cap Range(batches[i])) = 0
  BY <1>2, FS_EmptySet
<1>6. Cardinality(ProjectsOf(S) \cup Range(batches[i])) =
         Cardinality(ProjectsOf(S)) + Cardinality(Range(batches[i]))
            - Cardinality(ProjectsOf(S) \cap Range(batches[i]))
  BY <1>3, <1>4, FS_Union
<1>7. Cardinality(Range(batches[i])) \in Nat
  BY <1>3, FS_CardinalityType
<1>8. Cardinality(ProjectsOf(S) \cup Range(batches[i])) =
         Cardinality(ProjectsOf(S)) + Cardinality(Range(batches[i]))
  BY <1>4, <1>5, <1>6, <1>7
<1> QED
  BY <1>1, <1>3, <1>8

\* No projects, no number.
LEMMA CountNone == ProjectsOf({}) = {} /\ Cardinality(ProjectsOf({})) = 0
  BY FS_EmptySet DEF ProjectsOf

LEMMA InitFull == Init => PoolFull
<1> SUFFICES ASSUME Init PROVE PoolFull
  OBVIOUS
<1>1. PoolInv /\ Shared
  BY PoolInitInv, InitShared
<1>2. Len(batches) \in Nat /\ Batch = 1..Len(batches)
  BY <1>1 DEF Shared
<1>3. indexed = [i \in Batch |-> FALSE] /\ closed = FALSE
  BY DEF Init
<1>4. PoolType
  <2>1. indexed \in [Batch -> BOOLEAN] /\ closed \in BOOLEAN
    BY <1>3
  <2>2. parts \in Seq(Batch)
    BY DEF Init
  <2> QED
    BY <1>2, <2>1, <2>2 DEF PoolType, Init
<1>5. \A i \in Batch : ~indexed[i]
  BY <1>3
<1>6. PoolOutcome
  BY <1>5 DEF Init, PoolOutcome, PoolStart, PoolLoop, PoolCollect, PoolMade, PoolDirect,
              Increasing
<1> QED
  BY <1>1, <1>4, <1>6 DEF PoolFull

\* What the input makes stays as it is.
LEMMA InputStays ==
    ASSUME Shared, UNCHANGED input
    PROVE  /\ Shared' /\ Batch' = Batch /\ Parallel' = Parallel
           /\ \A S : ProjectsOf(S)' = ProjectsOf(S)
           /\ UNCHANGED <<language, workers, found, batches>>
<1>1. UNCHANGED <<language, workers, found, batches>>
  BY DEF input
<1>2. Batch' = Batch /\ Parallel' = Parallel /\ \A S : ProjectsOf(S)' = ProjectsOf(S)
  BY <1>1 DEF Batch, Parallel, ProjectsOf
<1> QED
  BY <1>1, <1>2 DEF Shared

\* While the goroutines run their results are being received, and what a
\* goroutine does is no part of what was received.
LEMMA TaskFull ==
    ASSUME PoolFull, NEW i \in Batch, Task(i)
    PROVE  PoolFull'
<1>1. PoolInv' /\ UNCHANGED input
  BY TaskInv DEF PoolFull, Task, TakeSlot, Index, Send, ReleaseSlot, TaskDone
<1>2. /\ Shared' /\ Batch' = Batch /\ Parallel' = Parallel
      /\ \A S : ProjectsOf(S)' = ProjectsOf(S)
      /\ UNCHANGED <<language, workers, found, batches>>
  BY <1>1, InputStays DEF PoolFull
<1>3. /\ UNCHANGED <<main, cursor, closed, received, skipped, parts, output>>
      /\ indexed' \in [Batch -> BOOLEAN]
      /\ \A j \in Batch \ {i} : indexed'[j] = indexed[j]
      /\ i \in Sent => indexed'[i] = indexed[i]
      /\ main # "start" /\ Parallel /\ task[i] # "done"
  BY DEF PoolFull, PoolType, Task, TakeSlot, Index, Send, ReleaseSlot, TaskDone, Move, Sent
<1>4. main = "collect"
  BY <1>3 DEF PoolFull, PoolType, PoolOutcome, PoolLoop, PoolMade, PoolInv, PoolClosed
<1>5. GaveUp(Range(received))' = GaveUp(Range(received))
  <2>1. Range(received) \subseteq Sent /\ Sent \subseteq Batch
    BY DEF PoolFull, PoolInv, PoolResults, Sent
  <2>2. \A j \in Range(received) : indexed'[j] = indexed[j]
    BY <1>3, <2>1
  <2> QED
    BY <1>3, <2>2 DEF GaveUp
<1>6. PoolType'
  BY <1>2, <1>3 DEF PoolFull, PoolType
<1>7. PoolOutcome'
  BY <1>2, <1>3, <1>4, <1>5
     DEF PoolFull, PoolOutcome, PoolStart, PoolLoop, PoolCollect, PoolMade, PoolDirect,
         Increasing
<1> QED
  BY <1>1, <1>2, <1>6, <1>7 DEF PoolFull

\* A failed result counts its projects, and no other.
LEMMA ReceiveFull ==
    ASSUME PoolFull, Receive, Shared', Batch' = Batch, Parallel' = Parallel,
           \A S : ProjectsOf(S)' = ProjectsOf(S), UNCHANGED input
    PROVE  PoolType' /\ PoolOutcome'
<1> DEFINE i == Head(channel)
<1>1. /\ UNCHANGED <<language, workers, batches, main, cursor, indexed, closed, parts, output>>
      /\ main = "collect" /\ channel # <<>>
      /\ received' = Append(received, i)
      /\ skipped' = skipped + IF indexed[i] THEN 0 ELSE Len(batches[i])
  BY DEF Receive, input
<1>2. channel \in Seq(Batch) /\ IsInjective(channel) /\ received \in Seq(Batch)
      /\ IsInjective(received) /\ Range(channel) \cap Range(received) = {}
  BY DEF PoolFull, PoolInv, PoolShape, PoolResults
<1>3. i \in Batch /\ i \in Range(channel)
  BY <1>1, <1>2, TakeHead
<1> HIDE DEF i
<1>4. i \notin Range(received)
  BY <1>2, <1>3
<1>5. Range(received') = Range(received) \cup {i}
  BY <1>1, <1>2, <1>3, <1>4, AppendNew
<1>6. PICK G : G = GaveUp(Range(received))
  OBVIOUS
<1>7. G \subseteq Batch /\ i \notin G
  BY <1>2, <1>4, <1>6, LenProperties, ElementOfSeq DEF GaveUp, Range
<1>8. skipped = Cardinality(ProjectsOf(G)) /\ skipped \in Nat
  <2>1. skipped = Cardinality(ProjectsOf(G))
    BY <1>1, <1>6 DEF PoolFull, PoolOutcome, PoolCollect
  <2>2. Cardinality(ProjectsOf(G)) \in Nat
    BY <1>7, CountBounded DEF PoolFull
  <2> QED
    BY <2>1, <2>2
<1>9. skipped' = Cardinality(ProjectsOf(GaveUp(Range(received))))'
  <2>1. CASE indexed[i]
    <3>1. GaveUp(Range(received))' = G
      BY <1>1, <1>5, <1>6, <2>1 DEF GaveUp
    <3> QED
      BY <1>1, <1>8, <2>1, <3>1
  <2>2. CASE ~indexed[i]
    <3>1. GaveUp(Range(received))' = G \cup {i}
      BY <1>1, <1>5, <1>6, <2>2 DEF GaveUp
    <3>2. Cardinality(ProjectsOf(G \cup {i})) =
             Cardinality(ProjectsOf(G)) + Len(batches[i])
      BY <1>3, <1>7, CountOneMore DEF PoolFull
    <3> QED
      BY <1>1, <1>8, <2>2, <3>1, <3>2
  <2> QED
    BY <2>1, <2>2
<1>10. PoolType'
  BY <1>1 DEF PoolFull, PoolType
<1>11. PoolOutcome'
  BY <1>1, <1>9 DEF PoolFull, PoolOutcome, PoolStart, PoolLoop, PoolCollect, PoolMade,
                    PoolDirect, Increasing
<1> QED
  BY <1>10, <1>11

\* When the channel is closed and empty every batch has been received.
LEMMA CollectedFull ==
    ASSUME PoolFull, Collected, Batch' = Batch, Parallel' = Parallel,
           \A S : ProjectsOf(S)' = ProjectsOf(S), UNCHANGED input
    PROVE  PoolType' /\ PoolOutcome'
<1> DEFINE ok == {i \in Range(received) : indexed[i]}
<1>1. /\ UNCHANGED <<language, workers, batches, cursor, indexed, closed, received, skipped,
                     output>>
      /\ main = "collect" /\ main' = "assemble" /\ channel = <<>> /\ closed
      /\ parts' \in [1..Cardinality(ok) -> ok]
      /\ Increasing(parts') /\ Range(parts') = ok
  BY DEF Collected, input
<1>2. Range(received) = Batch
  <2>1. Sent = Batch
    BY <1>1 DEF PoolFull, PoolInv, PoolClosed, Sent
  <2>2. Range(channel) = {}
    BY <1>1 DEF Range
  <2> QED
    BY <2>1, <2>2 DEF PoolFull, PoolInv, PoolResults
<1>3. ok = Made(Batch) /\ ok \subseteq Batch
  BY <1>2 DEF Made
<1>4. Cardinality(ok) \in Nat
  <2>1. PICK n \in Nat : Batch = 1..n
    BY DEF PoolFull, Shared
  <2>2. IsFiniteSet(Batch)
    BY <2>1, FS_Interval
  <2>3. IsFiniteSet(ok)
    BY <1>3, <2>2, FS_Subset
  <2> QED
    BY <2>3, FS_CardinalityType
<1> HIDE DEF ok
<1>5. parts' \in Seq(Batch)
  <2>1. parts' \in [1..Cardinality(ok) -> Batch]
    BY <1>1, <1>3
  <2> QED
    BY <1>4, <2>1
<1>6. PoolType'
  BY <1>1, <1>5 DEF PoolFull, PoolType
<1>7. skipped' = Cardinality(ProjectsOf(GaveUp(Batch)))'
  <2>1. GaveUp(Batch)' = GaveUp(Range(received))
    BY <1>1, <1>2 DEF GaveUp
  <2> QED
    BY <1>1, <2>1 DEF PoolFull, PoolOutcome, PoolCollect
<1>8. Range(parts)' = Made(Batch)'
  BY <1>1, <1>3 DEF Made
<1> QED
  BY <1>1, <1>6, <1>7, <1>8 DEF PoolOutcome, PoolStart, PoolLoop, PoolCollect, PoolMade,
                                PoolDirect

\* The loop adds a batch to the parts, behind those it has made, or gives it up.
LEMMA IndexNextFull ==
    ASSUME PoolFull, IndexNext, Batch' = Batch, Parallel' = Parallel,
           \A S : ProjectsOf(S)' = ProjectsOf(S), UNCHANGED input
    PROVE  PoolType' /\ PoolOutcome'
<1>1. /\ UNCHANGED <<language, workers, batches, main, closed, received, output>>
      /\ main = "loop" /\ cursor <= Len(batches) /\ cursor' = cursor + 1
  BY DEF IndexNext, input
<1>2. PICK c \in Batch : c = cursor
  BY <1>1 DEF PoolFull, PoolType, Shared
<1>3. PICK n \in Nat : n = Len(batches) /\ Batch = 1..n
  BY DEF PoolFull, Shared
<1>4. PICK past : past = 1..(c - 1)
  OBVIOUS
<1>5. /\ c \in Nat /\ past \subseteq Batch /\ c \notin past
      /\ 1..(cursor - 1) = past /\ 1..(cursor' - 1) = past \cup {c}
      /\ \A i \in past : i < c
  BY <1>1, <1>2, <1>3, <1>4
<1>6. /\ indexed \in [Batch -> BOOLEAN] /\ parts \in Seq(Batch) /\ Increasing(parts)
      /\ ~Parallel /\ Range(parts) = Made(past)
      /\ skipped = Cardinality(ProjectsOf(GaveUp(past)))
      /\ \A i \in c..n : ~indexed[i]
  BY <1>1, <1>2, <1>3, <1>5 DEF PoolFull, PoolType, PoolOutcome, PoolLoop
<1>7. PICK G : G = GaveUp(past)
  OBVIOUS
<1>8. G \subseteq Batch /\ c \notin G /\ Cardinality(ProjectsOf(G)) \in Nat
  <2>1. G \subseteq Batch /\ c \notin G
    BY <1>5, <1>7 DEF GaveUp
  <2> QED
    BY <2>1, CountBounded DEF PoolFull
<1>9. cursor' \in 1..(Len(batches') + 1)
  BY <1>1, <1>2, <1>3
<1>10. /\ indexed' \in [Batch -> BOOLEAN] /\ parts' \in Seq(Batch) /\ Increasing(parts')
       /\ Range(parts') = Made(past \cup {c})'
       /\ skipped' = Cardinality(ProjectsOf(GaveUp(past \cup {c})'))
       /\ \A i \in (c + 1)..n : ~indexed'[i]
  <2>1. CASE /\ indexed' = [indexed EXCEPT ![cursor] = TRUE]
             /\ parts' = Append(parts, cursor) /\ UNCHANGED skipped
    <3>1. /\ indexed' \in [Batch -> BOOLEAN] /\ indexed'[c] = TRUE
          /\ \A i \in Batch \ {c} : indexed'[i] = indexed[i]
      BY <1>2, <1>6, <2>1
    <3>2. /\ Made(past \cup {c})' = Made(past) \cup {c}
          /\ GaveUp(past \cup {c})' = G
      BY <1>5, <1>7, <3>1 DEF Made, GaveUp
    <3>3. /\ Len(parts) \in Nat /\ DOMAIN parts = 1..Len(parts)
          /\ \A k \in DOMAIN parts : parts[k] \in Made(past)
      BY <1>6, LenProperties DEF Range
    <3>4. \A k \in DOMAIN parts : parts[k] < c
      BY <1>5, <3>3 DEF Made
    <3>5. /\ parts' \in Seq(Batch) /\ Len(parts') = Len(parts) + 1
          /\ \A k \in 1..Len(parts) : parts'[k] = parts[k]
          /\ parts'[Len(parts) + 1] = c
      BY <1>2, <1>6, <2>1, AppendProperties
    <3>6. DOMAIN parts' = 1..(Len(parts) + 1)
      BY <3>5, LenProperties
    <3>7. Increasing(parts')
      BY <1>6, <3>3, <3>4, <3>5, <3>6 DEF Increasing
    <3>8. Range(parts') = Range(parts) \cup {c}
      BY <3>3, <3>5, <3>6 DEF Range
    <3>9. \A i \in (c + 1)..n : ~indexed'[i]
      BY <1>3, <1>5, <1>6, <3>1
    <3> QED
      BY <1>6, <1>7, <2>1, <3>1, <3>2, <3>5, <3>7, <3>8, <3>9
  <2>2. CASE /\ skipped' = skipped + Len(batches[cursor]) /\ UNCHANGED <<indexed, parts>>
    <3>1. ~indexed[c]
      BY <1>2, <1>3, <1>6
    <3>2. Made(past \cup {c})' = Made(past) /\ GaveUp(past \cup {c})' = G \cup {c}
      BY <1>7, <2>2, <3>1 DEF Made, GaveUp
    <3>3. Cardinality(ProjectsOf(G \cup {c})) =
             Cardinality(ProjectsOf(G)) + Len(batches[c])
      BY <1>8, CountOneMore DEF PoolFull
    <3>4. \A i \in (c + 1)..n : ~indexed'[i]
      BY <1>5, <1>6, <2>2
    <3> QED
      BY <1>2, <1>6, <1>7, <2>2, <3>2, <3>3, <3>4
  <2> QED
    BY <2>1, <2>2 DEF IndexNext
<1>11. PoolType'
  BY <1>1, <1>9, <1>10 DEF PoolFull, PoolType
<1>12. PoolLoop'
  <2>1. cursor' = c + 1 /\ Len(batches') = n
    BY <1>1, <1>2, <1>3
  <2> QED
    BY <1>1, <1>5, <1>6, <1>10, <2>1 DEF PoolLoop
<1> QED
  BY <1>1, <1>10, <1>11, <1>12
     DEF PoolOutcome, PoolStart, PoolCollect, PoolMade, PoolDirect

\* The output is left where it was converted if that was the only batch.
LEMMA AssembleFull ==
    ASSUME PoolFull, Assemble, Batch' = Batch, Parallel' = Parallel,
           \A S : ProjectsOf(S)' = ProjectsOf(S), UNCHANGED input
    PROVE  PoolType' /\ PoolOutcome'
<1>1. /\ UNCHANGED <<language, workers, batches, cursor, indexed, closed, received, skipped,
                     parts>>
      /\ main = "assemble" /\ main' = "end"
  BY DEF Assemble, input
<1>2. /\ output' \in {"none", "direct", "copied", "merged", "failed"}
      /\ output' = "direct" => parts # <<>> /\ Len(batches) = 1
  BY DEF Assemble
<1>3. ASSUME output' = "direct" PROVE parts = <<1>>
  <2>1. Batch = {1} /\ parts \in Seq(Batch) /\ parts # <<>> /\ Increasing(parts)
    <3>1. Batch = 1..1
      BY <1>2, <1>3 DEF PoolFull, Shared
    <3> QED
      BY <1>2, <1>3, <3>1 DEF PoolFull, PoolType, PoolOutcome
  <2>2. Len(parts) \in Nat \ {0} /\ DOMAIN parts = 1..Len(parts)
    BY <2>1, LenProperties, EmptySeq
  <2>3. \A k \in DOMAIN parts : parts[k] = 1
    BY <2>1, <2>2, ElementOfSeq
  <2>4. Len(parts) = 1
    <3> SUFFICES ASSUME Len(parts) > 1 PROVE FALSE
      BY <2>2
    <3>1. 1 \in DOMAIN parts /\ 2 \in DOMAIN parts
      BY <2>2
    <3> QED
      BY <2>1, <2>3, <3>1 DEF Increasing
  <2> QED
    BY <2>1, <2>2, <2>3, <2>4
<1>4. Made(Batch)' = Made(Batch) /\ GaveUp(Batch)' = GaveUp(Batch)
  BY <1>1 DEF Made, GaveUp
<1>5. PoolType'
  BY <1>1, <1>2 DEF PoolFull, PoolType
<1> QED
  BY <1>1, <1>3, <1>4, <1>5
     DEF PoolFull, PoolOutcome, PoolStart, PoolLoop, PoolCollect, PoolMade, PoolDirect

\* The steps that only move the calling goroutine on.
LEMMA MainMovesFull ==
    ASSUME PoolFull, Begin \/ LoopDone \/ CloseChannel \/ UNCHANGED vars,
           Batch' = Batch, Parallel' = Parallel,
           \A S : ProjectsOf(S)' = ProjectsOf(S), UNCHANGED input
    PROVE  PoolType' /\ PoolOutcome'
<1>1. UNCHANGED <<language, workers, batches, cursor, indexed, received, skipped, parts, output>>
  BY DEF Begin, LoopDone, CloseChannel, vars, input
<1>2. \A S : GaveUp(S)' = GaveUp(S) /\ Made(S)' = Made(S)
  BY <1>1 DEF GaveUp, Made
<1>3. CASE Begin
  <2>1. /\ received = <<>> /\ parts = <<>> /\ cursor = 1 /\ skipped = 0
        /\ \A i \in Batch : ~indexed[i]
    BY <1>3 DEF Begin, PoolFull, PoolOutcome, PoolStart
  <2>2. 1..(cursor - 1) = {} /\ Range(received) = {} /\ Range(parts) = {}
    BY <2>1 DEF Range
  <2>3. Made({}) = {} /\ GaveUp({}) = {}
    BY DEF Made, GaveUp
  <2>4. cursor..Len(batches) = Batch
    BY <2>1 DEF PoolFull, Shared
  <2>5. main' = IF Parallel THEN "collect" ELSE "loop"
    BY <1>3 DEF Begin
  <2>6. closed' = closed
    BY <1>3 DEF Begin
  <2>7. PoolLoop'
    BY <1>1, <1>2, <2>1, <2>2, <2>3, <2>4, <2>5, CountNone DEF PoolLoop
  <2>8. PoolCollect'
    BY <1>1, <1>2, <2>1, <2>2, <2>3, <2>5, CountNone DEF PoolCollect
  <2>9. PoolType'
    BY <1>1, <2>5, <2>6 DEF PoolFull, PoolType
  <2> QED
    BY <1>1, <2>5, <2>7, <2>8, <2>9
       DEF PoolFull, PoolOutcome, PoolStart, PoolMade, PoolDirect
<1>4. CASE LoopDone
  <2>1. main = "loop" /\ main' = "assemble" /\ cursor > Len(batches) /\ closed' = closed
    BY <1>4 DEF LoopDone
  <2>2. cursor - 1 = Len(batches) /\ 1..(cursor - 1) = Batch
    BY <2>1 DEF PoolFull, PoolType, Shared
  <2>3. /\ ~Parallel /\ Range(parts) = Made(Batch)
        /\ skipped = Cardinality(ProjectsOf(GaveUp(Batch)))
    BY <2>1, <2>2 DEF PoolFull, PoolOutcome, PoolLoop
  <2>4. PoolMade'
    BY <1>1, <1>2, <2>3 DEF PoolMade
  <2>5. PoolType'
    BY <1>1, <2>1 DEF PoolFull, PoolType
  <2> QED
    BY <1>1, <2>1, <2>4, <2>5
       DEF PoolFull, PoolOutcome, PoolStart, PoolLoop, PoolCollect, PoolDirect
<1>5. CASE CloseChannel \/ UNCHANGED vars
  <2>1. main' = main /\ closed' \in BOOLEAN /\ (closed => closed')
    BY <1>5 DEF CloseChannel, vars, PoolFull, PoolType
  <2>2. PoolType'
    BY <1>1, <2>1 DEF PoolFull, PoolType
  <2> QED
    BY <1>1, <1>2, <2>1, <2>2
       DEF PoolFull, PoolOutcome, PoolStart, PoolLoop, PoolCollect, PoolMade, PoolDirect
<1> QED
  BY <1>3, <1>4, <1>5

LEMMA NextFull == PoolFull /\ [Next]_vars => PoolFull'
<1> SUFFICES ASSUME PoolFull, [Next]_vars PROVE PoolFull'
  OBVIOUS
<1>1. CASE \E i \in Batch : Task(i)
  BY <1>1, TaskFull
<1>2. ASSUME Main \/ CloseChannel \/ UNCHANGED vars PROVE PoolFull'
  <2>1. PoolInv'
    BY PoolStepInv DEF PoolFull
  <2>2. UNCHANGED input
    BY <1>2 DEF Main, Begin, Receive, Collected, IndexNext, LoopDone, Assemble, CloseChannel,
                vars, input
  <2>3. /\ Shared' /\ Batch' = Batch /\ Parallel' = Parallel
        /\ \A S : ProjectsOf(S)' = ProjectsOf(S)
    BY <2>2, InputStays DEF PoolFull
  <2>4. PoolType' /\ PoolOutcome'
    BY <1>2, <2>2, <2>3, ReceiveFull, CollectedFull, IndexNextFull, AssembleFull,
       MainMovesFull DEF Main
  <2> QED
    BY <2>1, <2>3, <2>4 DEF PoolFull
<1> QED
  BY <1>1, <1>2 DEF Next

LEMMA PoolFullHolds == Spec => []PoolFull
  BY InitFull, NextFull, PTL DEF Spec

-----------------------------------------------------------------------------

\* The variables of the pool stay within their types, and no more projects are
\* counted as skipped than were found.
THEOREM PoolTypeCorrect == Spec => []TypeOK
<1>1. PoolFull => TypeOK
  <2> SUFFICES ASSUME PoolFull PROVE TypeOK
    OBVIOUS
  <2>1. skipped \in 0..MaxProjects
    <3>1. PICK S \in SUBSET Batch : skipped = Cardinality(ProjectsOf(S)) \/ skipped = 0
      <4>1. GaveUp(Batch) \subseteq Batch
        BY DEF GaveUp
      <4>2. GaveUp(1..(cursor - 1)) \subseteq Batch
        BY DEF GaveUp, PoolFull, PoolType, Shared
      <4>3. GaveUp(Range(received)) \subseteq Batch
        BY DEF GaveUp, PoolFull, PoolInv, PoolResults, Sent
      <4>4. main \in {"start", "loop", "collect", "assemble", "end"}
        BY DEF PoolFull, PoolType
      <4> QED
        BY <4>1, <4>2, <4>3, <4>4
           DEF PoolFull, PoolOutcome, PoolStart, PoolLoop, PoolCollect, PoolMade
    <3>2. Cardinality(ProjectsOf(S)) \in 0..found /\ found \in 0..MaxProjects
      BY CountBounded DEF PoolFull, Shared
    <3> QED
      BY <3>1, <3>2, PoolAssumption
  <2>2. /\ found \in 0..MaxProjects /\ \A i \in Batch : batches[i] \in Seq(1..found)
        /\ task \in [Batch -> Places] /\ channel \in Seq(Batch) /\ received \in Seq(Batch)
    BY DEF PoolFull, Shared, PoolInv, PoolShape
  <2> QED
    BY <2>1, <2>2 DEF TypeOK, PoolFull, PoolType
<1> QED
  BY <1>1, PoolFullHolds, PTL

\* However many goroutines index, in whatever order they end, the output is made
\* of the batches that were indexed in the order of the projects, and every
\* project found is in it or counted as skipped.
THEOREM OutcomeIsTheLoops == Spec => []OutcomeOfTheLoop
<1>1. PoolFull => OutcomeOfTheLoop
  <2> SUFFICES ASSUME PoolFull, main = "end" PROVE OutcomeOfTheLoop
    BY DEF OutcomeOfTheLoop
  <2>1. /\ Increasing(parts) /\ Range(parts) = Made(Batch)
        /\ skipped = Cardinality(ProjectsOf(GaveUp(Batch)))
        /\ output = "direct" => parts = <<1>>
    BY DEF PoolFull, PoolOutcome, PoolMade, PoolDirect
  <2>2. /\ ProjectsOf(Batch) = 1..found /\ found \in Nat
        /\ \A i \in Batch : i \in Nat
        /\ \A i, j \in Batch : i < j =>
              \A p \in Range(batches[i]), q \in Range(batches[j]) : p < q
    BY PoolAssumption DEF PoolFull, Shared
  <2>3. ProjectsOf(GaveUp(Batch)) = (1..found) \ ProjectsOf(Made(Batch))
    <3>1. ProjectsOf(Batch) = ProjectsOf(GaveUp(Batch)) \cup ProjectsOf(Made(Batch))
      BY DEF ProjectsOf, GaveUp, Made
    <3>2. ASSUME NEW i \in GaveUp(Batch), NEW j \in Made(Batch), NEW p \in Range(batches[i]),
                 p \in Range(batches[j])
          PROVE  FALSE
      <4>1. i \in Batch /\ j \in Batch /\ i # j
        BY DEF GaveUp, Made
      <4>2. p \in 1..found
        BY <2>2, <4>1 DEF ProjectsOf
      <4>3. p < p
        BY <2>2, <3>2, <4>1
      <4> QED
        BY <2>2, <4>2, <4>3
    <3>3. ProjectsOf(GaveUp(Batch)) \cap ProjectsOf(Made(Batch)) = {}
      BY <3>2 DEF ProjectsOf
    <3> QED
      BY <2>2, <3>1, <3>3
  <2> QED
    BY <2>1, <2>2, <2>3 DEF OutcomeOfTheLoop, Made
<1> QED
  BY <1>1, PoolFullHolds, PTL
=============================================================================
