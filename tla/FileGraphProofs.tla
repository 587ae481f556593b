--------------------------- MODULE FileGraphProofs ---------------------------
(***************************************************************************)
(* tarjanSCCs of FileGraph is correct for every graph of files: whichever  *)
(* file the search starts from, and in whatever order the neighbours come, *)
(* the components it ends with are the classes of files that reach each    *)
(* other.                                                                  *)
(*                                                                         *)
(* The invariant of the search says, of the files on the stack, that what  *)
(* is on the call stack reaches everything visited after it, and is        *)
(* reached from everything above it (Connected), and that a link is the    *)
(* number of a file on the stack that is reached, no file above looking    *)
(* further down (Linked).  So when a file whose link is its own number is  *)
(* left, no edge leads from the files above it further down the stack, and *)
(* they are one component (TakenIsComponent); and when its link is lower,  *)
(* it reaches its caller (InnerReaches).                                   *)
(*                                                                         *)
(* The check built on it takes each cycle once from FindLongerCycles and,  *)
(* with rows to spare, all of them.  A cycle lies in one component;        *)
(* cyclesInSCC starts from the files of the component in their order, so   *)
(* that it meets a cycle first from its least file: its key is new then,   *)
(* and known whenever it is met again (ByKey).  As long as the cap is not  *)
(* reached, a cycle of the component that is not found yet begins with a   *)
(* path of the stack or with a file that has still to be started from      *)
(* (HereSoFar).  CheckInv follows this through the calls of                *)
(* FindLongerCycles with larger caps.                                      *)
(***************************************************************************)
EXTENDS FileGraph, OrderedRowsProofs, FiniteSetTheorems, SequenceTheorems,
        FunctionTheorems, TLAPS

-----------------------------------------------------------------------------
(* Graphs.                                                                 *)

\* What a map from a finite set yields is finite.
LEMMA FiniteImage ==
    ASSUME NEW S, IsFiniteSet(S), NEW T, NEW f \in [S -> T]
    PROVE  IsFiniteSet(Range(f)) /\ Cardinality(Range(f)) <= Cardinality(S)
<1>1. f \in Surjection(S, Range(f))
  BY DEF Surjection, Range
<1> QED
  BY <1>1, FS_Surjection DEF ExistsSurjection

LEMMA SequenceSet ==
    ASSUME NEW S, NEW s \in Seq(S)
    PROVE  /\ Len(s) \in Nat /\ DOMAIN s = 1..Len(s)
           /\ ToSet(s) = {s[i] : i \in 1..Len(s)} /\ ToSet(s) \subseteq S
           /\ IsFiniteSet(ToSet(s)) /\ Cardinality(ToSet(s)) <= Len(s)
<1>1. Len(s) \in Nat /\ DOMAIN s = 1..Len(s)
  BY LenProperties
<1>2. PICK n \in Nat : n = Len(s)
  BY <1>1
<1>3. IsFiniteSet(1..n) /\ Cardinality(1..n) = n
  BY FS_Interval
<1>4. IsFiniteSet(Range(s)) /\ Cardinality(Range(s)) <= n
  <2>1. s \in [1..n -> S]
    BY <1>2
  <2> QED
    BY <2>1, <1>3, FiniteImage
<1>5. ToSet(s) = {s[i] : i \in 1..Len(s)} /\ Range(s) = ToSet(s)
  BY <1>1 DEF ToSet, Range
<1>6. ToSet(s) \subseteq S
  BY <1>1, <1>5, ElementOfSeq
<1> QED
  BY <1>1, <1>2, <1>4, <1>5, <1>6

LEMMA FrontAndLast ==
    ASSUME NEW S, NEW s \in Seq(S), s # <<>>
    PROVE  /\ Len(s) \in Nat /\ Len(s) >= 1 /\ Last(s) = s[Len(s)] /\ Last(s) \in S
           /\ Front(s) \in Seq(S) /\ Len(Front(s)) = Len(s) - 1
           /\ \A i \in 1..(Len(s) - 1) : Front(s)[i] = s[i]
<1> DEFINE n == Len(s)
<1>1. n \in Nat /\ n >= 1
  BY LenProperties, EmptySeq
<1>2. Last(s) = s[n] /\ s[n] \in S
  BY <1>1, ElementOfSeq DEF Last
<1>3. Front(s) = SubSeq(s, 1, n - 1)
  BY DEF Front
<1>4. 1 \in 1..(n + 1) /\ (n - 1) \in (1 - 1)..n
  BY <1>1
<1>5. /\ Front(s) \in Seq(S) /\ Len(Front(s)) = n - 1
      /\ \A i \in 1..(n - 1) : Front(s)[i] = s[i]
  <2> DEFINE m == n - 1
  <2>1. m \in Nat /\ m = n - 1 /\ Front(s) = SubSeq(s, 1, m)
    BY <1>1, <1>3
  <2> HIDE DEF m, n
  <2>2. /\ SubSeq(s, 1, m) \in Seq(S) /\ Len(SubSeq(s, 1, m)) = m
        /\ \A i \in 1..m : SubSeq(s, 1, m)[i] = s[i]
    BY <1>1, <1>4, <2>1, SubSeqProperties DEF n
  <2> QED
    BY <2>1, <2>2
<1> QED
  BY <1>1, <1>2, <1>5

LEMMA Appended ==
    ASSUME NEW S, NEW s \in Seq(S), NEW e
    PROVE  /\ Len(s) \in Nat /\ Len(Append(s, e)) = Len(s) + 1
           /\ Append(s, e) \in Seq(S \cup {e}) /\ DOMAIN Append(s, e) = 1..(Len(s) + 1)
           /\ Append(s, e)[Len(s) + 1] = e
           /\ \A i \in 1..Len(s) : Append(s, e)[i] = s[i]
<1> DEFINE t == Append(s, e)
<1>1. s \in Seq(S \cup {e}) /\ Len(s) \in Nat
  BY LenProperties
<1>2. /\ t \in Seq(S \cup {e}) /\ Len(t) = Len(s) + 1
      /\ t[Len(s) + 1] = e /\ \A i \in 1..Len(s) : t[i] = s[i]
  BY <1>1, AppendProperties
<1> HIDE DEF t
<1>3. DOMAIN t = 1..(Len(s) + 1)
  BY <1>2, LenProperties
<1> QED
  BY <1>1, <1>2, <1>3 DEF t

LEMMA AppendedSet ==
    ASSUME NEW S, NEW s \in Seq(S), NEW e
    PROVE  ToSet(Append(s, e)) = ToSet(s) \cup {e}
<1> DEFINE t == Append(s, e)
<1>1. /\ Len(s) \in Nat /\ t \in Seq(S \cup {e}) /\ Len(t) = Len(s) + 1
      /\ t[Len(s) + 1] = e /\ \A i \in 1..Len(s) : t[i] = s[i]
  BY Appended
<1> HIDE DEF t
<1>2. ToSet(t) = {t[i] : i \in 1..(Len(s) + 1)} /\ ToSet(s) = {s[i] : i \in 1..Len(s)}
  BY <1>1, SequenceSet
<1>3. \A i \in 1..(Len(s) + 1) : i \in 1..Len(s) \/ i = Len(s) + 1
  BY <1>1
<1>4. (\A i \in 1..Len(s) : i \in 1..(Len(s) + 1)) /\ Len(s) + 1 \in 1..(Len(s) + 1)
  BY <1>1
<1>5. ToSet(t) = ToSet(s) \cup {e}
  BY <1>1, <1>2, <1>3, <1>4
<1> QED
  BY <1>5 DEF t

\* There are finitely many files, and they depend on files.
LEMMA GraphFiles ==
    ASSUME NEW g \in Graphs
    PROVE  /\ IsFiniteSet(FilesOf(g)) /\ FilesOf(g) \subseteq Nat
           /\ \A v : /\ SuccessorsIn(g, v) \in Seq(FilesOf(g))
                     /\ ToSet(SuccessorsIn(g, v)) \subseteq FilesOf(g)
<1> DEFINE D == {w \in DOMAIN g : g[w] # <<>>}
           near(v) == {v} \cup ToSet(g[v])
           f == [v \in D |-> near(v)]
<1>1. /\ DOMAIN g \in SUBSET Nat /\ IsFiniteSet(DOMAIN g)
      /\ \A v \in DOMAIN g : g[v] \in Seq(Nat)
  BY GraphsAssumption
<1>2. FilesOf(g) = UNION Range(f)
  BY DEF FilesOf, Range
<1>3. \A v \in D : IsFiniteSet(near(v)) /\ near(v) \subseteq Nat
  <2> TAKE v \in D
  <2>1. IsFiniteSet(ToSet(g[v])) /\ ToSet(g[v]) \subseteq Nat
    BY <1>1, SequenceSet
  <2>2. IsFiniteSet({v})
    BY FS_Singleton
  <2> QED
    BY <1>1, <2>1, <2>2, FS_Union
<1>4. IsFiniteSet(D)
  BY <1>1, FS_Subset
<1>5. IsFiniteSet(Range(f)) /\ \A T \in Range(f) : IsFiniteSet(T) /\ T \subseteq Nat
  <2> HIDE DEF near, D
  <2>1. f \in [D -> {near(v) : v \in D}]
    OBVIOUS
  <2>2. IsFiniteSet(Range(f))
    BY <1>4, <2>1, FiniteImage
  <2> QED
    BY <1>3, <2>2 DEF Range
<1>6. IsFiniteSet(UNION Range(f))
  <2> HIDE DEF f
  <2> QED
    BY <1>5, FS_UNION
<1>7. FilesOf(g) \subseteq Nat
  <2> HIDE DEF f
  <2> QED
    BY <1>2, <1>5
<1>8. ASSUME NEW v PROVE /\ SuccessorsIn(g, v) \in Seq(FilesOf(g))
                         /\ ToSet(SuccessorsIn(g, v)) \subseteq FilesOf(g)
  <2>1. CASE v \in D
    <3>1. SuccessorsIn(g, v) = g[v] /\ g[v] \in Seq(Nat)
      BY <1>1, <2>1 DEF SuccessorsIn
    <3>2. ToSet(g[v]) \subseteq FilesOf(g)
      BY <2>1 DEF FilesOf
    <3>3. \A i \in 1..Len(g[v]) : g[v][i] \in FilesOf(g)
      BY <3>1, <3>2, SequenceSet
    <3>4. g[v] \in Seq(FilesOf(g))
      BY <3>1, <3>3, SeqDef
    <3> QED
      BY <3>1, <3>2, <3>4
  <2>2. CASE v \notin D
    <3>1. SuccessorsIn(g, v) = <<>>
      BY <2>2 DEF SuccessorsIn
    <3> QED
      BY <3>1 DEF ToSet
  <2> QED
    BY <2>1, <2>2
<1> QED
  BY <1>2, <1>6, <1>7, <1>8

\* Being reached is reflexive and transitive, goes along the edges, and stays
\* in a set that no edge leaves.
LEMMA Reaching ==
    ASSUME NEW g
    PROVE  /\ \A v \in FilesOf(g) : v \in ReachableFrom(g, v)
           /\ \A u, v, w : v \in ReachableFrom(g, u) /\ w \in ReachableFrom(g, v)
                              => w \in ReachableFrom(g, u)
           /\ \A S \in SUBSET FilesOf(g) : IsClosed(g, S) =>
                 \A v \in S : ReachableFrom(g, v) \subseteq S
BY DEF ReachableFrom

LEMMA ReachingEdge ==
    ASSUME NEW g \in Graphs, NEW u, NEW v, v \in ToSet(SuccessorsIn(g, u))
    PROVE  v \in ReachableFrom(g, u)
<1>1. v \in FilesOf(g)
  BY GraphFiles
<1> QED
  BY <1>1 DEF ReachableFrom, IsClosed

-----------------------------------------------------------------------------
(* tarjanSCCs.                                                             *)

Held == ToSet(tarjan)
Done == UNION ToSet(components)
Caller(i) == frames[i].vertex
Reaches(v, w) == w \in ReachableFrom(next, v)

\* The files that were visited while a frame was the last one, and are not in
\* a component yet.
Above(i, v) == /\ v \in Held /\ indices[Caller(i)] <= indices[v]
               /\ i < Len(frames) => indices[v] < indices[Caller(i + 1)]

\* The neighbours that have been looked at when these are the frames.
LookedAt(g, fs, v, w) ==
    /\ w \in ToSet(SuccessorsIn(g, v))
    /\ \A i \in DOMAIN fs : fs[i].vertex = v =>
          \E k \in DOMAIN SuccessorsIn(g, v) : k < fs[i].idx /\ SuccessorsIn(g, v)[k] = w
Looked(v, w) == LookedAt(next, frames, v, w)

Numbers == /\ next \in Graphs /\ Visited \subseteq Files
           /\ indices \in [Visited -> Nat] /\ lowlink \in [Visited -> Nat]
           /\ \A v \in Visited : /\ indices[v] < Cardinality(Visited)
                                 /\ lowlink[v] <= indices[v]
           /\ \A v, w \in Visited : indices[v] = indices[w] => v = w

Stacks == /\ tarjan \in Seq(Visited)
          /\ frames \in Seq([vertex : Visited, idx : Nat \ {0}])
          /\ \A i, j \in DOMAIN tarjan : i < j => indices[tarjan[i]] < indices[tarjan[j]]
          /\ \A i, j \in DOMAIN frames : i < j => indices[Caller(i)] < indices[Caller(j)]
          /\ \A i \in DOMAIN frames : Caller(i) \in Held
          /\ tarjan # <<>> => frames # <<>> /\ Caller(1) = tarjan[1]

\* The components so far are right, and no edge leaves them.
Split == /\ components \in Seq(SUBSET Visited)
         /\ Held \cap Done = {} /\ Visited = Held \cup Done
         /\ \A i \in DOMAIN components :
               /\ components[i] # {}
               /\ \A v \in components[i] : components[i] = ComponentOf(next, v)
         /\ \A i, j \in DOMAIN components : i # j => components[i] \cap components[j] = {}
         /\ IsClosed(next, Done)

\* What is on the call stack reaches what was visited later, and what was
\* visited later reaches the frame it is above.
Connected == /\ \A i \in DOMAIN frames, v \in Held :
                   indices[Caller(i)] <= indices[v] => Reaches(Caller(i), v)
             /\ \A i \in DOMAIN frames, v \in Held : Above(i, v) => Reaches(v, Caller(i))

\* A link is the number of a file on the stack that is reached, and no neighbour
\* of a file above a frame has a lesser number than the link of the frame.
Linked == /\ \A v \in Visited : \A w : Looked(v, w) => w \in Visited
          /\ \A i \in DOMAIN frames : \E v \in Held :
                lowlink[Caller(i)] = indices[v] /\ Reaches(Caller(i), v)
          /\ \A i \in DOMAIN frames, v \in Held, w \in Held :
                Above(i, v) /\ Looked(v, w) => lowlink[Caller(i)] <= indices[w]

Searching == Numbers /\ Stacks /\ Split /\ Connected /\ Linked

\* The call stack and its last frame.
LEMMA CallStack ==
    ASSUME Searching
    PROVE  /\ Len(frames) \in Nat /\ DOMAIN frames = 1..Len(frames)
           /\ \A i \in 1..Len(frames) :
                 /\ Caller(i) \in Visited /\ Caller(i) \in Held
                 /\ frames[i].idx \in Nat \ {0}
                 /\ frames[i] = [vertex |-> Caller(i), idx |-> frames[i].idx]
           /\ frames = <<>> <=> Len(frames) = 0
           /\ frames # <<>> => /\ Top = frames[Len(frames)] /\ Callers \in Seq([vertex : Visited, idx : Nat \ {0}])
                               /\ Len(Callers) = Len(frames) - 1
                               /\ \A i \in 1..(Len(frames) - 1) : Callers[i] = frames[i]
<1> DEFINE F == [vertex : Visited, idx : Nat \ {0}]
           n == Len(frames)
<1>1. frames \in Seq(F) /\ \A i \in DOMAIN frames : Caller(i) \in Held
  BY DEF Searching, Stacks
<1> HIDE DEF F
<1>2. n \in Nat /\ DOMAIN frames = 1..n /\ (frames = <<>> <=> n = 0)
  BY <1>1, LenProperties, EmptySeq
<1>3. \A i \in 1..n : frames[i] \in F
  BY <1>1, <1>2, ElementOfSeq
<1>4. \A i \in 1..n : /\ Caller(i) \in Visited /\ frames[i].idx \in Nat \ {0}
                      /\ frames[i] = [vertex |-> Caller(i), idx |-> frames[i].idx]
  BY <1>3 DEF F, Caller
<1>5. ASSUME frames # <<>>
      PROVE  /\ Top = frames[n] /\ Callers \in Seq(F) /\ Len(Callers) = n - 1
             /\ \A i \in 1..(n - 1) : Callers[i] = frames[i]
  BY <1>1, <1>5, FrontAndLast DEF Top, Callers
<1> QED
  BY <1>1, <1>2, <1>4, <1>5 DEF F

\* Files on the call stack, their last one one neighbour further.
Further(fs, w) ==
    LET n == Len(frames)
    IN  /\ fs \in Seq([vertex : Visited, idx : Nat \ {0}]) /\ Len(fs) = n
        /\ \A i \in 1..n : fs[i].vertex = Caller(i)
        /\ n > 0 => w \in ToSet(Successors(Caller(n)))
        /\ \A v, u : LookedAt(next, fs, v, u) =>
              Looked(v, u) \/ (n > 0 /\ v = Caller(n) /\ u = w)

LEMMA AdvanceIsFurther ==
    ASSUME Searching, frames # <<>>, Top.idx <= Len(Successors(Top.vertex))
    PROVE  LET w == Successors(Top.vertex)[Top.idx]
           IN  Further(Advance, w) /\ w \in Files /\ Reaches(Top.vertex, w)
<1> DEFINE n == Len(frames)
           F == [vertex : Visited, idx : Nat \ {0}]
           v == Top.vertex
           k == Top.idx
           succ == Successors(v)
           w == succ[k]
           fs == Advance
<1>1. /\ n \in Nat /\ n >= 1 /\ DOMAIN frames = 1..n
      /\ \A i \in 1..n : frames[i] = [vertex |-> Caller(i), idx |-> frames[i].idx]
      /\ Top = frames[n] /\ Callers \in Seq(F) /\ Len(Callers) = n - 1
      /\ \A i \in 1..(n - 1) : Callers[i] = frames[i]
  <2>1. Len(frames) >= 1
    BY CallStack
  <2> QED
    BY <2>1, CallStack
<1>2. v = Caller(n) /\ v \in Visited /\ k \in Nat \ {0}
  BY <1>1, CallStack DEF Caller
<1>3. /\ succ \in Seq(Files) /\ ToSet(succ) \subseteq Files
      /\ Len(succ) \in Nat /\ DOMAIN succ = 1..Len(succ)
  BY GraphFiles, SequenceSet DEF Successors, Files, Searching, Numbers
<1>4. k \in DOMAIN succ /\ w \in ToSet(succ)
  BY <1>2, <1>3, SequenceSet
<1> DEFINE new == [vertex |-> v, idx |-> k + 1]
<1>5. fs = Append(Callers, new)
  <2>1. Top = [vertex |-> v, idx |-> k]
    BY <1>1
  <2>2. [Top EXCEPT !.idx = @ + 1] = new
    <3> HIDE DEF v, k
    <3> QED
      BY <2>1
  <2> QED
    BY <2>2 DEF Advance
<1>6. new \in F /\ new.vertex = v /\ new.idx = k + 1
  BY <1>2
<1> HIDE DEF new
<1>7. /\ fs \in Seq(F) /\ Len(fs) = n /\ fs[n] = new
      /\ \A i \in 1..(n - 1) : fs[i] = frames[i]
  <2>1. /\ Append(Callers, new) \in Seq(F \cup {new})
        /\ Len(Append(Callers, new)) = (n - 1) + 1
        /\ Append(Callers, new)[(n - 1) + 1] = new
        /\ \A i \in 1..(n - 1) : Append(Callers, new)[i] = Callers[i]
    <3> HIDE DEF F, n, fs
    <3> QED
      BY <1>1, Appended
  <2>2. F \cup {new} = F
    BY <1>6
  <2>3. (n - 1) + 1 = n
    BY <1>1
  <2> HIDE DEF F, n, fs
  <2> QED
    BY <1>1, <1>5, <2>1, <2>2, <2>3
<1> HIDE DEF fs, F
<1>8. DOMAIN fs = 1..n /\ \A i \in 1..n : fs[i].vertex = Caller(i)
  <2>1. DOMAIN fs = 1..n
    BY <1>7, LenProperties
  <2>2. ASSUME NEW i \in 1..n PROVE fs[i].vertex = Caller(i)
    <3>1. CASE i = n
      <4>1. fs[i] = new /\ v = Caller(i)
        BY <1>2, <1>7, <3>1
      <4> HIDE DEF v, n
      <4> QED
        BY <1>6, <4>1
    <3>2. CASE i \in 1..(n - 1)
      BY <1>7, <3>2 DEF Caller
    <3>3. i = n \/ i \in 1..(n - 1)
      <4>1. n \in Nat /\ i \in 1..n
        BY <1>1
      <4> QED
        BY ONLY <4>1
    <3> QED
      BY <3>1, <3>2, <3>3
  <2> QED
    BY <2>1, <2>2
<1>9. ASSUME NEW x, NEW u, LookedAt(next, fs, x, u), ~(x = Caller(n) /\ u = w)
      PROVE  Looked(x, u)
  <2>1. u \in ToSet(SuccessorsIn(next, x))
    BY <1>9 DEF LookedAt
  <2>2. ASSUME NEW i \in DOMAIN frames, frames[i].vertex = x
        PROVE  \E j \in DOMAIN SuccessorsIn(next, x) :
                  j < frames[i].idx /\ SuccessorsIn(next, x)[j] = u
    <3>1. PICK j \in DOMAIN SuccessorsIn(next, x) :
             j < fs[i].idx /\ SuccessorsIn(next, x)[j] = u
      BY <1>1, <1>8, <1>9, <2>2 DEF LookedAt, Caller
    <3>2. CASE i \in 1..(n - 1)
      BY <1>7, <3>1, <3>2
    <3>3. CASE i = n
      <4>1. x = v /\ frames[i].idx = k /\ fs[i].idx = k + 1
        BY <1>1, <1>6, <1>7, <2>2, <3>3
      <4>2. j # k
        BY <1>2, <1>9, <3>1, <4>1 DEF Successors
      <4>3. j \in Nat
        BY <1>3, <4>1 DEF Successors
      <4>4. j < k
        BY <1>2, <3>1, <4>1, <4>2, <4>3
      <4> QED
        BY <3>1, <4>1, <4>4
    <3> QED
      BY <1>1, <2>2, <3>2, <3>3
  <2> QED
    BY <2>1, <2>2 DEF Looked, LookedAt
<1>10. Further(fs, w)
  BY <1>1, <1>2, <1>4, <1>7, <1>8, <1>9 DEF Further, F
<1>11. Reaches(v, w)
  BY <1>4, ReachingEdge DEF Reaches, Successors, Searching, Numbers
<1> QED
  BY <1>3, <1>4, <1>10, <1>11 DEF fs

\* A file that is visited for the first time gets the next number, and is above
\* what is on the call stack.
Pushed(w, callers) ==
    /\ Push(w, callers) /\ Further(callers, w)
    /\ w \in Files \ Visited
    /\ frames = <<>> => tarjan = <<>>
    /\ next' = next

LEMMA PushFacts ==
    ASSUME Searching, NEW w, NEW callers, Pushed(w, callers)
    PROVE  /\ Visited' = Visited \cup {w} /\ w \notin Visited /\ Visited' \subseteq Files
           /\ indices'[w] = Cardinality(Visited) /\ lowlink'[w] = indices'[w]
           /\ \A v \in Visited : indices'[v] = indices[v] /\ lowlink'[v] = lowlink[v]
           /\ \A v \in Visited : indices'[v] < indices'[w]
           /\ tarjan' = Append(tarjan, w) /\ Held' = Held \cup {w}
           /\ components' = components
           /\ frames' \in Seq([vertex : Visited \cup {w}, idx : Nat \ {0}])
           /\ Len(frames') = Len(frames) + 1
           /\ \A i \in 1..Len(frames) : Caller(i)' = Caller(i)
           /\ frames'[Len(frames) + 1].vertex = w
           /\ \A v, u : Looked(v, u)' => \/ v # w /\ Looked(v, u)
                                         \/ /\ Len(frames) > 0
                                            /\ v = Caller(Len(frames)) /\ u = w
<1> DEFINE n == Len(frames)
           F == [vertex : Visited, idx : Nat \ {0}]
           G == [vertex : Visited \cup {w}, idx : Nat \ {0}]
           new == [vertex |-> w, idx |-> 1]
<1>1. /\ callers \in Seq(F) /\ Len(callers) = n /\ \A i \in 1..n : callers[i].vertex = Caller(i)
      /\ frames' = Append(callers, new) /\ n \in Nat
  BY CallStack DEF Pushed, Push, Further
<1>2. new \in G /\ F \subseteq G /\ new.vertex = w /\ new.idx = 1
  OBVIOUS
<1> HIDE DEF F, G, new
<1>3. callers \in Seq(G)
  BY <1>1, <1>2
<1>4. /\ frames' \in Seq(G) /\ Len(frames') = n + 1 /\ DOMAIN frames' = 1..(n + 1)
      /\ frames'[n + 1] = new /\ \A i \in 1..n : frames'[i] = callers[i]
  <2>1. G \cup {new} = G
    BY <1>2
  <2> QED
    BY <1>1, <1>3, <2>1, Appended
<1>5. /\ \A i \in 1..n : Caller(i)' = Caller(i)
      /\ frames'[n + 1].vertex = w
  BY <1>1, <1>2, <1>4 DEF Caller
<1>6. /\ Visited' = Visited \cup {w} /\ w \in Files /\ w \notin Visited
      /\ indices'[w] = Cardinality(Visited) /\ lowlink'[w] = Cardinality(Visited)
      /\ \A v \in Visited : indices'[v] = indices[v] /\ lowlink'[v] = lowlink[v]
      /\ tarjan' = Append(tarjan, w) /\ components' = components /\ next' = next
  <2> DEFINE index == Cardinality(Visited)
  <2>1. /\ indices' = [v \in Visited \cup {w} |-> IF v = w THEN index ELSE indices[v]]
        /\ lowlink' = [v \in Visited \cup {w} |-> IF v = w THEN index ELSE lowlink[v]]
        /\ tarjan' = Append(tarjan, w) /\ components' = components /\ next' = next
        /\ w \in Files \ Visited
    BY DEF Pushed, Push
  <2>2. Visited' = Visited \cup {w}
    BY <2>1 DEF Visited
  <2> HIDE DEF index
  <2>3. indices'[w] = index /\ lowlink'[w] = index
    BY <2>1
  <2>4. \A v \in Visited : indices'[v] = indices[v] /\ lowlink'[v] = lowlink[v]
    BY <2>1
  <2> QED
    BY <2>1, <2>2, <2>3, <2>4 DEF index
<1>7. \A v \in Visited : indices'[v] < indices'[w]
  BY <1>6 DEF Searching, Numbers
<1>8. Held' = Held \cup {w}
  <2>1. tarjan \in Seq(Visited)
    BY DEF Searching, Stacks
  <2>2. ToSet(Append(tarjan, w)) = ToSet(tarjan) \cup {w}
    BY <2>1, AppendedSet
  <2> QED
    BY <1>6, <2>2 DEF Held
<1>9. Visited' \subseteq Files
  BY <1>6 DEF Searching, Numbers
<1>10. ASSUME NEW v, NEW u, Looked(v, u)'
       PROVE  \/ v # w /\ Looked(v, u)
              \/ n > 0 /\ v = Caller(n) /\ u = w
  <2>1. LookedAt(next, frames', v, u)
    BY <1>6, <1>10 DEF Looked
  <2>2. v # w
    <3> SUFFICES ASSUME v = w PROVE FALSE
      OBVIOUS
    <3>1. PICK k \in DOMAIN SuccessorsIn(next, v) : k < 1
      BY <1>1, <1>2, <1>4, <2>1 DEF LookedAt
    <3>2. k \in Nat /\ k >= 1
      BY GraphFiles, SequenceSet DEF Searching, Numbers
    <3> QED
      BY <3>1, <3>2
  <2>3. LookedAt(next, callers, v, u)
    <3>1. DOMAIN callers = 1..n
      BY <1>1, LenProperties
    <3> QED
      BY <1>1, <1>4, <2>1, <3>1 DEF LookedAt
  <2> QED
    BY <2>2, <2>3 DEF Pushed, Further
<1> QED
  BY <1>4, <1>5, <1>6, <1>7, <1>8, <1>9, <1>10 DEF G

LEMMA PushKeepsNumbers ==
    ASSUME Searching, NEW w, NEW callers, Pushed(w, callers)
    PROVE  Numbers'
<1>1. /\ Visited' = Visited \cup {w} /\ w \notin Visited /\ Visited' \subseteq Files
      /\ indices'[w] = Cardinality(Visited) /\ lowlink'[w] = indices'[w]
      /\ \A v \in Visited : indices'[v] = indices[v] /\ lowlink'[v] = lowlink[v]
      /\ \A v \in Visited : indices'[v] < indices'[w]
  BY PushFacts
<1>2. next \in Graphs /\ Visited \subseteq Files /\ next' = next
  BY DEF Searching, Numbers, Pushed
<1>3. IsFiniteSet(Visited)
  BY <1>2, GraphFiles, FS_Subset DEF Files
<1>4. /\ Cardinality(Visited) \in Nat
      /\ Cardinality(Visited \cup {w}) = Cardinality(Visited) + 1
  BY <1>1, <1>3, FS_AddElement, FS_CardinalityType
<1>5. /\ indices' = [v \in Visited' |-> indices'[v]]
      /\ lowlink' = [v \in Visited' |-> lowlink'[v]]
  BY <1>1 DEF Pushed, Push
<1>6. /\ \A v \in Visited : indices[v] \in Nat /\ lowlink[v] \in Nat
      /\ \A v \in Visited : indices[v] < Cardinality(Visited) /\ lowlink[v] <= indices[v]
      /\ \A v, u \in Visited : indices[v] = indices[u] => v = u
  BY DEF Searching, Numbers
<1>7. ASSUME NEW v \in Visited'
      PROVE  /\ indices'[v] \in Nat /\ lowlink'[v] \in Nat
             /\ indices'[v] < Cardinality(Visited') /\ lowlink'[v] <= indices'[v]
  <2>1. CASE v \in Visited
    BY <1>1, <1>4, <1>6, <2>1
  <2>2. CASE v = w
    BY <1>1, <1>4, <2>2
  <2> QED
    BY <1>1, <2>1, <2>2
<1>8. ASSUME NEW v \in Visited', NEW u \in Visited', indices'[v] = indices'[u]
      PROVE  v = u
  <2>1. CASE v \in Visited /\ u \in Visited
    BY <1>1, <1>6, <1>8, <2>1
  <2>2. CASE v = w \/ u = w
    <3>1. \A x \in Visited : indices'[x] # indices'[w]
      BY <1>1, <1>4, <1>6
    <3> QED
      BY <1>1, <1>8, <2>2, <3>1
  <2> QED
    BY <1>1, <2>1, <2>2
<1>9. /\ indices' \in [Visited' -> Nat] /\ lowlink' \in [Visited' -> Nat]
  BY <1>5, <1>7
<1>10. next' \in Graphs /\ Visited' \subseteq Files'
  BY <1>1, <1>2 DEF Files
<1> QED
  BY <1>7, <1>8, <1>9, <1>10 DEF Numbers

LEMMA PushKeepsStacks ==
    ASSUME Searching, NEW w, NEW callers, Pushed(w, callers)
    PROVE  Stacks'
<1> DEFINE n == Len(frames)
           m == Len(tarjan)
<1>1. /\ Visited' = Visited \cup {w} /\ w \notin Visited
      /\ \A v \in Visited : indices'[v] = indices[v] /\ indices'[v] < indices'[w]
      /\ tarjan' = Append(tarjan, w) /\ Held' = Held \cup {w}
      /\ frames' \in Seq([vertex : Visited \cup {w}, idx : Nat \ {0}])
      /\ Len(frames') = n + 1
      /\ \A i \in 1..n : Caller(i)' = Caller(i)
      /\ frames'[n + 1].vertex = w
  BY PushFacts
<1>2. /\ tarjan \in Seq(Visited) /\ m \in Nat /\ DOMAIN tarjan = 1..m
      /\ \A i \in 1..m : tarjan[i] \in Visited
      /\ \A i, j \in DOMAIN tarjan : i < j => indices[tarjan[i]] < indices[tarjan[j]]
      /\ \A i, j \in DOMAIN frames : i < j => indices[Caller(i)] < indices[Caller(j)]
      /\ tarjan # <<>> => frames # <<>> /\ Caller(1) = tarjan[1]
  BY LenProperties, ElementOfSeq DEF Searching, Stacks
<1>3. /\ n \in Nat /\ DOMAIN frames = 1..n /\ (frames = <<>> <=> n = 0)
      /\ \A i \in 1..n : Caller(i) \in Visited /\ Caller(i) \in Held
  BY CallStack
<1>4. /\ tarjan' \in Seq(Visited') /\ DOMAIN tarjan' = 1..(m + 1)
      /\ tarjan'[m + 1] = w /\ \A i \in 1..m : tarjan'[i] = tarjan[i]
  BY <1>1, <1>2, Appended
<1>5. DOMAIN frames' = 1..(n + 1)
  BY <1>1, LenProperties
<1>6. ASSUME NEW i \in DOMAIN tarjan', NEW j \in DOMAIN tarjan', i < j
      PROVE  indices'[tarjan'[i]] < indices'[tarjan'[j]]
  <2>1. i \in 1..m /\ (j \in 1..m \/ j = m + 1)
    BY <1>2, <1>4, <1>6
  <2>2. CASE j \in 1..m
    BY <1>1, <1>2, <1>4, <1>6, <2>1, <2>2
  <2>3. CASE j = m + 1
    BY <1>1, <1>2, <1>4, <2>1, <2>3
  <2> QED
    BY <2>1, <2>2, <2>3
<1>7. ASSUME NEW i \in DOMAIN frames', NEW j \in DOMAIN frames', i < j
      PROVE  indices'[Caller(i)'] < indices'[Caller(j)']
  <2>1. i \in 1..n /\ (j \in 1..n \/ j = n + 1)
    BY <1>3, <1>5, <1>7
  <2>2. CASE j \in 1..n
    BY <1>1, <1>2, <1>3, <1>7, <2>1, <2>2
  <2>3. CASE j = n + 1
    <3>1. Caller(j)' = w
      BY <1>1, <2>3 DEF Caller
    <3> QED
      BY <1>1, <1>3, <2>1, <3>1
  <2> QED
    BY <2>1, <2>2, <2>3
<1>8. ASSUME NEW i \in DOMAIN frames' PROVE Caller(i)' \in Held'
  <2>1. i \in 1..n \/ i = n + 1
    BY <1>3, <1>5
  <2>2. CASE i \in 1..n
    BY <1>1, <1>3, <2>2
  <2>3. CASE i = n + 1
    BY <1>1, <2>3 DEF Caller
  <2> QED
    BY <2>1, <2>2, <2>3
<1>9. frames' # <<>> /\ Caller(1)' = tarjan'[1]
  <2>1. frames' # <<>>
    BY <1>1, <1>3, EmptySeq
  <2>2. CASE n = 0
    <3>1. tarjan = <<>> /\ m = 0
      BY <1>3, <2>2, EmptySeq DEF Pushed
    <3> QED
      BY <1>1, <1>4, <2>2, <3>1 DEF Caller
  <2>3. CASE n # 0
    <3>1. 1 \in 1..n /\ Caller(1) \in Held
      BY <1>3, <2>3
    <3>2. tarjan # <<>>
      BY <3>1 DEF Held, ToSet
    <3>3. 1 \in 1..m
      BY <1>2, <3>2, EmptySeq
    <3> QED
      BY <1>1, <1>2, <1>4, <2>1, <3>1, <3>2, <3>3
  <2> QED
    BY <2>1, <2>2, <2>3
<1>10. frames' \in Seq([vertex : Visited, idx : Nat \ {0}])'
  BY <1>1
<1> QED
  BY <1>4, <1>6, <1>7, <1>8, <1>9, <1>10 DEF Stacks

LEMMA PushKeepsSplit ==
    ASSUME Searching, NEW w, NEW callers, Pushed(w, callers)
    PROVE  Split'
<1>1. /\ Visited' = Visited \cup {w} /\ w \notin Visited
      /\ Held' = Held \cup {w} /\ components' = components /\ next' = next
  BY PushFacts DEF Pushed
<1>2. Split
  BY DEF Searching
<1>3. Done' = Done
  BY <1>1 DEF Done
<1>4. components \in Seq(SUBSET Visited)
  BY <1>2 DEF Split
<1>5. components \in Seq(SUBSET (Visited \cup {w}))
  <2>1. (SUBSET Visited) \subseteq SUBSET (Visited \cup {w})
    OBVIOUS
  <2> QED
    BY <1>4, <2>1
<1>6. Held' \cap Done' = {} /\ Visited' = Held' \cup Done'
  BY <1>1, <1>2, <1>3 DEF Split
<1> QED
  BY <1>1, <1>2, <1>3, <1>5, <1>6 DEF Split

\* Who is above whom when a file is pushed.
LEMMA PushedAbove ==
    ASSUME Searching, NEW w, NEW callers, Pushed(w, callers), NEW v
    PROVE  /\ \A i \in 1..Len(frames) : Above(i, v)' => v \in Held /\ Above(i, v)
           /\ \A i : i = Len(frames) + 1 /\ Above(i, v)' => v = w
<1> DEFINE n == Len(frames)
<1>1. /\ Held' = Held \cup {w} /\ w \notin Visited
      /\ \A x \in Visited : indices'[x] = indices[x] /\ indices'[x] < indices'[w]
      /\ Len(frames') = n + 1 /\ n \in Nat
      /\ \A i \in 1..n : Caller(i)' = Caller(i) /\ Caller(i) \in Visited
      /\ frames'[n + 1].vertex = w /\ frames'[n + 1].vertex = frames'[Len(frames')].vertex
  BY PushFacts, CallStack
<1>2. Held \subseteq Visited /\ \A x \in Visited : indices[x] \in Nat
  BY DEF Searching, Split, Numbers
<1>3. indices'[w] \in Nat
  BY PushKeepsNumbers, PushFacts DEF Numbers
<1>4. ASSUME NEW i \in 1..n, Above(i, v)' PROVE v \in Held /\ Above(i, v)
  <2>1. /\ v \in Held' /\ indices'[Caller(i)] <= indices'[v]
        /\ indices'[v] < indices'[frames'[i + 1].vertex]
    BY <1>1, <1>4 DEF Above, Caller
  <2>2. i + 1 \in 1..n \/ i + 1 = n + 1
    BY <1>1
  <2>3. frames'[i + 1].vertex \in Visited \cup {w}
    BY <1>1, <2>2 DEF Caller
  <2>4. v # w
    BY <1>1, <1>2, <1>3, <2>1, <2>3
  <2>5. v \in Held /\ v \in Visited
    BY <1>1, <1>2, <2>1, <2>4
  <2>6. indices[Caller(i)] <= indices[v]
    BY <1>1, <2>1, <2>5
  <2>7. i < n => indices[v] < indices[Caller(i + 1)]
    <3> HAVE i < n
    <3>1. i + 1 \in 1..n
      BY <1>1
    <3>2. frames'[i + 1].vertex = Caller(i + 1) /\ Caller(i + 1) \in Visited
      BY <1>1, <3>1 DEF Caller
    <3> QED
      BY <1>1, <2>1, <2>5, <3>2
  <2> QED
    BY <2>5, <2>6, <2>7 DEF Above
<1>5. ASSUME NEW i, i = n + 1, Above(i, v)' PROVE v = w
  <2>1. v \in Held' /\ indices'[w] <= indices'[v]
    BY <1>1, <1>5 DEF Above, Caller
  <2> QED
    BY <1>1, <1>2, <1>3, <2>1
<1> QED
  BY <1>4, <1>5

LEMMA PushKeepsConnected ==
    ASSUME Searching, NEW w, NEW callers, Pushed(w, callers)
    PROVE  Connected'
<1> DEFINE n == Len(frames)
<1>1. /\ Held' = Held \cup {w} /\ w \notin Visited
      /\ \A x \in Visited : indices'[x] = indices[x] /\ indices'[x] < indices'[w]
      /\ Len(frames') = n + 1 /\ n \in Nat
      /\ \A i \in 1..n : Caller(i)' = Caller(i) /\ Caller(i) \in Visited /\ Caller(i) \in Held
      /\ frames'[n + 1].vertex = w /\ w \in Files /\ next' = next
  BY PushFacts, CallStack DEF Pushed
<1>2. Held \subseteq Visited /\ (\A x \in Visited : indices[x] \in Nat) /\ next \in Graphs
  BY DEF Searching, Split, Numbers
<1>3. indices'[w] \in Nat
  BY PushKeepsNumbers, PushFacts DEF Numbers
<1>4. DOMAIN frames' = 1..(n + 1)
  <2>1. frames' \in Seq([vertex : Visited \cup {w}, idx : Nat \ {0}])
    BY PushFacts
  <2> QED
    BY <1>1, <2>1, LenProperties
<1>5. \A x, y : Reaches(x, y)' = Reaches(x, y)
  BY <1>1 DEF Reaches
<1>6. Reaches(w, w)
  BY <1>1, Reaching DEF Reaches, Files
<1>7. ASSUME NEW i \in 1..n PROVE Reaches(Caller(i), w)
  <2>1. n \in 1..n /\ DOMAIN frames = 1..n
    <3>1. n \in Nat /\ i \in 1..n
      BY <1>1
    <3>2. n \in 1..n
      BY ONLY <3>1
    <3> QED
      BY <3>2, CallStack
  <2>2. indices[Caller(i)] <= indices[Caller(n)]
    <3>1. i < n => indices[Caller(i)] < indices[Caller(n)]
      BY <2>1 DEF Searching, Stacks
    <3>2. indices[Caller(i)] \in Nat /\ indices[Caller(n)] \in Nat
      BY <1>1, <1>2, <2>1
    <3>3. i < n \/ i = n
      BY <1>1
    <3> QED
      BY <3>1, <3>2, <3>3
  <2>3. Reaches(Caller(i), Caller(n))
    BY <1>1, <2>1, <2>2 DEF Searching, Connected
  <2>4. w \in ToSet(Successors(Caller(n)))
    BY <1>1, <2>1 DEF Pushed, Further
  <2>5. Reaches(Caller(n), w)
    BY <1>2, <2>4, ReachingEdge DEF Reaches, Successors
  <2> QED
    BY <2>3, <2>5, Reaching DEF Reaches
<1>8. ASSUME NEW i \in DOMAIN frames', NEW v \in Held',
             indices'[Caller(i)'] <= indices'[v]
      PROVE  Reaches(Caller(i)', v)
  <2>1. CASE i \in 1..n /\ v = w
    BY <1>1, <1>7, <2>1
  <2>2. CASE i \in 1..n /\ v # w
    <3>1. v \in Held /\ indices[Caller(i)] <= indices[v]
      BY <1>1, <1>2, <1>8, <2>2
    <3>2. i \in DOMAIN frames
      BY <2>2, CallStack
    <3>3. Reaches(Caller(i), v)
      BY <3>1, <3>2 DEF Searching, Connected
    <3> QED
      BY <1>1, <2>2, <3>3
  <2>3. CASE i = n + 1
    <3>1. Caller(i)' = w
      BY <1>1, <2>3 DEF Caller
    <3>2. v = w
      BY <1>1, <1>2, <1>3, <1>8, <3>1
    <3> QED
      BY <1>6, <3>1, <3>2
  <2> QED
    BY <1>1, <1>4, <2>1, <2>2, <2>3
<1>9. ASSUME NEW i \in DOMAIN frames', NEW v \in Held', Above(i, v)'
      PROVE  Reaches(v, Caller(i)')
  <2>1. CASE i \in 1..n
    <3>1. v \in Held /\ Above(i, v)
      BY <1>9, <2>1, PushedAbove
    <3>2. i \in DOMAIN frames
      BY <2>1, CallStack
    <3>3. Reaches(v, Caller(i))
      BY <3>1, <3>2 DEF Searching, Connected
    <3> QED
      BY <1>1, <2>1, <3>3
  <2>2. CASE i = n + 1
    <3>1. Caller(i)' = w
      BY <1>1, <2>2 DEF Caller
    <3>2. v = w
      BY <1>9, <2>2, PushedAbove
    <3> QED
      BY <1>6, <3>1, <3>2
  <2> QED
    BY <1>1, <1>4, <2>1, <2>2
<1> QED
  BY <1>5, <1>8, <1>9 DEF Connected

LEMMA PushKeepsLinked ==
    ASSUME Searching, NEW w, NEW callers, Pushed(w, callers)
    PROVE  Linked'
<1> DEFINE n == Len(frames)
<1>1. /\ Held' = Held \cup {w} /\ w \notin Visited /\ Visited' = Visited \cup {w}
      /\ \A x \in Visited : indices'[x] = indices[x] /\ indices'[x] < indices'[w]
      /\ \A x \in Visited : lowlink'[x] = lowlink[x]
      /\ lowlink'[w] = indices'[w]
      /\ Len(frames') = n + 1 /\ n \in Nat
      /\ \A i \in 1..n : Caller(i)' = Caller(i) /\ Caller(i) \in Visited
      /\ frames'[n + 1].vertex = w /\ w \in Files /\ next' = next
  BY PushFacts, CallStack DEF Pushed
<1>2. /\ Held \subseteq Visited
      /\ \A x \in Visited : indices[x] \in Nat /\ lowlink[x] \in Nat /\ lowlink[x] <= indices[x]
  BY DEF Searching, Split, Numbers
<1>3. indices'[w] \in Nat
  BY PushKeepsNumbers, PushFacts DEF Numbers
<1>4. DOMAIN frames' = 1..(n + 1) /\ DOMAIN frames = 1..n
  <2>1. frames' \in Seq([vertex : Visited \cup {w}, idx : Nat \ {0}])
    BY PushFacts
  <2>2. DOMAIN frames = 1..n
    BY CallStack
  <2>3. DOMAIN frames' = 1..(n + 1)
    BY <1>1, <2>1, LenProperties
  <2> QED
    BY <2>2, <2>3
<1>5. \A x, y : Reaches(x, y)' = Reaches(x, y)
  BY <1>1 DEF Reaches
<1>6. \A v, u : Looked(v, u)' => \/ v # w /\ Looked(v, u)
                                 \/ n > 0 /\ v = Caller(n) /\ u = w
  BY PushFacts
<1>7. ASSUME NEW v \in Visited', NEW u, Looked(v, u)' PROVE u \in Visited'
  BY <1>1, <1>6, <1>7 DEF Searching, Linked
<1>8. ASSUME NEW i \in DOMAIN frames'
      PROVE  \E v \in Held' : lowlink'[Caller(i)'] = indices'[v] /\ Reaches(Caller(i)', v)
  <2>1. CASE i \in 1..n
    <3>1. PICK v \in Held : lowlink[Caller(i)] = indices[v] /\ Reaches(Caller(i), v)
      BY <1>4, <2>1 DEF Searching, Linked
    <3> QED
      BY <1>1, <1>2, <2>1, <3>1
  <2>2. CASE i = n + 1
    <3>1. Caller(i)' = w
      BY <1>1, <2>2 DEF Caller
    <3>2. Reaches(w, w)
      BY <1>1, Reaching DEF Reaches, Files
    <3> QED
      BY <1>1, <3>1, <3>2
  <2> QED
    BY <1>1, <1>4, <2>1, <2>2
<1>9. ASSUME NEW i \in DOMAIN frames', NEW v \in Held', NEW u \in Held',
             Above(i, v)', Looked(v, u)'
      PROVE  lowlink'[Caller(i)'] <= indices'[u]
  <2>1. CASE i \in 1..n
    <3>1. v \in Held /\ Above(i, v) /\ v \in Visited
      BY <1>2, <1>9, <2>1, PushedAbove
    <3>2. CASE u = w
      <4>1. Caller(i)' = Caller(i) /\ Caller(i) \in Visited
        BY <1>1, <2>1
      <4> DEFINE c == Caller(i)
      <4>2. /\ lowlink'[c] = lowlink[c] /\ lowlink[c] <= indices[c]
            /\ indices'[c] = indices[c] /\ indices'[c] < indices'[w]
            /\ lowlink[c] \in Nat /\ indices[c] \in Nat
        BY <1>1, <1>2, <4>1
      <4> HIDE DEF c
      <4>3. lowlink'[c] <= indices'[w]
        BY <1>3, <4>2
      <4> QED
        BY <3>2, <4>1, <4>3 DEF c
    <3>3. CASE u # w
      <4>1. u \in Held /\ Looked(v, u)
        BY <1>1, <1>6, <1>9, <3>3
      <4>2. lowlink[Caller(i)] <= indices[u]
        BY <1>4, <2>1, <3>1, <4>1 DEF Searching, Linked
      <4> QED
        BY <1>1, <1>2, <2>1, <4>1, <4>2
    <3> QED
      BY <3>2, <3>3
  <2>2. CASE i = n + 1
    <3>1. v = w
      BY <1>9, <2>2, PushedAbove
    <3>2. n > 0 /\ w = Caller(n)
      BY <1>6, <1>9, <3>1
    <3>3. Caller(n) \in Visited
      BY <1>1, <3>2
    <3> QED
      BY <1>1, <3>2, <3>3
  <2> QED
    BY <1>1, <1>4, <2>1, <2>2
<1> QED
  BY <1>5, <1>7, <1>8, <1>9 DEF Linked

LEMMA PushKeepsSearching ==
    ASSUME Searching, NEW w, NEW callers, Pushed(w, callers)
    PROVE  Searching'
BY PushKeepsNumbers, PushKeepsStacks, PushKeepsSplit, PushKeepsConnected,
   PushKeepsLinked DEF Searching

-----------------------------------------------------------------------------
(* A neighbour that has been visited.                                      *)

LEMMA LesserOfTwo ==
    ASSUME NEW a \in Nat, NEW b \in Nat
    PROVE  /\ Min({a, b}) \in {a, b} /\ Min({a, b}) \in Nat
           /\ Min({a, b}) <= a /\ Min({a, b}) <= b
<1>1. \E x \in {a, b} : \A y \in {a, b} : x <= y
  OBVIOUS
<1>2. /\ Min({a, b}) \in {a, b}
      /\ \A y \in {a, b} : Min({a, b}) <= y
  BY <1>1 DEF Min
<1> QED
  BY <1>2

\* The link of the last file may become the number of a file it reaches; the
\* rest stays, but one more neighbour of it has been looked at.
Relinked(w, top) ==
    /\ frames # <<>> /\ top = Caller(Len(frames))
    /\ Further(frames', w) /\ w \in Visited /\ Reaches(top, w)
    /\ lowlink' \in [Visited -> Nat]
    /\ \A x \in Visited : lowlink'[x] <= lowlink[x]
    /\ \A x \in Visited : lowlink'[x] = lowlink[x]
                          \/ (w \in Held /\ x = top /\ lowlink'[x] = indices[w])
    /\ w \in Held => lowlink'[top] <= indices[w]
    /\ UNCHANGED <<next, indices, tarjan, components>>

LEMMA VisitedNeighbour ==
    ASSUME Searching, LookAtNeighbour,
           Successors(Top.vertex)[Top.idx] \in Visited
    PROVE  Relinked(Successors(Top.vertex)[Top.idx], Top.vertex)
<1> DEFINE w == Successors(Top.vertex)[Top.idx]
           v == Top.vertex
           m == Min({lowlink[v], indices[w]})
<1>1. /\ w \in Visited /\ frames' = Advance
      /\ lowlink' = IF OnStack(w)
                    THEN [lowlink EXCEPT ![v] = Min({@, indices[w]})]
                    ELSE lowlink
      /\ UNCHANGED <<next, indices, tarjan, components>>
      /\ frames # <<>> /\ Top.idx <= Len(Successors(Top.vertex))
  BY DEF LookAtNeighbour, graphVars
<1>2. Further(frames', w) /\ Reaches(v, w)
  BY <1>1, AdvanceIsFurther
<1>3. v = Caller(Len(frames)) /\ v \in Visited
  <2>1. Len(frames) \in 1..Len(frames)
    BY <1>1, CallStack
  <2> QED
    BY <1>1, <2>1, CallStack DEF Caller
<1>4. /\ lowlink \in [Visited -> Nat] /\ indices \in [Visited -> Nat]
      /\ lowlink[v] \in Nat /\ indices[w] \in Nat
  BY <1>1, <1>3 DEF Searching, Numbers
<1>5. m \in {lowlink[v], indices[w]} /\ m \in Nat /\ m <= lowlink[v] /\ m <= indices[w]
  BY <1>4, LesserOfTwo
<1>6. OnStack(w) = (w \in Held)
  BY DEF OnStack, Held
<1>7. lowlink' = IF w \in Held THEN [lowlink EXCEPT ![v] = m] ELSE lowlink
  BY <1>1, <1>6
<1> HIDE DEF m, w, v
<1>8. CASE w \in Held
  <2>1. /\ lowlink' \in [Visited -> Nat] /\ lowlink'[v] = m
        /\ \A x \in Visited : x # v => lowlink'[x] = lowlink[x]
    BY <1>3, <1>4, <1>5, <1>7, <1>8
  <2>2. \A x \in Visited : lowlink[x] \in Nat
    BY <1>4
  <2>3. \A x \in Visited : lowlink'[x] <= lowlink[x]
    BY <1>5, <2>1, <2>2
  <2>4. \A x \in Visited : lowlink'[x] = lowlink[x]
                           \/ (w \in Held /\ x = v /\ lowlink'[x] = indices[w])
    BY <1>5, <1>8, <2>1
  <2> QED
    BY <1>1, <1>2, <1>3, <1>5, <2>1, <2>3, <2>4 DEF Relinked, w, v
<1>9. CASE w \notin Held
  <2>1. lowlink' = lowlink
    BY <1>7, <1>9
  <2>2. \A x \in Visited : lowlink'[x] <= lowlink[x]
    BY <1>4, <2>1
  <2> QED
    BY <1>1, <1>2, <1>3, <1>4, <1>9, <2>1, <2>2 DEF Relinked, w, v
<1> QED
  BY <1>8, <1>9

\* What a link does not touch.
LEMMA RelinkedFacts ==
    ASSUME Searching, NEW w, NEW top, Relinked(w, top)
    PROVE  /\ Visited' = Visited /\ Held' = Held /\ Done' = Done
           /\ \A x, y : Reaches(x, y)' = Reaches(x, y)
           /\ DOMAIN frames' = 1..Len(frames) /\ Len(frames') = Len(frames)
           /\ \A i \in 1..Len(frames) : Caller(i)' = Caller(i)
           /\ \A v : \A i \in 1..Len(frames) : Above(i, v)' => Above(i, v)
           /\ \A v, u : Looked(v, u)' => Looked(v, u) \/ (v = top /\ u = w)
<1> DEFINE n == Len(frames)
<1>1. /\ Visited' = Visited /\ Held' = Held /\ Done' = Done
      /\ \A x, y : Reaches(x, y)' = Reaches(x, y)
  BY DEF Relinked, Visited, Held, Done, Reaches
<1>2. /\ n \in Nat /\ Len(frames') = n /\ DOMAIN frames' = 1..n
      /\ \A i \in 1..n : Caller(i)' = Caller(i)
  <2>1. n \in Nat
    BY CallStack
  <2>2. /\ frames' \in Seq([vertex : Visited, idx : Nat \ {0}]) /\ Len(frames') = n
        /\ \A i \in 1..n : frames'[i].vertex = Caller(i)
    BY DEF Relinked, Further
  <2> QED
    BY <2>1, <2>2, LenProperties DEF Caller
<1>3. ASSUME NEW i \in 1..n, NEW v, Above(i, v)' PROVE Above(i, v)
  <2>1. i < n => i + 1 \in 1..n
    BY <1>2
  <2>2. i < n => frames'[i + 1].vertex = Caller(i + 1)
    BY <1>2, <2>1 DEF Caller
  <2>3. indices' = indices
    BY DEF Relinked
  <2>4. i < n => Caller(i + 1)' = frames'[i + 1].vertex
    BY DEF Caller
  <2> QED
    BY <1>1, <1>2, <1>3, <2>2, <2>3, <2>4 DEF Above
<1>4. \A v, u : Looked(v, u)' => Looked(v, u) \/ (v = top /\ u = w)
  BY DEF Relinked, Further, Looked
<1> QED
  BY <1>1, <1>2, <1>3, <1>4

\* Only the last frame has the last file below it and above it.
LEMMA AboveTop ==
    ASSUME Searching, NEW i \in 1..Len(frames), Above(i, Caller(Len(frames)))
    PROVE  i = Len(frames)
<1> DEFINE n == Len(frames)
<1>1. n \in Nat /\ n \in 1..n /\ DOMAIN frames = 1..n
  <2>1. n \in Nat /\ i \in 1..n /\ DOMAIN frames = 1..n
    BY CallStack
  <2>2. n \in 1..n
    <3>1. n \in Nat /\ i \in 1..n
      BY <2>1
    <3> QED
      BY ONLY <3>1
  <2> QED
    BY <2>1, <2>2
<1>2. \A j \in 1..n : indices[Caller(j)] \in Nat
  BY CallStack DEF Searching, Numbers
<1>3. SUFFICES ASSUME i < n PROVE FALSE
  <2>1. n \in Nat /\ i \in 1..n
    BY <1>1
  <2>2. ~(i < n) => i = n
    BY ONLY <2>1
  <2> QED
    BY <2>2
<1>4. i + 1 \in 1..n /\ indices[Caller(n)] < indices[Caller(i + 1)]
  BY <1>1, <1>3 DEF Above
<1>5. i + 1 < n => indices[Caller(i + 1)] < indices[Caller(n)]
  BY <1>1, <1>4 DEF Searching, Stacks
<1>6. i + 1 < n \/ i + 1 = n
  <2>1. n \in Nat /\ i \in 1..n /\ i < n
    BY <1>1, <1>3
  <2> QED
    BY ONLY <2>1
<1>7. CASE i + 1 = n
  BY <1>1, <1>2, <1>4, <1>7
<1>8. CASE i + 1 < n
  BY <1>1, <1>2, <1>4, <1>5, <1>8
<1> QED
  BY <1>6, <1>7, <1>8

LEMMA RelinkedKeepsLinked ==
    ASSUME Searching, NEW w, NEW top, Relinked(w, top)
    PROVE  Linked'
<1> DEFINE n == Len(frames)
<1>1. /\ Visited' = Visited /\ Held' = Held
      /\ \A x, y : Reaches(x, y)' = Reaches(x, y)
      /\ DOMAIN frames' = 1..n
      /\ \A i \in 1..n : Caller(i)' = Caller(i)
      /\ \A v : \A i \in 1..n : Above(i, v)' => Above(i, v)
      /\ \A v, u : Looked(v, u)' => Looked(v, u) \/ (v = top /\ u = w)
  BY RelinkedFacts
<1>2. /\ w \in Visited /\ Reaches(top, w) /\ indices' = indices /\ top = Caller(n)
      /\ \A x \in Visited : lowlink'[x] \in Nat /\ lowlink'[x] <= lowlink[x]
      /\ \A x \in Visited : lowlink'[x] = lowlink[x]
                            \/ (w \in Held /\ x = top /\ lowlink'[x] = indices[w])
      /\ w \in Held => lowlink'[top] <= indices[w]
  BY DEF Relinked
<1>3. /\ \A x \in Visited : lowlink[x] \in Nat /\ indices[x] \in Nat
      /\ Held \subseteq Visited
      /\ DOMAIN frames = 1..n /\ \A i \in 1..n : Caller(i) \in Visited
  BY CallStack DEF Searching, Numbers, Split
<1>4. \A v \in Visited' : \A u : Looked(v, u)' => u \in Visited'
  BY <1>1, <1>2 DEF Searching, Linked
<1>5. ASSUME NEW i \in 1..n
      PROVE  \E z \in Held : lowlink'[Caller(i)] = indices[z] /\ Reaches(Caller(i), z)
  <2>1. CASE lowlink'[Caller(i)] = lowlink[Caller(i)]
    <3>1. PICK z \in Held : lowlink[Caller(i)] = indices[z] /\ Reaches(Caller(i), z)
      BY <1>3 DEF Searching, Linked
    <3> QED
      BY <2>1, <3>1
  <2>2. CASE w \in Held /\ Caller(i) = top /\ lowlink'[Caller(i)] = indices[w]
    BY <1>2, <2>2
  <2> QED
    BY <1>2, <1>3, <2>1, <2>2
<1>6. ASSUME NEW i \in 1..n, NEW v \in Held, NEW u \in Held, Above(i, v)', Looked(v, u)'
      PROVE  lowlink'[Caller(i)] <= indices[u]
  <2>1. Above(i, v) /\ (Looked(v, u) \/ (v = top /\ u = w))
    BY <1>1, <1>6
  <2>2. CASE Looked(v, u)
    <3>1. lowlink[Caller(i)] <= indices[u]
      BY <1>3, <2>1, <2>2 DEF Searching, Linked
    <3> QED
      BY <1>2, <1>3, <3>1
  <2>3. CASE v = top /\ u = w
    <3>1. i = n
      BY <1>2, <2>1, <2>3, AboveTop
    <3> QED
      BY <1>2, <2>3, <3>1
  <2> QED
    BY <2>1, <2>2, <2>3
<1> QED
  BY <1>1, <1>2, <1>4, <1>5, <1>6 DEF Linked

LEMMA RelinkedKeepsSearching ==
    ASSUME Searching, NEW w, NEW top, Relinked(w, top)
    PROVE  Searching'
<1> DEFINE n == Len(frames)
<1>1. /\ Visited' = Visited /\ Held' = Held /\ Done' = Done
      /\ \A x, y : Reaches(x, y)' = Reaches(x, y)
      /\ DOMAIN frames' = 1..n /\ Len(frames') = n
      /\ \A i \in 1..n : Caller(i)' = Caller(i)
      /\ \A v : \A i \in 1..n : Above(i, v)' => Above(i, v)
  BY RelinkedFacts
<1>2. /\ next' = next /\ indices' = indices /\ tarjan' = tarjan /\ components' = components
      /\ lowlink' \in [Visited -> Nat] /\ \A x \in Visited : lowlink'[x] <= lowlink[x]
      /\ frames' \in Seq([vertex : Visited, idx : Nat \ {0}])
      /\ frames # <<>>
  BY DEF Relinked, Further
<1>3. n \in Nat /\ DOMAIN frames = 1..n /\ n >= 1
  BY <1>2, CallStack
<1>4. Numbers'
  <2>1. Numbers
    BY DEF Searching
  <2>2. \A x \in Visited : lowlink'[x] <= indices[x]
    BY <1>2, <2>1 DEF Numbers
  <2> QED
    BY <1>1, <1>2, <2>1, <2>2 DEF Numbers, Files
<1>5. Stacks'
  <2>1. Stacks
    BY DEF Searching
  <2>2. frames' # <<>>
    BY <1>1, <1>3, EmptySeq
  <2>3. 1 \in 1..n
    BY <1>3
  <2>4. tarjan' # <<>> => frames' # <<>> /\ Caller(1)' = tarjan'[1]
    BY <1>1, <1>2, <2>1, <2>2, <2>3 DEF Stacks
  <2>5. /\ \A i, j \in DOMAIN tarjan' : i < j => indices'[tarjan'[i]] < indices'[tarjan'[j]]
        /\ \A i, j \in DOMAIN frames' : i < j => indices'[Caller(i)'] < indices'[Caller(j)']
        /\ \A i \in DOMAIN frames' : Caller(i)' \in Held'
    BY <1>1, <1>2, <1>3, <2>1 DEF Stacks
  <2> QED
    BY <1>1, <1>2, <2>1, <2>4, <2>5 DEF Stacks
<1>6. Split'
  BY <1>1, <1>2 DEF Searching, Split
<1>7. Connected'
  BY <1>1, <1>2, <1>3 DEF Searching, Connected
<1>8. Linked'
  BY RelinkedKeepsLinked
<1> QED
  BY <1>4, <1>5, <1>6, <1>7, <1>8 DEF Searching

-----------------------------------------------------------------------------
(* A file whose neighbours are done.                                       *)

LEMMA GreatestNumber ==
    ASSUME NEW n \in Nat, NEW S \in SUBSET (1..n), S # {}
    PROVE  \E k \in S : \A j \in S : j <= k
<1> DEFINE T == {n - j : j \in S}
<1>1. T \in SUBSET Nat /\ T # {}
  <2>1. \A j \in S : n - j \in Nat
    OBVIOUS
  <2> QED
    BY <2>1
<1>2. PICK m \in T : \A k \in T : m <= k
  BY <1>1, LeastNumber
<1>3. PICK k \in S : m = n - k
  BY <1>2
<1>4. \A j \in S : m <= n - j
  BY <1>2
<1>5. \A j \in S : j <= k
  BY <1>3, <1>4
<1> QED
  BY <1>5

\* Every file on the stack is above one of the frames.
LEMMA AboveSome ==
    ASSUME Searching, NEW z \in Held
    PROVE  \E j \in 1..Len(frames) : Above(j, z)
<1> DEFINE n == Len(frames)
           S == {j \in 1..n : indices[Caller(j)] <= indices[z]}
<1>1. /\ n \in Nat /\ DOMAIN frames = 1..n /\ (frames = <<>> <=> n = 0)
      /\ \A i \in 1..n : Caller(i) \in Visited
  BY CallStack
<1>2. /\ tarjan \in Seq(Visited)
      /\ \A i, j \in DOMAIN tarjan : i < j => indices[tarjan[i]] < indices[tarjan[j]]
      /\ tarjan # <<>> => frames # <<>> /\ Caller(1) = tarjan[1]
      /\ \A x \in Visited : indices[x] \in Nat
  BY DEF Searching, Stacks, Numbers
<1>3. Len(tarjan) \in Nat /\ DOMAIN tarjan = 1..Len(tarjan)
  BY <1>2, LenProperties
<1>4. PICK k \in 1..Len(tarjan) : z = tarjan[k]
  BY <1>2, SequenceSet DEF Held
<1>5. tarjan # <<>> /\ 1 \in 1..Len(tarjan)
  BY <1>2, <1>3, <1>4, EmptySeq
<1>6. 1 \in S
  <2>1. Caller(1) = tarjan[1] /\ 1 \in 1..n
    BY <1>1, <1>2, <1>5
  <2>2. k = 1 \/ 1 < k
    BY <1>3, <1>4
  <2>3. indices[tarjan[1]] <= indices[z]
    <3>1. tarjan[1] \in Visited /\ z \in Visited
      BY <1>2, <1>4, <1>5, ElementOfSeq
    <3>2. 1 < k => indices[tarjan[1]] < indices[tarjan[k]]
      BY <1>2, <1>3, <1>4, <1>5
    <3> QED
      BY <1>2, <1>4, <2>2, <3>1, <3>2
  <2> QED
    BY <2>1, <2>3
<1>7. PICK j \in S : \A i \in S : i <= j
  BY <1>1, <1>6, GreatestNumber
<1>8. j < n => indices[z] < indices[Caller(j + 1)]
  <2> HAVE j < n
  <2>1. j \in 1..n /\ j + 1 \in 1..n /\ ~(j + 1 <= j)
    BY <1>1
  <2>2. ~(indices[Caller(j + 1)] <= indices[z])
    BY <1>7, <2>1
  <2>3. z \in Visited /\ Caller(j + 1) \in Visited
    BY <1>1, <1>2, <1>4, <2>1, ElementOfSeq
  <2> QED
    BY <1>2, <2>2, <2>3
<1> QED
  BY <1>7, <1>8 DEF Above

\* What leaving a file does, whether or not it is the root of a component: its
\* frame goes, and the link of the caller may become its link.
Left(v) ==
    /\ Len(frames) \in Nat /\ Len(frames) >= 1 /\ v = Caller(Len(frames))
    /\ \A w \in ToSet(Successors(v)) : Looked(v, w)
    /\ frames' \in Seq([vertex : Visited, idx : Nat \ {0}])
    /\ Len(frames') = Len(frames) - 1
    /\ DOMAIN frames' = 1..(Len(frames) - 1)
    /\ \A i \in 1..(Len(frames) - 1) : frames'[i].vertex = Caller(i)
    /\ \A x, u : LookedAt(next, frames', x, u) => Looked(x, u)
    /\ lowlink' \in [Visited -> Nat]
    /\ \A x \in Visited : lowlink'[x] <= lowlink[x]
    /\ \A x \in Visited : \/ lowlink'[x] = lowlink[x]
                          \/ /\ Len(frames) > 1 /\ x = Caller(Len(frames) - 1)
                             /\ lowlink'[x] = lowlink[v] /\ lowlink[v] < lowlink[x]
    /\ Len(frames) > 1 => lowlink'[Caller(Len(frames) - 1)] <= lowlink[v]
    /\ UNCHANGED <<next, indices>>

LEMMA LeaveIsLeft ==
    ASSUME Searching, LeaveVertex
    PROVE  Left(Top.vertex)
<1> DEFINE n == Len(frames)
           v == Top.vertex
           c == Caller(n - 1)
           m == Min({lowlink[c], lowlink[v]})
<1>1. /\ frames # <<>> /\ Top.idx > Len(Successors(v)) /\ frames' = Callers
      /\ UNCHANGED <<next, indices>>
      /\ lowlink' = IF Callers = <<>> THEN lowlink
                    ELSE [lowlink EXCEPT ![Last(Callers).vertex] = Min({@, lowlink[v]})]
  BY DEF LeaveVertex, graphVars
<1>2. /\ n \in Nat /\ n >= 1 /\ DOMAIN frames = 1..n
      /\ \A i \in 1..n : Caller(i) \in Visited
      /\ Top = frames[n] /\ Callers \in Seq([vertex : Visited, idx : Nat \ {0}])
      /\ Len(Callers) = n - 1
      /\ \A i \in 1..(n - 1) : Callers[i] = frames[i]
  <2>1. frames # <<>> /\ Len(frames) >= 1
    BY <1>1, CallStack
  <2> QED
    BY <2>1, CallStack
<1>3. DOMAIN frames' = 1..(n - 1) /\ \A i \in 1..(n - 1) : frames'[i].vertex = Caller(i)
  BY <1>1, <1>2, LenProperties DEF Caller
<1>4. v = Caller(n) /\ v \in Visited
  BY <1>2 DEF Caller
<1>5. /\ Successors(v) \in Seq(Files) /\ Len(Successors(v)) \in Nat
      /\ DOMAIN Successors(v) = 1..Len(Successors(v))
  BY GraphFiles, SequenceSet DEF Successors, Files, Searching, Numbers
<1>6. ASSUME NEW w \in ToSet(Successors(v))
      PROVE  \E k \in DOMAIN Successors(v) : k < frames[n].idx /\ Successors(v)[k] = w
  <2>1. PICK k \in 1..Len(Successors(v)) : Successors(v)[k] = w
    BY <1>5, SequenceSet
  <2>2. frames[n].idx > Len(Successors(v)) /\ frames[n].idx \in Nat
    <3>1. n \in 1..n
      BY <1>2
    <3> QED
      BY <1>1, <1>2, <3>1, CallStack
  <2>3. k < frames[n].idx
    <3>1. k \in Nat /\ k <= Len(Successors(v)) /\ Len(Successors(v)) \in Nat
      BY <1>5
    <3> QED
      BY ONLY <2>2, <3>1
  <2> QED
    BY <1>5, <2>1, <2>3
<1>7. ASSUME NEW i \in 1..n, Caller(i) = v PROVE i = n
  <2>1. i < n => indices[Caller(i)] < indices[Caller(n)]
    <3>1. n \in DOMAIN frames /\ i \in DOMAIN frames
      BY <1>2
    <3> QED
      BY <3>1 DEF Searching, Stacks
  <2>2. indices[v] \in Nat
    BY <1>4 DEF Searching, Numbers
  <2>3. ~(i < n)
    BY <1>4, <1>7, <2>1, <2>2
  <2>4. n \in Nat /\ i \in 1..n
    BY <1>2
  <2> QED
    BY ONLY <2>3, <2>4
<1>8. ASSUME NEW w \in ToSet(Successors(v)) PROVE Looked(v, w)
  BY <1>2, <1>6, <1>7 DEF Looked, LookedAt, Caller, Successors
<1>9. ASSUME NEW x, NEW u, LookedAt(next, frames', x, u) PROVE Looked(x, u)
  <2>1. CASE x = v
    BY <1>8, <1>9, <2>1 DEF LookedAt, Successors
  <2>2. CASE x # v
    <3>1. ASSUME NEW i \in DOMAIN frames, frames[i].vertex = x
          PROVE  \E k \in DOMAIN SuccessorsIn(next, x) :
                    k < frames[i].idx /\ SuccessorsIn(next, x)[k] = u
      <4>1. i \in 1..(n - 1)
        BY <1>2, <1>4, <2>2, <3>1 DEF Caller
      <4>2. frames'[i] = frames[i] /\ i \in DOMAIN frames'
        BY <1>1, <1>2, <1>3, <4>1
      <4> QED
        BY <1>9, <3>1, <4>2 DEF LookedAt
    <3> QED
      BY <1>9, <3>1 DEF Looked, LookedAt
  <2> QED
    BY <2>1, <2>2
<1>10. lowlink \in [Visited -> Nat]
  BY DEF Searching, Numbers
<1>11. ASSUME Callers = <<>>
       PROVE  n = 1 /\ lowlink' = lowlink
  <2>1. Len(Callers) = 0 /\ Len(Callers) = n - 1 /\ n \in Nat
    BY <1>2, <1>11, EmptySeq
  <2>2. n = 1
    <3> HIDE DEF n
    <3> QED
      BY <2>1
  <2> QED
    BY <1>1, <1>11, <2>2
<1>12. ASSUME Callers # <<>>
       PROVE  /\ n > 1 /\ c \in Visited /\ lowlink' = [lowlink EXCEPT ![c] = m]
              /\ m \in {lowlink[c], lowlink[v]} /\ m \in Nat /\ m <= lowlink[c] /\ m <= lowlink[v]
  <2>1. n - 1 # 0 /\ Last(Callers) = Callers[n - 1]
    BY <1>2, <1>12, EmptySeq, FrontAndLast
  <2>2. n > 1 /\ n - 1 \in 1..(n - 1) /\ n - 1 \in 1..n
    BY <1>2, <2>1
  <2>3. Last(Callers).vertex = c /\ c \in Visited
    BY <1>2, <2>1, <2>2 DEF Caller
  <2>4. lowlink[c] \in Nat /\ lowlink[v] \in Nat
    BY <1>4, <1>10, <2>3
  <2>5. lowlink' = [lowlink EXCEPT ![c] = m]
    BY <1>1, <1>12, <2>3
  <2> QED
    BY <2>2, <2>3, <2>4, <2>5, LesserOfTwo
<1>13. /\ lowlink' \in [Visited -> Nat]
       /\ \A x \in Visited : lowlink'[x] <= lowlink[x]
       /\ \A x \in Visited : \/ lowlink'[x] = lowlink[x]
                             \/ /\ n > 1 /\ x = c
                                /\ lowlink'[x] = lowlink[v] /\ lowlink[v] < lowlink[x]
       /\ n > 1 => lowlink'[c] <= lowlink[v]
  <2> HIDE DEF c, m, n, v
  <2>1. \A x \in Visited : lowlink[x] \in Nat
    BY <1>10
  <2>2. lowlink[v] \in Nat
    BY <1>4, <2>1
  <2>3. CASE Callers = <<>>
    <3>1. n = 1 /\ lowlink' = lowlink
      BY <1>11, <2>3
    <3> QED
      BY <1>10, <2>1, <3>1
  <2>4. CASE Callers # <<>>
    <3>1. /\ n > 1 /\ c \in Visited /\ lowlink' = [lowlink EXCEPT ![c] = m]
          /\ m \in {lowlink[c], lowlink[v]} /\ m \in Nat /\ m <= lowlink[c] /\ m <= lowlink[v]
      BY <1>12, <2>4
    <3>2. /\ lowlink' \in [Visited -> Nat] /\ lowlink'[c] = m
          /\ \A x \in Visited : x # c => lowlink'[x] = lowlink[x]
      BY <1>10, <3>1
    <3>3. m = lowlink[c] \/ (m = lowlink[v] /\ lowlink[v] < lowlink[c])
      BY <2>1, <2>2, <3>1
    <3>4. \A x \in Visited : lowlink'[x] <= lowlink[x]
      BY <2>1, <3>1, <3>2
    <3>5. \A x \in Visited : \/ lowlink'[x] = lowlink[x]
                             \/ /\ n > 1 /\ x = c
                                /\ lowlink'[x] = lowlink[v] /\ lowlink[v] < lowlink[x]
      BY <3>1, <3>2, <3>3
    <3> QED
      BY <3>1, <3>2, <3>4, <3>5
  <2> QED
    BY <2>3, <2>4
<1>14. /\ frames' \in Seq([vertex : Visited, idx : Nat \ {0}]) /\ Len(frames') = n - 1
  BY <1>1, <1>2
<1> QED
  BY <1>1, <1>2, <1>3, <1>4, <1>8, <1>9, <1>13, <1>14 DEF Left

LEMMA LeftFacts ==
    ASSUME Searching, NEW v, Left(v)
    PROVE  /\ Visited' = Visited /\ v \in Held /\ v \in Visited
           /\ \A x, y : Reaches(x, y)' = Reaches(x, y)
           /\ \A i \in 1..(Len(frames) - 1) : /\ Caller(i)' = Caller(i) /\ i \in DOMAIN frames
                                              /\ Caller(i) \in Visited /\ Caller(i) \in Held
                                              /\ indices[Caller(i)] < indices[v]
                                              /\ Reaches(Caller(i), v)
           /\ \A x : \A i \in 1..(Len(frames) - 1) : Above(i, x)' =>
                 /\ x \in Held' /\ indices[Caller(i)] <= indices[x]
                 /\ i < Len(frames) - 1 => indices[x] < indices[Caller(i + 1)]
           /\ \A x : Above(Len(frames), x) <=> x \in Held /\ indices[v] <= indices[x]
           /\ \A x, u : Looked(x, u)' => Looked(x, u)
           /\ \A x \in Visited : indices[x] \in Nat /\ lowlink[x] \in Nat
                                 /\ lowlink[x] <= indices[x] /\ lowlink'[x] \in Nat
           /\ Held \subseteq Visited
<1> DEFINE n == Len(frames)
<1>1. /\ n \in Nat /\ n >= 1 /\ v = Caller(n) /\ DOMAIN frames = 1..n /\ n \in DOMAIN frames
      /\ \A i \in 1..n : Caller(i) \in Visited /\ Caller(i) \in Held
  <2>1. n \in Nat /\ n >= 1 /\ v = Caller(n)
    BY DEF Left
  <2>2. n \in 1..n
    BY <2>1
  <2> QED
    BY <2>1, <2>2, CallStack
<1>2. /\ Visited' = Visited /\ \A x, y : Reaches(x, y)' = Reaches(x, y)
      /\ next' = next /\ indices' = indices
  BY DEF Left, Visited, Reaches
<1>3. /\ Held \subseteq Visited
      /\ \A x \in Visited : indices[x] \in Nat /\ lowlink[x] \in Nat
                            /\ lowlink[x] <= indices[x] /\ lowlink'[x] \in Nat
  BY DEF Searching, Split, Numbers, Left
<1>4. ASSUME NEW i \in 1..(n - 1)
      PROVE  /\ Caller(i)' = Caller(i) /\ i \in DOMAIN frames
             /\ Caller(i) \in Visited /\ Caller(i) \in Held
             /\ indices[Caller(i)] < indices[v] /\ Reaches(Caller(i), v)
  <2>1. i \in DOMAIN frames /\ i < n
    BY <1>1
  <2>2. Caller(i)' = Caller(i)
    BY DEF Left, Caller
  <2>3. indices[Caller(i)] < indices[Caller(n)]
    BY <1>1, <2>1 DEF Searching, Stacks
  <2>4. indices[Caller(i)] <= indices[Caller(n)]
    BY <1>1, <1>3, <2>1, <2>3
  <2>5. Reaches(Caller(i), Caller(n))
    BY <1>1, <2>1, <2>4 DEF Searching, Connected
  <2> QED
    BY <1>1, <2>1, <2>2, <2>3, <2>5
<1>5. ASSUME NEW i \in 1..(n - 1), NEW x, Above(i, x)'
      PROVE  /\ x \in Held' /\ indices[Caller(i)] <= indices[x]
             /\ i < n - 1 => indices[x] < indices[Caller(i + 1)]
  <2>1. x \in Held' /\ indices[Caller(i)] <= indices[x]
    BY <1>2, <1>4, <1>5 DEF Above
  <2>2. i < n - 1 => indices[x] < indices[Caller(i + 1)]
    <3> HAVE i < n - 1
    <3>1. i + 1 \in 1..(n - 1)
      BY <1>1
    <3>2. Caller(i + 1)' = Caller(i + 1)
      BY <1>4, <3>1
    <3>3. i < Len(frames')
      BY DEF Left
    <3>4. indices'[Caller(i + 1)'] = indices[Caller(i + 1)]
      BY <1>2, <3>2
    <3> QED
      BY <1>2, <1>5, <3>3, <3>4 DEF Above
  <2> QED
    BY <2>1, <2>2
<1>6. ASSUME NEW x PROVE Above(n, x) <=> x \in Held /\ indices[v] <= indices[x]
  <2>1. ~(n < n)
    BY <1>1
  <2> QED
    BY <1>1, <2>1 DEF Above
<1>7. \A x, u : Looked(x, u)' => Looked(x, u)
  BY <1>2 DEF Left, Looked
<1> QED
  BY <1>1, <1>2, <1>3, <1>4, <1>5, <1>6, <1>7

LEMMA LeftKeepsNumbers ==
    ASSUME Searching, NEW v, Left(v)
    PROVE  Numbers'
<1>1. Visited' = Visited /\ Numbers
  BY LeftFacts DEF Searching
<1>2. /\ indices' = indices /\ next' = next /\ lowlink' \in [Visited -> Nat]
      /\ \A x \in Visited : lowlink'[x] <= lowlink[x]
  BY DEF Left
<1>3. \A x \in Visited : lowlink'[x] <= indices[x]
  BY <1>1, <1>2 DEF Numbers
<1> QED
  BY <1>1, <1>2, <1>3 DEF Numbers, Files

-----------------------------------------------------------------------------
(* The root of a component is left.                                        *)

\* The files above the last frame come off the stack.
Taken(v) == {x \in Held : indices[v] <= indices[x]}

RootLeft(v, at) ==
    /\ Left(v) /\ lowlink[v] = indices[v]
    /\ at \in 1..Len(tarjan) /\ tarjan[at] = v
    /\ components' = Append(components, ToSet(SubSeq(tarjan, at, Len(tarjan))))
    /\ tarjan' = SubSeq(tarjan, 1, at - 1)

LEMMA OffTheStack ==
    ASSUME Searching, NEW v, NEW at, RootLeft(v, at)
    PROVE  /\ ToSet(SubSeq(tarjan, at, Len(tarjan))) = Taken(v)
           /\ Held' = Held \ Taken(v)
           /\ tarjan' \in Seq(Visited) /\ Len(tarjan') = at - 1
           /\ \A i \in 1..(at - 1) : tarjan'[i] = tarjan[i]
<1> DEFINE m == Len(tarjan)
           high == SubSeq(tarjan, at, m)
           low == SubSeq(tarjan, 1, at - 1)
<1>1. /\ tarjan \in Seq(Visited) /\ m \in Nat /\ DOMAIN tarjan = 1..m
      /\ Held = {tarjan[i] : i \in 1..m}
      /\ \A i \in 1..m : tarjan[i] \in Visited
      /\ \A i, j \in 1..m : i < j => indices[tarjan[i]] < indices[tarjan[j]]
      /\ \A x \in Visited : indices[x] \in Nat
  BY LenProperties, SequenceSet, ElementOfSeq DEF Searching, Stacks, Numbers, Held
<1>2. at \in 1..m /\ at \in Nat /\ tarjan[at] = v /\ tarjan' = low
  BY <1>1 DEF RootLeft
<1>3. \A i \in 1..m : indices[v] <= indices[tarjan[i]] <=> at <= i
  <2> TAKE i \in 1..m
  <2>1. /\ i < at => indices[tarjan[i]] < indices[tarjan[at]]
        /\ at < i => indices[tarjan[at]] < indices[tarjan[i]]
    BY <1>1, <1>2
  <2>2. indices[tarjan[i]] \in Nat /\ indices[tarjan[at]] \in Nat
    BY <1>1, <1>2
  <2>3. i \in Nat /\ at \in Nat
    BY <1>1, <1>2
  <2>4. (i < at \/ i = at \/ at < i) /\ (at <= i <=> ~(i < at))
    BY <2>3
  <2>5. CASE i < at
    BY <1>2, <2>1, <2>2, <2>4, <2>5
  <2>6. CASE i = at
    BY <1>2, <2>2, <2>4, <2>6, <2>3
  <2>7. CASE at < i
    BY <1>2, <2>1, <2>2, <2>4, <2>7, <2>3
  <2> QED
    BY <2>4, <2>5, <2>6, <2>7
<1>4. Taken(v) = {tarjan[i] : i \in at..m} /\ Held \ Taken(v) = {tarjan[i] : i \in 1..(at - 1)}
  <2>1. /\ \A i \in at..m : i \in 1..m /\ at <= i
        /\ \A i \in 1..(at - 1) : i \in 1..m /\ ~(at <= i)
        /\ \A i \in 1..m : IF at <= i THEN i \in at..m ELSE i \in 1..(at - 1)
    BY <1>1, <1>2
  <2> HIDE DEF m
  <2>2. Taken(v) = {tarjan[i] : i \in at..m}
    BY <1>1, <1>3, <2>1 DEF Taken
  <2>3. \A x \in Held \ Taken(v) : x \in {tarjan[i] : i \in 1..(at - 1)}
    BY <1>1, <2>1, <2>2
  <2>4. \A i \in 1..(at - 1) : tarjan[i] \in Held /\ tarjan[i] \notin Taken(v)
    BY <1>1, <1>3, <2>1 DEF Taken
  <2> QED
    BY <2>2, <2>3, <2>4
<1>5. ToSet(high) = {tarjan[i] : i \in at..m}
  <2> DEFINE k == m - at + 1
  <2>0. k \in Nat /\ at \in 1..(m + 1) /\ m \in (at - 1)..m /\ at \in Int /\ m \in Int
    BY <1>1, <1>2
  <2>1. high \in Seq(Visited) /\ Len(high) = k /\ \A i \in 1..k : high[i] = tarjan[at + i - 1]
    BY <1>1, <1>2, <2>0, SubSeqProperties
  <2>2. ToSet(high) = {high[i] : i \in 1..k}
    BY <2>1, SequenceSet
  <2>3. /\ \A i \in 1..k : at + i - 1 \in at..m
        /\ \A i \in at..m : i - at + 1 \in 1..k /\ at + (i - at + 1) - 1 = i
    BY <1>1, <1>2
  <2> HIDE DEF k, high, m
  <2>4. \A i \in at..m : high[i - at + 1] = tarjan[i]
    BY <2>1, <2>3
  <2>5. ASSUME NEW x \in ToSet(high) PROVE x \in {tarjan[i] : i \in at..m}
    <3>1. PICK i \in 1..k : x = high[i]
      BY <2>2
    <3> QED
      BY <2>1, <2>3, <3>1
  <2>6. ASSUME NEW i \in at..m PROVE tarjan[i] \in ToSet(high)
    BY <2>2, <2>3, <2>4
  <2> QED
    BY <2>5, <2>6
<1>6. /\ low \in Seq(Visited) /\ Len(low) = at - 1
      /\ \A i \in 1..(at - 1) : low[i] = tarjan[i]
  <2> DEFINE k == at - 1
  <2>1. k \in Nat /\ k = at - 1 /\ 1 \in 1..(m + 1) /\ k \in (1 - 1)..m /\ k \in Int
    BY <1>1, <1>2
  <2> HIDE DEF k, m
  <2>2. /\ SubSeq(tarjan, 1, k) \in Seq(Visited) /\ Len(SubSeq(tarjan, 1, k)) = k
        /\ \A i \in 1..k : SubSeq(tarjan, 1, k)[i] = tarjan[i]
    BY <1>1, <2>1, SubSeqProperties DEF m
  <2> QED
    BY <2>1, <2>2
<1>7. ToSet(low) = {tarjan[i] : i \in 1..(at - 1)}
  <2> HIDE DEF low
  <2>1. ToSet(low) = {low[i] : i \in 1..Len(low)}
    BY <1>6, SequenceSet
  <2> QED
    BY <1>6, <2>1
<1>8. Held' = ToSet(low)
  BY <1>2 DEF Held
<1> QED
  BY <1>2, <1>4, <1>5, <1>6, <1>7, <1>8

\* No edge leaves the files that are done together with those above the root.
LEMMA TakenIsClosed ==
    ASSUME Searching, NEW v, NEW at, RootLeft(v, at)
    PROVE  IsClosed(next, Done \cup Taken(v)) /\ Done \cup Taken(v) \subseteq Files
<1> DEFINE n == Len(frames)
<1>1. /\ v \in Held /\ v \in Visited /\ Held \subseteq Visited
      /\ \A x : Above(n, x) <=> x \in Held /\ indices[v] <= indices[x]
      /\ \A x \in Visited : indices[x] \in Nat
  BY LeftFacts DEF RootLeft
<1>2. /\ v = Caller(n) /\ n \in DOMAIN frames /\ lowlink[v] = indices[v]
      /\ \A w \in ToSet(Successors(v)) : Looked(v, w)
      /\ n \in Nat /\ DOMAIN frames = 1..n
  BY CallStack DEF RootLeft, Left
<1>3. Visited = Held \cup Done /\ Visited \subseteq Files /\ IsClosed(next, Done)
  BY DEF Searching, Split, Numbers
<1>4. ASSUME NEW x \in Taken(v), NEW u \in ToSet(SuccessorsIn(next, x))
      PROVE  u \in Done \cup Taken(v)
  <2>1. x \in Held /\ indices[v] <= indices[x] /\ x \in Visited
    BY <1>1 DEF Taken
  <2>2. Looked(x, u)
    <3>1. CASE x = v
      BY <1>2, <1>4, <3>1 DEF Successors
    <3>2. CASE x # v
      <4>1. ASSUME NEW i \in DOMAIN frames, frames[i].vertex = x PROVE FALSE
        <5>1. i < n
          BY <1>2, <3>2, <4>1 DEF Caller
        <5>2. indices[x] < indices[v]
          BY <1>2, <4>1, <5>1 DEF Searching, Stacks, Caller
        <5> QED
          BY <1>1, <2>1, <5>2
      <4> QED
        BY <1>4, <4>1 DEF Looked, LookedAt
    <3> QED
      BY <3>1, <3>2
  <2>3. u \in Visited
    BY <2>1, <2>2 DEF Searching, Linked
  <2>4. CASE u \in Held
    <3>1. Above(n, x)
      BY <1>1, <2>1
    <3>2. lowlink[v] <= indices[u]
      BY <1>2, <2>1, <2>2, <2>4, <3>1 DEF Searching, Linked
    <3> QED
      BY <1>2, <2>4, <3>2 DEF Taken
  <2> QED
    BY <1>3, <2>3, <2>4
<1>5. IsClosed(next, Done \cup Taken(v))
  BY <1>3, <1>4 DEF IsClosed
<1>6. Taken(v) \subseteq Held
  BY DEF Taken
<1> QED
  BY <1>3, <1>5, <1>6

\* The files above the root are one component.
LEMMA TakenIsComponent ==
    ASSUME Searching, NEW v, NEW at, RootLeft(v, at), NEW x \in Taken(v)
    PROVE  Taken(v) = ComponentOf(next, x)
<1> DEFINE n == Len(frames)
<1>1. /\ v \in Held /\ Held \subseteq Visited
      /\ \A y : Above(n, y) <=> y \in Held /\ indices[v] <= indices[y]
  BY LeftFacts DEF RootLeft
<1>2. v = Caller(n) /\ n \in DOMAIN frames
  BY CallStack DEF RootLeft, Left
<1>3. \A y \in Taken(v) : Reaches(y, v) /\ Reaches(v, y)
  BY <1>1, <1>2 DEF Searching, Connected, Taken
<1>4. ASSUME NEW y \in Taken(v) PROVE y \in ComponentOf(next, x)
  <2>1. Reaches(x, y) /\ Reaches(y, x)
    BY <1>3, Reaching DEF Reaches
  <2> QED
    BY <2>1 DEF Reaches, ComponentOf
<1>5. ASSUME NEW y \in ComponentOf(next, x) PROVE y \in Taken(v)
  <2>1. Reaches(x, y) /\ Reaches(y, x)
    BY <1>5 DEF Reaches, ComponentOf
  <2>2. y \in Done \cup Taken(v)
    <3>1. /\ IsClosed(next, Done \cup Taken(v)) /\ Done \cup Taken(v) \in SUBSET FilesOf(next)
          /\ x \in Done \cup Taken(v)
      BY TakenIsClosed DEF Files
    <3> QED
      BY <2>1, <3>1, Reaching DEF Reaches
  <2>3. ASSUME y \in Done PROVE FALSE
    <3>1. IsClosed(next, Done) /\ Done \in SUBSET FilesOf(next) /\ Held \cap Done = {}
      BY DEF Searching, Split, Numbers, Files
    <3>2. x \in Done
      BY <2>1, <2>3, <3>1, Reaching DEF Reaches
    <3> QED
      BY <3>1, <3>2 DEF Taken
  <2> QED
    BY <2>2, <2>3
<1> QED
  BY <1>4, <1>5

LEMMA RootKeepsStacks ==
    ASSUME Searching, NEW v, NEW at, RootLeft(v, at)
    PROVE  Stacks'
<1> DEFINE n == Len(frames)
<1>1. /\ Visited' = Visited
      /\ \A i \in 1..(n - 1) : /\ Caller(i)' = Caller(i) /\ i \in DOMAIN frames
                               /\ Caller(i) \in Visited /\ Caller(i) \in Held
                               /\ indices[Caller(i)] < indices[v]
      /\ \A x \in Visited : indices[x] \in Nat
      /\ v \in Visited
  BY LeftFacts DEF RootLeft
<1>2. /\ Held' = Held \ Taken(v) /\ tarjan' \in Seq(Visited) /\ Len(tarjan') = at - 1
      /\ \A i \in 1..(at - 1) : tarjan'[i] = tarjan[i]
  BY OffTheStack
<1>3. /\ frames' \in Seq([vertex : Visited, idx : Nat \ {0}]) /\ Len(frames') = n - 1
      /\ DOMAIN frames' = 1..(n - 1) /\ n \in Nat /\ n >= 1 /\ v = Caller(n)
      /\ indices' = indices /\ at \in 1..Len(tarjan) /\ tarjan[at] = v
  BY DEF RootLeft, Left
<1>4. Stacks /\ Len(tarjan) \in Nat /\ DOMAIN tarjan = 1..Len(tarjan)
  BY LenProperties DEF Searching, Stacks
<1>5. DOMAIN tarjan' = 1..(at - 1) /\ at \in Nat /\ at >= 1
  BY <1>2, <1>3, <1>4, LenProperties
<1>6. ASSUME NEW i \in DOMAIN tarjan', NEW j \in DOMAIN tarjan', i < j
      PROVE  indices'[tarjan'[i]] < indices'[tarjan'[j]]
  <2>1. i \in DOMAIN tarjan /\ j \in DOMAIN tarjan
    BY <1>3, <1>4, <1>5
  <2>2. tarjan'[i] = tarjan[i] /\ tarjan'[j] = tarjan[j]
    BY <1>2, <1>5
  <2> QED
    BY <1>3, <1>4, <1>6, <2>1, <2>2 DEF Stacks
<1>7. ASSUME NEW i \in DOMAIN frames', NEW j \in DOMAIN frames', i < j
      PROVE  indices'[Caller(i)'] < indices'[Caller(j)']
  BY <1>1, <1>3, <1>4, <1>7 DEF Stacks
<1>8. ASSUME NEW i \in DOMAIN frames' PROVE Caller(i)' \in Held'
  <2>1. /\ Caller(i)' = Caller(i) /\ Caller(i) \in Held /\ Caller(i) \in Visited
        /\ indices[Caller(i)] < indices[v]
    BY <1>1, <1>3
  <2>2. ~(indices[v] <= indices[Caller(i)])
    BY <1>1, <2>1
  <2> QED
    BY <1>2, <2>1, <2>2 DEF Taken
<1>9. ASSUME tarjan' # <<>> PROVE frames' # <<>> /\ Caller(1)' = tarjan'[1]
  <2>1. at - 1 # 0
    BY <1>2, <1>9, EmptySeq
  <2>2. 1 \in 1..(at - 1) /\ 1 \in DOMAIN tarjan /\ at \in DOMAIN tarjan /\ 1 < at
    BY <1>3, <1>4, <1>5, <2>1
  <2>3. tarjan # <<>>
    BY <1>4, <2>2, EmptySeq
  <2>4. Caller(1) = tarjan[1]
    BY <1>4, <2>3 DEF Stacks
  <2>5. indices[tarjan[1]] < indices[tarjan[at]]
    BY <1>4, <2>2 DEF Stacks
  <2>6. n # 1
    <3>1. indices[v] \in Nat
      BY <1>1
    <3> QED
      BY <1>3, <2>4, <2>5, <3>1
  <2>7. 1 \in 1..(n - 1) /\ n - 1 # 0
    BY <1>3, <2>6
  <2>8. frames' # <<>>
    BY <1>3, <2>7, EmptySeq
  <2>9. Caller(1)' = Caller(1) /\ tarjan'[1] = tarjan[1]
    BY <1>1, <1>2, <2>2, <2>7
  <2> QED
    BY <2>4, <2>8, <2>9
<1> QED
  BY <1>1, <1>2, <1>3, <1>6, <1>7, <1>8, <1>9 DEF Stacks

LEMMA RootKeepsSplit ==
    ASSUME Searching, NEW v, NEW at, RootLeft(v, at)
    PROVE  Split'
<1> DEFINE C == Taken(v)
<1>1. /\ ToSet(SubSeq(tarjan, at, Len(tarjan))) = C /\ Held' = Held \ C
  BY OffTheStack
<1>2. components' = Append(components, C) /\ next' = next
  BY <1>1 DEF RootLeft, Left
<1>3. Visited' = Visited /\ v \in Held /\ Held \subseteq Visited /\ indices[v] \in Nat
  BY LeftFacts DEF RootLeft
<1>4. v \in C /\ C \subseteq Held
  BY <1>3 DEF Taken
<1>5. Split
  BY DEF Searching
<1>6. \A x \in C : C = ComponentOf(next, x)
  BY TakenIsComponent
<1>7. IsClosed(next, Done \cup C)
  BY TakenIsClosed
<1> HIDE DEF C
<1> DEFINE m == Len(components)
<1>8. components \in Seq(SUBSET Visited) /\ m \in Nat /\ DOMAIN components = 1..m
  BY <1>5, LenProperties DEF Split
<1>9. C \in SUBSET Visited
  BY <1>3, <1>4
<1>10. /\ components' \in Seq((SUBSET Visited) \cup {C}) /\ DOMAIN components' = 1..(m + 1)
       /\ components'[m + 1] = C /\ \A i \in 1..m : components'[i] = components[i]
       /\ ToSet(components') = ToSet(components) \cup {C}
  BY <1>2, <1>8, Appended, AppendedSet
<1>11. (SUBSET Visited) \cup {C} = SUBSET Visited
  BY <1>9
<1>12. Done' = Done \cup C
  BY <1>10 DEF Done
<1>13. \A i \in 1..m : components[i] \subseteq Done
  <2>1. ToSet(components) = {components[i] : i \in 1..m}
    BY <1>8, SequenceSet
  <2> QED
    BY <2>1 DEF Done
<1>14. Held' \cap Done' = {} /\ Visited' = Held' \cup Done'
  BY <1>1, <1>3, <1>4, <1>5, <1>12 DEF Split
<1>15. ASSUME NEW i \in DOMAIN components'
       PROVE  /\ components'[i] # {}
              /\ \A x \in components'[i] : components'[i] = ComponentOf(next, x)
  <2>1. CASE i \in 1..m
    BY <1>5, <1>8, <1>10, <2>1 DEF Split
  <2>2. CASE i = m + 1
    BY <1>4, <1>6, <1>10, <2>2
  <2> QED
    BY <1>8, <1>10, <2>1, <2>2
<1>16. ASSUME NEW i \in DOMAIN components', NEW j \in DOMAIN components', i # j
       PROVE  components'[i] \cap components'[j] = {}
  <2>1. /\ i \in 1..m \/ i = m + 1
        /\ j \in 1..m \/ j = m + 1
    BY <1>8, <1>10
  <2>2. Done \cap C = {}
    BY <1>4, <1>5 DEF Split
  <2>3. CASE i \in 1..m /\ j \in 1..m
    BY <1>5, <1>8, <1>10, <1>16, <2>3 DEF Split
  <2>4. CASE i \in 1..m /\ j = m + 1
    <3>1. components'[i] = components[i] /\ components'[j] = C /\ components[i] \subseteq Done
      BY <1>10, <1>13, <2>4
    <3> QED
      BY <2>2, <3>1
  <2>5. CASE i = m + 1 /\ j \in 1..m
    <3>1. components'[j] = components[j] /\ components'[i] = C /\ components[j] \subseteq Done
      BY <1>10, <1>13, <2>5
    <3> QED
      BY <2>2, <3>1
  <2> QED
    BY <1>16, <2>1, <2>3, <2>4, <2>5
<1>17. components' \in Seq(SUBSET Visited)
  BY <1>10, <1>11
<1> QED
  BY <1>2, <1>3, <1>7, <1>12, <1>14, <1>15, <1>16, <1>17 DEF Split

LEMMA RootKeepsConnected ==
    ASSUME Searching, NEW v, NEW at, RootLeft(v, at)
    PROVE  Connected' /\ Linked'
<1> DEFINE n == Len(frames)
<1>1. /\ Visited' = Visited /\ v \in Visited
      /\ \A x, y : Reaches(x, y)' = Reaches(x, y)
      /\ \A i \in 1..(n - 1) : /\ Caller(i)' = Caller(i) /\ i \in DOMAIN frames
                               /\ Caller(i) \in Visited /\ Caller(i) \in Held
                               /\ indices[Caller(i)] < indices[v]
      /\ \A x : \A i \in 1..(n - 1) : Above(i, x)' =>
            /\ x \in Held' /\ indices[Caller(i)] <= indices[x]
            /\ i < n - 1 => indices[x] < indices[Caller(i + 1)]
      /\ \A x, u : Looked(x, u)' => Looked(x, u)
      /\ \A x \in Visited : indices[x] \in Nat /\ lowlink[x] \in Nat
                            /\ lowlink[x] <= indices[x] /\ lowlink'[x] \in Nat
      /\ Held \subseteq Visited
  BY LeftFacts DEF RootLeft
<1>2. Held' = Held \ Taken(v)
  BY OffTheStack
<1>3. /\ DOMAIN frames' = 1..(n - 1) /\ n \in Nat /\ n >= 1 /\ v = Caller(n)
      /\ indices' = indices /\ next' = next /\ lowlink[v] = indices[v]
      /\ \A x \in Visited : \/ lowlink'[x] = lowlink[x]
                            \/ /\ n > 1 /\ x = Caller(n - 1)
                               /\ lowlink'[x] = lowlink[v] /\ lowlink[v] < lowlink[x]
  BY DEF RootLeft, Left
<1>4. \A x \in Held' : x \in Held /\ x \in Visited /\ indices[x] < indices[v]
  <2> TAKE x \in Held'
  <2>1. x \in Held /\ x \in Visited /\ ~(indices[v] <= indices[x])
    BY <1>1, <1>2 DEF Taken
  <2> QED
    BY <1>1, <2>1
<1>5. ASSUME NEW i \in 1..(n - 1) PROVE lowlink'[Caller(i)] = lowlink[Caller(i)]
  <2>1. /\ Caller(i) \in Visited /\ indices[Caller(i)] < indices[v]
        /\ lowlink[Caller(i)] <= indices[Caller(i)]
        /\ lowlink[Caller(i)] \in Nat /\ indices[Caller(i)] \in Nat /\ indices[v] \in Nat
    BY <1>1
  <2>2. ~(lowlink[v] < lowlink[Caller(i)])
    BY <1>3, <2>1
  <2> QED
    BY <1>3, <2>1, <2>2
<1>6. ASSUME NEW i \in 1..(n - 1), NEW x, Above(i, x)' PROVE Above(i, x)
  <2>1. /\ x \in Held' /\ indices[Caller(i)] <= indices[x]
        /\ i < n - 1 => indices[x] < indices[Caller(i + 1)]
    BY <1>1, <1>6
  <2>2. i = n - 1 => indices[x] < indices[Caller(i + 1)]
    BY <1>3, <1>4, <2>1
  <2>3. i < n - 1 \/ i = n - 1
    BY <1>3
  <2> QED
    BY <1>4, <2>1, <2>2, <2>3 DEF Above
<1>7. Connected'
  <2>1. Connected
    BY DEF Searching
  <2>2. \A i \in DOMAIN frames', x \in Held' :
           indices'[Caller(i)'] <= indices'[x] => Reaches(Caller(i)', x)
    BY <1>1, <1>3, <1>4, <2>1 DEF Connected
  <2>3. \A i \in DOMAIN frames', x \in Held' : Above(i, x)' => Reaches(x, Caller(i)')
    BY <1>1, <1>3, <1>4, <1>6, <2>1 DEF Connected
  <2> QED
    BY <1>1, <2>2, <2>3 DEF Connected
<1>8. Linked'
  <2>1. Linked
    BY DEF Searching
  <2>2. \A x \in Visited' : \A u : Looked(x, u)' => u \in Visited'
    BY <1>1, <2>1 DEF Linked
  <2>3. ASSUME NEW i \in 1..(n - 1)
        PROVE  \E z \in Held' : lowlink'[Caller(i)'] = indices'[z] /\ Reaches(Caller(i)', z)
    <3>1. PICK z \in Held : lowlink[Caller(i)] = indices[z] /\ Reaches(Caller(i), z)
      BY <1>1, <2>1 DEF Linked
    <3>2. indices[z] < indices[v]
      BY <1>1, <3>1
    <3>3. z \in Held'
      <4>1. z \in Visited /\ ~(indices[v] <= indices[z])
        BY <1>1, <3>2
      <4> QED
        BY <1>2, <4>1 DEF Taken
    <3> QED
      BY <1>1, <1>3, <1>5, <3>1, <3>3
  <2>4. ASSUME NEW i \in 1..(n - 1), NEW x \in Held', NEW u \in Held', Above(i, x)', Looked(x, u)'
        PROVE  lowlink'[Caller(i)'] <= indices'[u]
    <3>1. Above(i, x) /\ Looked(x, u) /\ x \in Held /\ u \in Held
      BY <1>1, <1>4, <1>6, <2>4
    <3>2. lowlink[Caller(i)] <= indices[u]
      BY <1>1, <2>1, <3>1 DEF Linked
    <3> QED
      BY <1>1, <1>3, <1>5, <3>2
  <2> QED
    BY <1>1, <1>3, <2>2, <2>3, <2>4 DEF Linked
<1> QED
  BY <1>7, <1>8

-----------------------------------------------------------------------------
(* A file that reaches one further down the stack is left there.           *)

InnerLeft(v) ==
    /\ Left(v) /\ lowlink[v] # indices[v]
    /\ UNCHANGED <<components, tarjan>>

\* Its caller is reached from it.
LEMMA InnerReaches ==
    ASSUME Searching, NEW v, InnerLeft(v)
    PROVE  /\ Len(frames) > 1 /\ Reaches(v, Caller(Len(frames) - 1))
           /\ \E z \in Held : lowlink[v] = indices[z] /\ Reaches(v, z)
<1> DEFINE n == Len(frames)
<1>1. /\ v \in Held /\ v \in Visited /\ Held \subseteq Visited
      /\ \A x \in Visited : indices[x] \in Nat /\ lowlink[x] \in Nat /\ lowlink[x] <= indices[x]
      /\ \A i \in 1..(n - 1) : /\ i \in DOMAIN frames /\ Caller(i) \in Visited
                               /\ Caller(i) \in Held /\ indices[Caller(i)] < indices[v]
  BY LeftFacts DEF InnerLeft
<1>2. /\ n \in Nat /\ n >= 1 /\ v = Caller(n) /\ DOMAIN frames = 1..n /\ n \in DOMAIN frames
  BY CallStack DEF InnerLeft, Left
<1>3. PICK z \in Held : lowlink[v] = indices[z] /\ Reaches(v, z)
  BY <1>2 DEF Searching, Linked
<1>4. indices[z] < indices[v] /\ z \in Visited
  BY <1>1, <1>3 DEF InnerLeft
<1>5. PICK j \in 1..n : Above(j, z)
  BY AboveSome
<1>6. j # n
  <2>1. indices[Caller(j)] <= indices[z]
    BY <1>5 DEF Above
  <2> QED
    BY <1>1, <1>2, <1>4, <2>1
<1>7. n > 1 /\ j \in 1..(n - 1) /\ n - 1 \in 1..(n - 1) /\ (j < n - 1 \/ j = n - 1)
  <2>1. n \in Nat /\ j \in 1..n /\ j # n
    BY <1>2, <1>6
  <2> QED
    BY ONLY <2>1
<1>8. Reaches(z, Caller(j))
  BY <1>1, <1>5, <1>7 DEF Searching, Connected
<1>9. indices[Caller(j)] <= indices[Caller(n - 1)]
  <2>1. j < n - 1 => indices[Caller(j)] < indices[Caller(n - 1)]
    BY <1>1, <1>7 DEF Searching, Stacks
  <2> QED
    BY <1>1, <1>7, <2>1
<1>10. Reaches(Caller(j), Caller(n - 1))
  BY <1>1, <1>7, <1>9 DEF Searching, Connected
<1>11. Reaches(v, Caller(n - 1))
  BY <1>3, <1>8, <1>10, Reaching DEF Reaches
<1> QED
  BY <1>3, <1>7, <1>11

LEMMA InnerKeepsSearching ==
    ASSUME Searching, NEW v, InnerLeft(v)
    PROVE  Searching'
<1> DEFINE n == Len(frames)
           c == Caller(n - 1)
<1>1. /\ Visited' = Visited /\ v \in Visited /\ v \in Held
      /\ \A x, y : Reaches(x, y)' = Reaches(x, y)
      /\ \A i \in 1..(n - 1) : /\ Caller(i)' = Caller(i) /\ i \in DOMAIN frames
                               /\ Caller(i) \in Visited /\ Caller(i) \in Held
                               /\ indices[Caller(i)] < indices[v] /\ Reaches(Caller(i), v)
      /\ \A x : \A i \in 1..(n - 1) : Above(i, x)' =>
            /\ x \in Held' /\ indices[Caller(i)] <= indices[x]
            /\ i < n - 1 => indices[x] < indices[Caller(i + 1)]
      /\ \A x : Above(n, x) <=> x \in Held /\ indices[v] <= indices[x]
      /\ \A x, u : Looked(x, u)' => Looked(x, u)
      /\ \A x \in Visited : indices[x] \in Nat /\ lowlink[x] \in Nat
                            /\ lowlink[x] <= indices[x] /\ lowlink'[x] \in Nat
      /\ Held \subseteq Visited
  BY LeftFacts DEF InnerLeft
<1>2. /\ n > 1 /\ Reaches(v, c) /\ \E z \in Held : lowlink[v] = indices[z] /\ Reaches(v, z)
  BY InnerReaches
<1>3. /\ DOMAIN frames' = 1..(n - 1) /\ n \in Nat /\ v = Caller(n) /\ Len(frames') = n - 1
      /\ frames' \in Seq([vertex : Visited, idx : Nat \ {0}])
      /\ indices' = indices /\ next' = next /\ components' = components /\ tarjan' = tarjan
      /\ \A x \in Visited : lowlink'[x] <= lowlink[x]
      /\ \A x \in Visited : \/ lowlink'[x] = lowlink[x]
                            \/ n > 1 /\ x = c /\ lowlink'[x] = lowlink[v]
      /\ lowlink'[c] <= lowlink[v]
  BY <1>2 DEF InnerLeft, Left
<1>4. Held' = Held /\ Done' = Done
  BY <1>3 DEF Held, Done
<1>5. n - 1 \in 1..(n - 1) /\ n \in DOMAIN frames
  BY <1>2, <1>3, CallStack
<1>6. ASSUME NEW i \in 1..(n - 1), NEW x, Above(i, x)'
      PROVE  Above(i, x) \/ (i = n - 1 /\ Above(n, x))
  <2>1. /\ x \in Held /\ x \in Visited /\ indices[Caller(i)] <= indices[x]
        /\ i < n - 1 => indices[x] < indices[Caller(i + 1)]
    BY <1>1, <1>4, <1>6
  <2>2. CASE i < n - 1
    BY <2>1, <2>2 DEF Above
  <2>3. CASE i = n - 1
    <3>1. indices[v] <= indices[x] \/ indices[x] < indices[Caller(i + 1)]
      <4>1. Caller(i + 1) = v
        BY <1>3, <2>3
      <4> QED
        BY <1>1, <2>1, <4>1
    <3> QED
      BY <1>1, <2>1, <2>3, <3>1 DEF Above
  <2> QED
    BY <1>3, <2>2, <2>3
<1>7. Numbers'
  BY LeftKeepsNumbers DEF InnerLeft
<1>8. Stacks'
  <2>1. Stacks
    BY DEF Searching
  <2>2. frames' # <<>> /\ 1 \in 1..(n - 1)
    BY <1>2, <1>3, EmptySeq
  <2>3. tarjan' # <<>> => frames' # <<>> /\ Caller(1)' = tarjan'[1]
    BY <1>1, <1>3, <2>1, <2>2 DEF Stacks
  <2>4. \A i, j \in DOMAIN tarjan' : i < j => indices'[tarjan'[i]] < indices'[tarjan'[j]]
    BY <1>3, <2>1 DEF Stacks
  <2>5. ASSUME NEW i \in 1..(n - 1), NEW j \in 1..(n - 1), i < j
        PROVE  indices'[Caller(i)'] < indices'[Caller(j)']
    <3>1. indices[Caller(i)] < indices[Caller(j)]
      BY <1>1, <2>1, <2>5 DEF Stacks
    <3> QED
      BY <1>1, <1>3, <3>1
  <2>6. ASSUME NEW i \in 1..(n - 1) PROVE Caller(i)' \in Held'
    BY <1>1, <1>4
  <2> QED
    BY <1>1, <1>3, <2>1, <2>3, <2>4, <2>5, <2>6 DEF Stacks
<1>9. Split'
  BY <1>1, <1>3, <1>4 DEF Searching, Split
<1>10. Connected'
  <2>1. Connected
    BY DEF Searching
  <2>2. ASSUME NEW i \in 1..(n - 1), NEW x \in Held, indices[Caller(i)] <= indices[x]
        PROVE  Reaches(Caller(i), x)
    BY <1>1, <2>1, <2>2 DEF Connected
  <2>3. ASSUME NEW i \in 1..(n - 1), NEW x \in Held, Above(i, x)'
        PROVE  Reaches(x, Caller(i))
    <3>1. CASE Above(i, x)
      BY <1>1, <2>1, <3>1 DEF Connected
    <3>2. CASE i = n - 1 /\ Above(n, x)
      <4>1. Reaches(x, v)
        BY <1>3, <1>5, <2>1, <3>2 DEF Connected
      <4> QED
        BY <1>2, <3>2, <4>1, Reaching DEF Reaches
    <3> QED
      BY <1>6, <2>3, <3>1, <3>2
  <2>4. ASSUME NEW i \in DOMAIN frames', NEW x \in Held'
        PROVE  /\ indices'[Caller(i)'] <= indices'[x] => Reaches(Caller(i)', x)
               /\ Above(i, x)' => Reaches(x, Caller(i)')
    <3>1. i \in 1..(n - 1) /\ x \in Held /\ Caller(i)' = Caller(i)
      BY <1>1, <1>3, <1>4
    <3>2. indices' = indices
      BY <1>3
    <3> QED
      BY <2>2, <2>3, <3>1, <3>2
  <2> QED
    BY <1>1, <2>4 DEF Connected
<1>11. Linked'
  <2>1. Linked
    BY DEF Searching
  <2>2. \A x \in Visited' : \A u : Looked(x, u)' => u \in Visited'
    BY <1>1, <2>1 DEF Linked
  <2>3. ASSUME NEW i \in 1..(n - 1)
        PROVE  \E z \in Held : lowlink'[Caller(i)] = indices[z] /\ Reaches(Caller(i), z)
    <3>1. CASE lowlink'[Caller(i)] = lowlink[Caller(i)]
      <4>1. PICK z \in Held : lowlink[Caller(i)] = indices[z] /\ Reaches(Caller(i), z)
        BY <1>1, <2>1 DEF Linked
      <4> QED
        BY <3>1, <4>1
    <3>2. CASE lowlink'[Caller(i)] = lowlink[v]
      <4>1. PICK z \in Held : lowlink[v] = indices[z] /\ Reaches(v, z)
        BY <1>2
      <4>2. Reaches(Caller(i), z)
        BY <1>1, <4>1, Reaching DEF Reaches
      <4> QED
        BY <3>2, <4>1, <4>2
    <3> QED
      BY <1>1, <1>3, <3>1, <3>2
  <2>4. ASSUME NEW i \in 1..(n - 1), NEW x \in Held, NEW u \in Held, Above(i, x)', Looked(x, u)'
        PROVE  lowlink'[Caller(i)] <= indices[u]
    <3>1. Looked(x, u) /\ u \in Visited /\ Caller(i) \in Visited
      BY <1>1, <2>4
    <3>2. CASE Above(i, x)
      <4>1. lowlink[Caller(i)] <= indices[u]
        BY <1>1, <2>1, <3>1, <3>2 DEF Linked
      <4> QED
        BY <1>1, <1>3, <3>1, <4>1
    <3>3. CASE i = n - 1 /\ Above(n, x)
      <4>1. lowlink[v] <= indices[u]
        BY <1>3, <1>5, <2>1, <3>1, <3>3 DEF Linked
      <4> QED
        BY <1>1, <1>3, <3>1, <3>3, <4>1
    <3> QED
      BY <1>6, <2>4, <3>2, <3>3
  <2>5. ASSUME NEW i \in DOMAIN frames'
        PROVE  /\ \E z \in Held' : lowlink'[Caller(i)'] = indices'[z] /\ Reaches(Caller(i)', z)
               /\ \A x \in Held', u \in Held' :
                     Above(i, x)' /\ Looked(x, u)' => lowlink'[Caller(i)'] <= indices'[u]
    <3>1. i \in 1..(n - 1) /\ Caller(i)' = Caller(i)
      BY <1>1, <1>3
    <3>2. indices' = indices /\ Held' = Held
      BY <1>3, <1>4
    <3> QED
      BY <2>3, <2>4, <3>1, <3>2
  <2> QED
    BY <1>1, <2>2, <2>5 DEF Linked
<1> QED
  BY <1>7, <1>8, <1>9, <1>10, <1>11 DEF Searching

LEMMA LeaveKeepsSearching ==
    ASSUME Searching, LeaveVertex
    PROVE  Searching'
<1> DEFINE v == Top.vertex
           at == CHOOSE i \in DOMAIN tarjan : tarjan[i] = v
<1>1. Left(v)
  BY LeaveIsLeft
<1>2. CASE lowlink[v] = indices[v]
  <2>1. /\ components' = Append(components, ToSet(SubSeq(tarjan, at, Len(tarjan))))
        /\ tarjan' = SubSeq(tarjan, 1, at - 1)
    BY <1>2 DEF LeaveVertex
  <2>2. at \in 1..Len(tarjan) /\ tarjan[at] = v
    <3>1. tarjan \in Seq(Visited) /\ v \in Held
      BY <1>1, LeftFacts DEF Searching, Stacks
    <3>2. DOMAIN tarjan = 1..Len(tarjan) /\ \E i \in DOMAIN tarjan : tarjan[i] = v
      BY <3>1, SequenceSet DEF Held
    <3> QED
      BY <3>2
  <2> HIDE DEF at, v
  <2>3. RootLeft(v, at)
    BY <1>1, <1>2, <2>1, <2>2 DEF RootLeft
  <2>4. Numbers'
    BY <1>1, LeftKeepsNumbers
  <2> QED
    BY <2>3, <2>4, RootKeepsStacks, RootKeepsSplit, RootKeepsConnected DEF Searching
<1>3. CASE lowlink[v] # indices[v]
  <2>1. UNCHANGED <<components, tarjan>>
    BY <1>3 DEF LeaveVertex
  <2> HIDE DEF v
  <2>2. InnerLeft(v)
    BY <1>1, <1>3, <2>1 DEF InnerLeft
  <2> QED
    BY <2>2, InnerKeepsSearching
<1> QED
  BY <1>2, <1>3

-----------------------------------------------------------------------------
(* The search as a whole.                                                  *)

CycleInv == /\ next \in Graphs
            /\ phase = "components" => Searching

LEMMA EmptySearch ==
    ASSUME next' \in Graphs, indices' = <<>>, lowlink' = <<>>, tarjan' = <<>>,
           frames' = <<>>, components' = <<>>
    PROVE  Searching'
<1>1. Visited' = {} /\ Held' = {} /\ Done' = {}
  BY SequenceSet, EmptySeq DEF Visited, Held, Done, ToSet
<1>2. IsFiniteSet({}) /\ Cardinality({}) = 0
  BY FS_EmptySet
<1>3. indices' \in [{} -> Nat] /\ lowlink' \in [{} -> Nat]
  OBVIOUS
<1>4. Numbers'
  BY <1>1, <1>2, <1>3 DEF Numbers
<1>5. Stacks'
  BY <1>1, EmptySeq DEF Stacks
<1>6. Split'
  BY <1>1, EmptySeq DEF Split, IsClosed
<1>7. Connected'
  BY <1>1 DEF Connected
<1>8. Linked'
  BY <1>1 DEF Linked
<1> QED
  BY <1>4, <1>5, <1>6, <1>7, <1>8 DEF Searching

LEMMA PickRootKeepsSearching ==
    ASSUME Searching, PickRoot
    PROVE  Searching'
<1>1. PICK v \in Files \ Visited : Push(v, <<>>)
  BY DEF PickRoot
<1>2. frames = <<>> /\ next' = next
  BY DEF PickRoot, graphVars
<1>3. tarjan = <<>>
  BY <1>2 DEF Searching, Stacks
<1>4. Further(<<>>, v)
  <2>1. Len(frames) = 0 /\ Len(<<>>) = 0
    BY <1>2, EmptySeq
  <2>2. <<>> \in Seq([vertex : Visited, idx : Nat \ {0}])
    BY EmptySeq
  <2>3. \A x, u : LookedAt(next, <<>>, x, u) => Looked(x, u)
    BY <1>2 DEF Looked
  <2> QED
    BY <2>1, <2>2, <2>3 DEF Further
<1>5. Pushed(v, <<>>)
  BY <1>1, <1>2, <1>3, <1>4 DEF Pushed
<1> QED
  BY <1>5, PushKeepsSearching

LEMMA LookKeepsSearching ==
    ASSUME Searching, LookAtNeighbour
    PROVE  Searching'
<1> DEFINE w == Successors(Top.vertex)[Top.idx]
<1>1. frames # <<>> /\ Top.idx <= Len(Successors(Top.vertex)) /\ next' = next
  BY DEF LookAtNeighbour, graphVars
<1>2. Further(Advance, w) /\ w \in Files
  BY <1>1, AdvanceIsFurther
<1>3. CASE w \in Visited
  <2>1. Relinked(w, Top.vertex)
    BY <1>3, VisitedNeighbour
  <2> QED
    BY <2>1, RelinkedKeepsSearching
<1>4. CASE w \notin Visited
  <2>1. Push(w, Advance)
    BY <1>4 DEF LookAtNeighbour
  <2>2. Pushed(w, Advance)
    BY <1>1, <1>2, <1>4, <2>1 DEF Pushed
  <2> QED
    BY <2>2, PushKeepsSearching
<1> QED
  BY <1>3, <1>4

LEMMA CycleStep ==
    ASSUME CycleInv, [CycleNext]_cycleVars
    PROVE  CycleInv'
<1>1. CASE CollectPairs
  BY <1>1 DEF CycleInv, CollectPairs, graphVars
<1>2. CASE Produce
  <2>1. /\ next' = next /\ indices' = <<>> /\ lowlink' = <<>> /\ tarjan' = <<>>
        /\ frames' = <<>> /\ components' = <<>>
    BY <1>2 DEF Produce, graphVars
  <2>2. next' \in Graphs
    BY <2>1 DEF CycleInv
  <2>3. Searching'
    BY <2>1, <2>2, EmptySearch
  <2> QED
    BY <2>2, <2>3 DEF CycleInv
<1>3. CASE AcceptCandidate
  BY <1>3 DEF CycleInv, AcceptCandidate, graphVars
<1>4. CASE AskAgain
  BY <1>4 DEF CycleInv, AskAgain, graphVars
<1>5. CASE PickRoot
  BY <1>5, PickRootKeepsSearching DEF CycleInv, PickRoot, graphVars
<1>6. CASE LookAtNeighbour
  BY <1>6, LookKeepsSearching DEF CycleInv, LookAtNeighbour, graphVars
<1>7. CASE LeaveVertex
  BY <1>7, LeaveKeepsSearching DEF CycleInv, LeaveVertex, graphVars
<1>8. CASE StartWalks
  BY <1>8 DEF CycleInv, StartWalks, graphVars
<1>9. CASE OpenComponent
  BY <1>9 DEF CycleInv, OpenComponent, graphVars
<1>10. CASE NoMoreComponents
  BY <1>10 DEF CycleInv, NoMoreComponents, Deliver, graphVars
<1>11. CASE StartAtOrigin
  BY <1>11 DEF CycleInv, StartAtOrigin, graphVars, checkVars
<1>12. CASE Walk
  BY <1>12 DEF CycleInv, Walk, graphVars, checkVars
<1>13. CASE CloseComponent
  BY <1>13 DEF CycleInv, CloseComponent, Deliver, graphVars
<1>14. CASE UNCHANGED cycleVars
  <2>1. /\ UNCHANGED <<next, indices, lowlink, tarjan, frames, components>>
        /\ phase' = phase
    BY <1>14 DEF cycleVars, graphVars, tarjanVars, checkVars
  <2>2. Searching => Searching'
    BY <2>1 DEF Searching, Numbers, Stacks, Split, Connected, Linked, Looked, Reaches, Above,
                Visited, Held, Done, Files, Caller
  <2> QED
    BY <2>1, <2>2 DEF CycleInv
<1> QED
  BY <1>1, <1>2, <1>3, <1>4, <1>5, <1>6, <1>7, <1>8, <1>9, <1>10, <1>11, <1>12,
     <1>13, <1>14 DEF CycleNext

\* When every file has been visited and the call stack is empty, the components
\* are those of the graph.
LEMMA SearchedIsExact ==
    ASSUME CycleInv, AllVisited
    PROVE  /\ ToSet(components) = {ComponentOf(next, v) : v \in Files}
           /\ Len(components) = Cardinality(ToSet(components))
<1> DEFINE m == Len(components)
<1>1. Searching /\ frames = <<>> /\ Visited = Files
  BY DEF CycleInv, AllVisited
<1>2. Held = {}
  <2>1. tarjan = <<>>
    BY <1>1 DEF Searching, Stacks
  <2> QED
    BY <2>1, EmptySeq DEF Held, ToSet
<1>3. Split /\ Done = Files
  BY <1>1, <1>2 DEF Searching, Split
<1>4. /\ components \in Seq(SUBSET Files) /\ m \in Nat /\ DOMAIN components = 1..m
      /\ ToSet(components) = {components[i] : i \in 1..m}
  BY <1>1, <1>3, LenProperties, SequenceSet DEF Split
<1>5. \A i \in 1..m : /\ components[i] # {} /\ components[i] \subseteq Files
                      /\ \A v \in components[i] : components[i] = ComponentOf(next, v)
  BY <1>3, <1>4, ElementOfSeq DEF Split
<1> HIDE DEF m, CycleInv, AllVisited, Files
<1>6. ASSUME NEW C \in ToSet(components) PROVE \E v \in Files : C = ComponentOf(next, v)
  <2>1. PICK i \in 1..m : C = components[i]
    BY <1>4
  <2>2. PICK v \in components[i] : TRUE
    BY <1>5
  <2> QED
    BY <1>5, <2>1, <2>2
<1>7. ASSUME NEW v \in Files PROVE ComponentOf(next, v) \in ToSet(components)
  <2>1. PICK C \in ToSet(components) : v \in C
    BY <1>3 DEF Done
  <2>2. PICK i \in 1..m : C = components[i]
    BY <1>4
  <2> QED
    BY <1>5, <2>1, <2>2
<1>8. ToSet(components) = {ComponentOf(next, v) : v \in Files}
  BY <1>6, <1>7
<1>9. m = Cardinality(ToSet(components))
  <2>1. components \in [1..m -> ToSet(components)]
    BY <1>4
  <2>2. \A i, j \in 1..m : components[i] = components[j] => i = j
    BY <1>3, <1>4, <1>5 DEF Split
  <2>3. components \in Bijection(1..m, ToSet(components))
    BY <1>4, <2>1, <2>2 DEF Bijection, Injection, Surjection, IsInjective
  <2>4. ExistsBijection(1..m, ToSet(components))
    BY <2>3 DEF ExistsBijection
  <2> QED
    BY <1>4, <2>4, FS_NatBijection, FS_CountingElements
<1> QED
  BY <1>8, <1>9 DEF m

\* tarjanSCCs finds the classes of files that reach each other, each once, from
\* whatever file it starts and in whatever order the rows of the edges come.
THEOREM ComponentsAlwaysExact == CycleSpec => []ComponentsExact
<1>1. CycleInit => CycleInv
  BY DEF CycleInit, CycleInv
<1>2. CycleInv /\ [CycleNext]_cycleVars => CycleInv'
  BY CycleStep
<1>3. CycleInv => ComponentsExact
  BY SearchedIsExact DEF ComponentsExact
<1> QED
  BY <1>1, <1>2, <1>3, PTL DEF CycleSpec

-----------------------------------------------------------------------------
(* The walks.                                                              *)

AllCycles == SimpleCycles(next, MaxDepth)

\* A path has been walked from the file at its beginning, in a component.
Walked(path, S) ==
    /\ path \in Seq(S) /\ path # <<>> /\ IsInjective(path)
    /\ \A i \in 1..(Len(path) - 1) : IsEdge(next, path[i], path[i + 1])

Begins(path, p) == /\ Len(path) <= Len(p)
                   /\ \A i \in 1..Len(path) : p[i] = path[i]

\* The components that are left are right, each once.
Parts == /\ components \in Seq(SUBSET Files)
         /\ \A i \in DOMAIN components :
               \A v \in components[i] : components[i] = ComponentOf(next, v)
         /\ \A i, j \in DOMAIN components : i # j => components[i] \cap components[j] = {}

\* Cycles are their own keys, as each is found from its least file first.
ByKey(cycles) == /\ DOMAIN cycles \subseteq AllCycles
                 /\ \A p \in DOMAIN cycles : cycles[p] = p
Few(cycles) == Cardinality(DOMAIN cycles) < fetchCap

\* The cycles found so far are of the components that were walked, and all of
\* theirs.
FoundSoFar ==
    /\ Parts /\ ByKey(found) /\ Few(found)
    /\ \A p \in AllCycles : p \in DOMAIN found <=>
                            \A i \in DOMAIN components : p[1] \notin components[i]

\* The files from which the walks have started, and the last one of them, from
\* which the paths of the stack come.
Component == Head(components)
Started == Component \ ToSet(origins)
Origins == /\ origins \in Seq(Component)
           /\ \A i, j \in DOMAIN origins : i < j => origins[i] < origins[j]
           /\ \A i \in DOMAIN origins : \A v \in Started : v < origins[i]
OnTrail(q) == /\ Walked(q, Component) /\ q[1] \in Started
              /\ \A v \in Started : v <= q[1]
Trail == /\ trail \in Seq(Seq(Component))
         /\ \A i \in DOMAIN trail : OnTrail(trail[i])

\* With fewer cycles than asked for, those of the component that are not found
\* yet begin with a path of the stack, or with a file to start from.
HereSoFar ==
    /\ ByKey(here) /\ \A p \in DOMAIN here : p[1] \in Started
    /\ trail # <<>> \/ origins # <<>> => Few(here)
    /\ Few(here) => \A p \in AllCycles : p[1] \in Started =>
                       p \in DOMAIN here \/ \E i \in DOMAIN trail : Begins(trail[i], p)

Walking == /\ components # <<>> /\ Cardinality(Component) > 2
           /\ Origins /\ Trail /\ HereSoFar

-----------------------------------------------------------------------------
(* The rows of the check.                                                  *)

Wanted(p) == Accepted(ToSet(p))

Printed == /\ Len(pairs) \in Nat /\ Len(pairs) <= rowLimit
           /\ lines \in Seq(seen) /\ IsInjective(lines) /\ Len(lines) <= rowLimit - Len(pairs)
           /\ \A i \in DOMAIN lines : Wanted(lines[i])
           /\ seen \subseteq AllCycles /\ fetchCap \in Nat
           /\ Cardinality(seen) <= MaxScan =>
                 \A p \in seen : Wanted(p) => p \in ToSet(lines)

Busy == phase \in {"components", "next component", "walk", "accept"}

\* There is room for a row, and a cycle is asked for.
Asking == /\ phase = "produce" => Len(pairs) < rowLimit /\ fetchCap >= 1
          /\ Busy => Len(lines) < Room /\ fetchCap >= 1

Accepting == /\ candidates \in Seq(AllCycles)
             /\ short => AllCycles \subseteq seen \cup ToSet(candidates)

AllFound == /\ Len(pairs) + Len(lines) < rowLimit
            /\ fetchCap <= MaxScan /\ Cardinality(seen) <= MaxScan
            => \A p \in AllCycles : Wanted(p) => p \in ToSet(lines)

CheckInv == /\ next \in Graphs /\ rowLimit \in CycleLimits
            /\ phase = "pairs" => lines = <<>> /\ seen = {}
            /\ Printed /\ Asking
            /\ phase = "components" => found = <<>> /\ trail = <<>>
            /\ phase = "next component" => FoundSoFar /\ trail = <<>>
            /\ phase = "walk" => FoundSoFar /\ Walking
            /\ phase = "accept" => Accepting
            /\ phase = "done" => AllFound

-----------------------------------------------------------------------------
(* The lines in order.                                                     *)

\* Of two paths one comes first, and what comes first of three does so of any.
LEMMA BeforeOrders ==
    ASSUME NEW p \in Seq(Nat), NEW q \in Seq(Nat)
    PROVE  /\ ~Before(p, p)
           /\ p = q \/ Before(p, q) \/ Before(q, p)
           /\ \A r \in Seq(Nat) : Before(p, q) /\ Before(q, r) => Before(p, r)
<1>1. /\ Len(p) \in Nat /\ DOMAIN p = 1..Len(p)
      /\ Len(q) \in Nat /\ DOMAIN q = 1..Len(q)
  BY LenProperties
<1>2. /\ \A i \in DOMAIN p : p[i] \in Nat
      /\ \A i \in DOMAIN q : q[i] \in Nat
  BY <1>1, ElementOfSeq
<1>3. ~Before(p, p)
  BY <1>2 DEF Before
<1>4. ASSUME p # q PROVE Before(p, q) \/ Before(q, p)
  <2> DEFINE D == {i \in DOMAIN q : i \in DOMAIN p => p[i] # q[i]}
  <2>1. D \in SUBSET Nat
    BY <1>1
  <2>2. CASE D = {}
    <3>1. \A i \in 1..Len(q) : i \in 1..Len(p) /\ p[i] = q[i]
      BY <1>1, <2>2
    <3>2. Len(q) < Len(p)
      <4>1. Len(q) <= Len(p)
        <5>1. CASE Len(q) = 0
          BY <1>1, <5>1
        <5>2. CASE Len(q) # 0
          <6>1. Len(q) \in 1..Len(q)
            BY <1>1, <5>2
          <6> QED
            BY <1>1, <3>1, <6>1
        <5> QED
          BY <5>1, <5>2
      <4>2. Len(q) # Len(p)
        BY <1>4, <3>1, SeqEqual
      <4>3. Len(p) \in Nat /\ Len(q) \in Nat
        BY <1>1
      <4> QED
        BY ONLY <4>1, <4>2, <4>3
    <3> DEFINE n == Len(q) + 1
    <3>3. n \in DOMAIN p /\ n \notin DOMAIN q /\ \A i \in 1..(n - 1) : i \in DOMAIN q /\ q[i] = p[i]
      BY <1>1, <3>1, <3>2
    <3> HIDE DEF n
    <3> QED
      BY <3>3 DEF Before
  <2>3. CASE D # {}
    <3> HIDE DEF D
    <3>1. PICK n \in D : \A k \in D : n <= k
      BY <2>1, <2>3, LeastNumber
    <3>2. n \in DOMAIN q /\ n \in Nat /\ (n \in DOMAIN p => p[n] # q[n])
      BY <2>1 DEF D
    <3>3. \A i \in 1..(n - 1) : i \in DOMAIN p /\ i \in DOMAIN q /\ p[i] = q[i]
      <4> SUFFICES ASSUME NEW i \in 1..(n - 1)
                   PROVE  i \in DOMAIN p /\ i \in DOMAIN q /\ p[i] = q[i]
        OBVIOUS
      <4>1. i \in DOMAIN q /\ ~(n <= i)
        BY <1>1, <3>2
      <4>2. i \notin D
        BY <3>1, <4>1
      <4> QED
        BY <4>1, <4>2 DEF D
    <3>4. CASE n \notin DOMAIN p
      BY <3>2, <3>3, <3>4 DEF Before
    <3>5. CASE n \in DOMAIN p
      <4>1. p[n] \in Nat /\ q[n] \in Nat /\ p[n] # q[n]
        BY <1>2, <3>2, <3>5
      <4>2. p[n] < q[n] \/ q[n] < p[n]
        BY <4>1
      <4> QED
        BY <3>2, <3>3, <3>5, <4>2 DEF Before
    <3> QED
      BY <3>4, <3>5
  <2> QED
    BY <2>2, <2>3
<1>5. ASSUME NEW r \in Seq(Nat), Before(p, q), Before(q, r) PROVE Before(p, r)
  <2>1. /\ Len(r) \in Nat /\ DOMAIN r = 1..Len(r)
        /\ \A i \in DOMAIN r : r[i] \in Nat
    BY LenProperties, ElementOfSeq
  <2>2. PICK n \in DOMAIN q : /\ \A i \in 1..(n - 1) : i \in DOMAIN p /\ p[i] = q[i]
                              /\ n \in DOMAIN p => p[n] < q[n]
    BY <1>5 DEF Before
  <2>3. PICK m \in DOMAIN r : /\ \A i \in 1..(m - 1) : i \in DOMAIN q /\ q[i] = r[i]
                              /\ m \in DOMAIN q => q[m] < r[m]
    BY <1>5 DEF Before
  <2>4. n \in Nat /\ m \in Nat /\ n >= 1 /\ m >= 1
    BY <1>1, <2>1
  <2>5. CASE n < m
    <3>1. n \in DOMAIN r /\ q[n] = r[n]
      <4>1. n \in 1..(m - 1) /\ n \in 1..Len(r)
        BY <2>1, <2>4, <2>5
      <4> QED
        BY <2>1, <2>3, <4>1
    <3>2. \A i \in 1..(n - 1) : i \in DOMAIN p /\ p[i] = r[i]
      BY <2>2, <2>3, <2>4, <2>5
    <3> QED
      BY <2>2, <3>1, <3>2 DEF Before
  <2>6. CASE ~(n < m)
    <3>1. \A i \in 1..(m - 1) : i \in DOMAIN p /\ p[i] = r[i]
      <4> SUFFICES ASSUME NEW i \in 1..(m - 1) PROVE i \in DOMAIN p /\ p[i] = r[i]
        OBVIOUS
      <4>1. i \in 1..(n - 1)
        BY <2>4, <2>6
      <4> QED
        BY <2>2, <2>3, <4>1
    <3>2. m \in DOMAIN q
      BY <1>1, <2>4, <2>6
    <3>3. ASSUME m \in DOMAIN p PROVE p[m] < r[m]
      <4>1. q[m] < r[m] /\ q[m] \in Nat /\ r[m] \in Nat /\ p[m] \in Nat
        BY <1>2, <2>1, <2>3, <3>2, <3>3
      <4>2. p[m] <= q[m]
        <5>1. CASE m = n
          <6>1. p[m] < q[m]
            BY <2>2, <3>3, <5>1
          <6> QED
            BY <4>1, <6>1
        <5>2. CASE m # n
          <6>1. m \in 1..(n - 1)
            BY <2>4, <2>6, <5>2
          <6>2. p[m] = q[m]
            BY <2>2, <6>1
          <6> QED
            BY <4>1, <6>2
        <5> QED
          BY <5>1, <5>2
      <4> QED
        BY <4>1, <4>2
    <3> QED
      BY <3>1, <3>3 DEF Before
  <2> QED
    BY <2>5, <2>6
<1> QED
  BY <1>3, <1>4, <1>5

\* sortedCycleValues: every line once.
LEMMA LinesInOrder ==
    ASSUME NEW S \in SUBSET Seq(Nat), IsFiniteSet(S), <<>> \notin S
    PROVE  LET s == Ordered(S, LineBefore)
           IN  /\ s \in Seq(S) /\ Len(s) = Cardinality(S) /\ Cardinality(S) \in Nat
               /\ ToSet(s) = S /\ IsInjective(s)
<1> DEFINE R == {x \in S \X S : LineBefore(x[1], x[2])}
           n == Cardinality(S)
           s == Ordered(S, LineBefore)
           Line(p) == Append(p, p[1])
<1>1. \A x, y \in S : <<x, y>> \in R <=> LineBefore(x, y)
  OBVIOUS
<1>2. \A p \in S : Line(p) \in Seq(Nat)
  <2> SUFFICES ASSUME NEW p \in S PROVE Line(p) \in Seq(Nat)
    OBVIOUS
  <2>1. p \in Seq(Nat) /\ Len(p) \in Nat /\ Len(p) # 0
    BY EmptySeq, LenProperties
  <2>2. p[1] \in Nat
    BY <2>1, ElementOfSeq
  <2> QED
    BY <2>1, <2>2, AppendProperties
<1>3. \A p, q \in S : Line(p) = Line(q) => p = q
  <2> SUFFICES ASSUME NEW p \in S, NEW q \in S, Line(p) = Line(q) PROVE p = q
    OBVIOUS
  <2>0. p \in Seq(Nat) /\ q \in Seq(Nat)
    OBVIOUS
  <2>1. /\ Len(p) \in Nat /\ Len(Line(p)) = Len(p) + 1
        /\ \A i \in 1..Len(p) : Line(p)[i] = p[i]
    BY ONLY <2>0, Appended
  <2>2. /\ Len(q) \in Nat /\ Len(Line(q)) = Len(q) + 1
        /\ \A i \in 1..Len(q) : Line(q)[i] = q[i]
    BY ONLY <2>0, Appended
  <2> HIDE DEF Line
  <2>3. Len(p) = Len(q) /\ \A i \in 1..Len(p) : p[i] = q[i]
    BY <2>1, <2>2
  <2> QED
    BY <2>3, SeqEqual
<1>4. \A p, q \in S : LineBefore(p, q) <=> Before(Line(p), Line(q))
  BY DEF LineBefore
<1> HIDE DEF R, Line
<1>5. OrdersStrictly(R, S)
  <2>1. \A x \in S : <<x, x>> \notin R
    BY <1>1, <1>2, <1>4, BeforeOrders
  <2>2. ASSUME NEW x \in S, NEW y \in S, NEW z \in S, <<x, y>> \in R, <<y, z>> \in R
        PROVE  <<x, z>> \in R
    <3>1. Before(Line(x), Line(y)) /\ Before(Line(y), Line(z))
      BY <1>1, <1>4, <2>2
    <3>2. Before(Line(x), Line(z))
      BY <1>2, <3>1, BeforeOrders
    <3> QED
      BY <1>1, <1>4, <3>2
  <2>3. ASSUME NEW x \in S, NEW y \in S
        PROVE  x = y \/ <<x, y>> \in R \/ <<y, x>> \in R
    <3>1. \/ Line(x) = Line(y) \/ Before(Line(x), Line(y))
          \/ Before(Line(y), Line(x))
      BY <1>2, BeforeOrders
    <3> QED
      BY <1>1, <1>3, <1>4, <3>1
  <2> QED
    BY <2>1, <2>2, <2>3 DEF OrdersStrictly
<1>6. \A r \in S : Cardinality({q \in S : LineBefore(q, r)}) = Rank(S, R, r)
  <2> SUFFICES ASSUME NEW r \in S
               PROVE  {q \in S : LineBefore(q, r)} = {y \in S : <<y, r>> \in R}
    BY DEF Rank
  <2> QED
    BY <1>1
<1>7. \A i \in 1..n : \E r \in S : Cardinality({q \in S : LineBefore(q, r)}) = i - 1
  BY <1>5, <1>6, RanksTell
<1> DEFINE At(i) == CHOOSE r \in S : Cardinality({q \in S : LineBefore(q, r)}) = i - 1
<1>8. /\ s = [i \in 1..n |-> At(i)]
      /\ \A i \in 1..n : At(i) \in S /\ Rank(S, R, At(i)) = i - 1
  <2>1. \A i \in 1..n : At(i) \in S /\ Cardinality({q \in S : LineBefore(q, At(i))}) = i - 1
    BY <1>7
  <2>2. s = [i \in 1..n |-> At(i)]
    BY DEF Ordered
  <2> QED
    BY <1>6, <2>1, <2>2
<1> HIDE DEF s, At
<1>9. n \in Nat
  BY FS_CardinalityType
<1>10. s \in [1..n -> S] /\ \A i \in 1..n : Rank(S, R, s[i]) = i - 1
  BY <1>8
<1>11. Ranked(s, S, R)
  BY <1>5, <1>10 DEF Ranked
<1>12. /\ s \in Seq(S) /\ Len(s) = n /\ ToSet(s) = S
       /\ \A i, j \in 1..n : i < j => <<s[i], s[j]>> \in R
  BY <1>11, RankedRows DEF InOrder
<1>13. IsInjective(s)
  <2> SUFFICES ASSUME NEW i \in DOMAIN s, NEW j \in DOMAIN s, s[i] = s[j] PROVE i = j
    BY DEF IsInjective
  <2>1. i \in 1..n /\ j \in 1..n /\ s[i] \in S
    BY <1>10
  <2>2. ~(i < j) /\ ~(j < i)
    BY <1>5, <1>12, <2>1 DEF OrdersStrictly
  <2> HIDE DEF n
  <2> QED
    BY <1>9, <2>1, <2>2
<1> QED
  BY <1>9, <1>12, <1>13 DEF s

\* A function whose values are its arguments gives the lines of its arguments.
LEMMA SortedValues ==
    ASSUME NEW f, DOMAIN f \in SUBSET Seq(Nat), IsFiniteSet(DOMAIN f),
           <<>> \notin DOMAIN f, \A k \in DOMAIN f : f[k] = k, NEW limit \in Nat
    PROVE  LET s == SortedCycleValues(f, limit)
               n == Cardinality(DOMAIN f)
           IN  /\ s \in Seq(DOMAIN f) /\ IsInjective(s) /\ n \in Nat /\ Len(s) \in Nat
               /\ n < limit => Len(s) = n /\ ToSet(s) = DOMAIN f
               /\ n >= limit => Len(s) = limit
<1> DEFINE S == DOMAIN f
           all == Ordered(S, LineBefore)
           s == SortedCycleValues(f, limit)
<1>1. Range(f) = S
  BY DEF Range
<1>2. /\ all \in Seq(S) /\ Len(all) = Cardinality(S) /\ Cardinality(S) \in Nat
      /\ ToSet(all) = S /\ IsInjective(all)
  BY LinesInOrder
<1>3. s = Prefix(all, limit)
  BY <1>1 DEF SortedCycleValues
<1> HIDE DEF all, s, S
<1>4. /\ s \in Seq(S) /\ Len(s) = IF limit <= Len(all) THEN limit ELSE Len(all)
      /\ \A i \in 1..Len(s) : s[i] = all[i]
      /\ Len(all) <= limit => s = all
  BY <1>2, <1>3, FirstRows
<1>5. IsInjective(s)
  <2>1. DOMAIN s = 1..Len(s) /\ DOMAIN all = 1..Len(all)
    BY <1>2, <1>4, LenProperties
  <2>2. \A i \in 1..Len(s) : i \in 1..Len(all)
    BY <1>2, <1>4
  <2> QED
    BY <1>2, <1>4, <2>1, <2>2 DEF IsInjective
<1>6. /\ Cardinality(S) < limit => Len(s) = Cardinality(S) /\ ToSet(s) = S
      /\ Cardinality(S) >= limit => Len(s) = limit
      /\ Len(s) \in Nat
  BY <1>2, <1>4
<1> QED
  BY <1>2, <1>4, <1>5, <1>6 DEF s, S

-----------------------------------------------------------------------------
(* Rotations of a cycle.                                                   *)

\* The cycle that begins with a file of this one.
Turned(p, m) == SubSeq(p, m, Len(p)) \o SubSeq(p, 1, m - 1)

LEMMA TurnedIs ==
    ASSUME NEW S, NEW p \in Seq(S), NEW m \in 1..Len(p)
    PROVE  LET r == Turned(p, m)
               n == Len(p)
           IN  /\ r \in Seq(S) /\ Len(r) = n
               /\ \A i \in 1..n : r[i] = IF i + m - 1 <= n THEN p[i + m - 1]
                                         ELSE p[i + m - 1 - n]
<1> DEFINE n == Len(p)
           a == SubSeq(p, m, n)
           b == SubSeq(p, 1, m - 1)
           k == n - m + 1
<1>1. n \in Nat /\ m \in Nat /\ m >= 1 /\ m <= n
  BY LenProperties
<1>2. a \in Seq(S) /\ Len(a) = k /\ \A i \in 1..k : a[i] = p[i + m - 1]
  <2> HIDE DEF a, b, n
  <2>1. m \in 1..(n + 1) /\ n \in (m - 1)..n /\ m \in Int /\ n \in Int
    BY <1>1
  <2>2. /\ SubSeq(p, m, n) \in Seq(S)
        /\ Len(SubSeq(p, m, n)) = IF m <= n THEN n - m + 1 ELSE 0
        /\ \A i \in 1..(n - m + 1) : SubSeq(p, m, n)[i] = p[m + i - 1]
    BY <2>1, SubSeqProperties DEF n
  <2>3. \A i \in 1..k : m + i - 1 = i + m - 1
    BY <1>1
  <2> QED
    BY <1>1, <2>2, <2>3 DEF a
<1>3. b \in Seq(S) /\ Len(b) = m - 1 /\ \A i \in 1..(m - 1) : b[i] = p[i]
  <2> DEFINE l == m - 1
  <2>1. l \in Nat /\ l <= n
    BY <1>1
  <2> HIDE DEF l, n
  <2>2. SubSeq(p, 1, l) \in Seq(S) /\ Len(SubSeq(p, 1, l)) = l
        /\ \A i \in 1..l : SubSeq(p, 1, l)[i] = p[i]
    BY <1>1, <2>1, SubSeqProperties DEF n
  <2> QED
    BY <2>2 DEF l
<1> HIDE DEF a, b
<1>4. /\ a \o b \in Seq(S) /\ Len(a \o b) = Len(a) + Len(b)
      /\ \A i \in 1..(Len(a) + Len(b)) :
            (a \o b)[i] = IF i <= Len(a) THEN a[i] ELSE b[i - Len(a)]
  BY <1>2, <1>3, ConcatProperties
<1>5. Len(a) + Len(b) = n /\ Len(a) = k
  BY <1>1, <1>2, <1>3
<1>6. ASSUME NEW i \in 1..n
      PROVE  (a \o b)[i] = IF i + m - 1 <= n THEN p[i + m - 1] ELSE p[i + m - 1 - n]
  <2>1. CASE i <= k
    <3>1. i \in 1..k /\ i + m - 1 <= n
      BY <1>1, <2>1
    <3> QED
      BY <1>2, <1>4, <1>5, <2>1, <3>1
  <2>2. CASE ~(i <= k)
    <3>1. i - k \in 1..(m - 1) /\ ~(i + m - 1 <= n) /\ i - k = i + m - 1 - n
      BY <1>1, <2>2
    <3> HIDE DEF k
    <3>2. (a \o b)[i] = b[i - k]
      BY <1>4, <1>5, <2>2
    <3> QED
      BY <1>3, <3>1, <3>2
  <2> QED
    BY <2>1, <2>2
<1>7. Turned(p, m) = a \o b
  BY DEF Turned, a, b
<1> HIDE DEF n
<1> QED
  BY <1>4, <1>5, <1>6, <1>7 DEF n

\* The least rotation is the one that begins with the least file, when each file
\* is in the cycle once.
LEMMA LeastTurn ==
    ASSUME NEW p \in Seq(Nat), IsInjective(p), NEW m \in 1..Len(p),
           \A i \in 1..Len(p) : p[m] <= p[i]
    PROVE  MinRotation(p) = Turned(p, m)
<1> DEFINE n == Len(p)
<1>1. n \in Nat /\ DOMAIN p = 1..n /\ m \in Nat /\ 1 <= m /\ m <= n
  BY LenProperties
<1>2. \A i \in 1..n : p[i] \in Nat
  BY <1>1, ElementOfSeq
<1>3. Rotations(p) = {Turned(p, i) : i \in 1..n}
  BY <1>1 DEF Rotations, Turned
<1>4. ASSUME NEW i \in 1..n
      PROVE  /\ Len(Turned(p, i)) = n /\ DOMAIN Turned(p, i) = 1..n
             /\ Turned(p, i)[1] = p[i]
  <2>1. /\ Turned(p, i) \in Seq(Nat) /\ Len(Turned(p, i)) = n
        /\ \A j \in 1..n : Turned(p, i)[j] = IF j + i - 1 <= n THEN p[j + i - 1]
                                             ELSE p[j + i - 1 - n]
    BY TurnedIs
  <2>2. 1 \in 1..n /\ 1 + i - 1 = i /\ i <= n
    BY <1>1
  <2>3. Turned(p, i)[1] = p[i]
    BY <2>1, <2>2
  <2> QED
    BY <2>1, <2>3, LenProperties
<1>5. \A i \in 1..n : i # m => p[m] < p[i]
  <2> SUFFICES ASSUME NEW i \in 1..n, i # m PROVE p[m] < p[i]
    OBVIOUS
  <2>1. p[i] # p[m]
    BY <1>1 DEF IsInjective
  <2> QED
    BY <1>2, <2>1
<1> HIDE DEF n
<1>6. 1 \in 1..n
  BY <1>1
<1>7. \A q \in Rotations(p) : q = Turned(p, m) \/ Before(Turned(p, m), q)
  <2> SUFFICES ASSUME NEW i \in 1..n, i # m PROVE Before(Turned(p, m), Turned(p, i))
    BY <1>3
  <2>1. Turned(p, m)[1] < Turned(p, i)[1] /\ 1 \in DOMAIN Turned(p, i)
    BY <1>1, <1>4, <1>5, <1>6
  <2>2. 1..(1 - 1) = {}
    OBVIOUS
  <2> QED
    BY <2>1, <2>2 DEF Before
<1>8. Turned(p, m) \in Rotations(p)
  BY <1>1, <1>3
<1>9. ASSUME NEW r \in Rotations(p), \A q \in Rotations(p) : q = r \/ Before(r, q)
      PROVE  r = Turned(p, m)
  <2>1. PICK i \in 1..n : r = Turned(p, i)
    BY <1>3
  <2>2. CASE i = m
    BY <2>1, <2>2
  <2>3. CASE i # m
    <3> DEFINE q == Turned(p, m)
    <3>1. q[1] < r[1] /\ q[1] \in Nat /\ r[1] \in Nat
      BY <1>1, <1>2, <1>4, <1>5, <2>1, <2>3
    <3> HIDE DEF q
    <3>2. CASE q = r
      BY <3>1, <3>2
    <3>3. CASE Before(r, q)
      <4>1. DOMAIN q = 1..n /\ DOMAIN r = 1..n
        BY <1>1, <1>4, <2>1 DEF q
      <4>2. PICK k \in 1..n : /\ \A j \in 1..(k - 1) : r[j] = q[j]
                              /\ k \in DOMAIN r => r[k] < q[k]
        BY <3>3, <4>1 DEF Before
      <4>3. CASE k = 1
        BY <3>1, <4>1, <4>2, <4>3
      <4>4. CASE k # 1
        <5>1. 1 \in 1..(k - 1)
          BY <1>1, <4>4
        <5> QED
          BY <3>1, <4>2, <5>1
      <4> QED
        BY <4>3, <4>4
    <3> QED
      BY <1>8, <1>9, <3>2, <3>3 DEF q
  <2> QED
    BY <2>2, <2>3
<1> QED
  BY <1>7, <1>8, <1>9 DEF MinRotation

-----------------------------------------------------------------------------
(* Cycles and their components.                                            *)

\* From each file of a path the later ones are reached.
LEMMA PathReaches ==
    ASSUME NEW g \in Graphs, NEW p \in Seq(FilesOf(g)),
           \A i \in 1..(Len(p) - 1) : IsEdge(g, p[i], p[i + 1])
    PROVE  \A i, j \in 1..Len(p) : i <= j => p[j] \in ReachableFrom(g, p[i])
<1> SUFFICES ASSUME NEW i \in 1..Len(p)
             PROVE  \A j \in 1..Len(p) : i <= j => p[j] \in ReachableFrom(g, p[i])
  OBVIOUS
<1> DEFINE n == Len(p)
           S == {j \in 1..n : i <= j /\ p[j] \notin ReachableFrom(g, p[i])}
<1>1. n \in Nat /\ \A j \in 1..n : p[j] \in FilesOf(g)
  BY LenProperties, ElementOfSeq
<1>2. SUFFICES ASSUME S # {} PROVE FALSE
  OBVIOUS
<1>3. S \in SUBSET Nat
  BY <1>1
<1> HIDE DEF S
<1>4. PICK m \in S : \A k \in S : m <= k
  BY <1>2, <1>3, LeastNumber
<1>5. m \in 1..n /\ i <= m /\ p[m] \notin ReachableFrom(g, p[i])
  BY DEF S
<1>6. p[i] \in ReachableFrom(g, p[i])
  BY <1>1, Reaching
<1>7. m # i
  BY <1>5, <1>6
<1>8. m - 1 \in 1..(n - 1) /\ i <= m - 1 /\ m - 1 \in 1..n /\ m = (m - 1) + 1 /\ ~(m <= m - 1)
  BY <1>1, <1>5, <1>7
<1>9. p[m - 1] \in ReachableFrom(g, p[i])
  BY <1>4, <1>8 DEF S
<1>10. p[m] \in ToSet(SuccessorsIn(g, p[m - 1]))
  BY <1>8 DEF IsEdge, SuccessorsIn
<1>11. p[m] \in ReachableFrom(g, p[m - 1])
  BY <1>10, ReachingEdge
<1> QED
  BY <1>5, <1>9, <1>11, Reaching

\* The file after the last one is the first.
LEMMA Following ==
    ASSUME NEW n \in Nat, NEW i \in 1..n
    PROVE  (i % n) + 1 = IF i = n THEN 1 ELSE i + 1
<1>1. CASE i = n
  <2>1. n % n = 0
    BY <1>1
  <2> QED
    BY <1>1, <2>1
<1>2. CASE i # n
  <2>1. i % n = i
    BY <1>2
  <2> QED
    BY <1>2, <2>1
<1> QED
  BY <1>1, <1>2

\* A cycle is a path without repetition that returns to its least file.
Closed(g, p) ==
    /\ IsInjective(p)
    /\ \A i \in 1..Len(p) : p[1] <= p[i]
    /\ \A i \in 1..(Len(p) - 1) : IsEdge(g, p[i], p[i + 1])
    /\ IsEdge(g, p[Len(p)], p[1])
    /\ Cardinality(ComponentOf(g, p[1])) > 2

LEMMA ClosedIsCycle ==
    ASSUME NEW g, NEW S, NEW p \in Seq(S), p # <<>>
    PROVE  IsSimpleCycle(g, p) <=> Closed(g, p)
<1> DEFINE n == Len(p)
<1>1. n \in Nat /\ DOMAIN p = 1..n /\ n \in 1..n
  BY LenProperties, EmptySeq
<1>2. \A i \in 1..n : (i % n) + 1 = IF i = n THEN 1 ELSE i + 1
  BY <1>1, Following
<1>3. \A i \in 1..n : i # n <=> i \in 1..(n - 1)
  <2>1. n \in Nat
    BY <1>1
  <2> HIDE DEF n
  <2> QED
    BY ONLY <2>1
<1>4. (\A i \in 1..n : IsEdge(g, p[i], p[(i % n) + 1]))
         <=> /\ \A i \in 1..(n - 1) : IsEdge(g, p[i], p[i + 1])
             /\ IsEdge(g, p[n], p[1])
  <2> HIDE DEF n
  <2>1. ASSUME \A i \in 1..n : IsEdge(g, p[i], p[(i % n) + 1])
        PROVE  /\ \A i \in 1..(n - 1) : IsEdge(g, p[i], p[i + 1])
               /\ IsEdge(g, p[n], p[1])
    <3>1. ASSUME NEW i \in 1..(n - 1) PROVE IsEdge(g, p[i], p[i + 1])
      <4>1. i \in 1..n /\ i # n
        BY <1>1
      <4>2. (i % n) + 1 = i + 1
        BY <1>2, <4>1
      <4> QED
        BY <2>1, <4>1, <4>2
    <3>2. (n % n) + 1 = 1
      BY <1>1, <1>2
    <3> QED
      BY <1>1, <2>1, <3>1, <3>2
  <2>2. ASSUME \A i \in 1..(n - 1) : IsEdge(g, p[i], p[i + 1]),
               IsEdge(g, p[n], p[1]), NEW i \in 1..n
        PROVE  IsEdge(g, p[i], p[(i % n) + 1])
    <3>1. CASE i = n
      BY <1>2, <2>2, <3>1
    <3>2. CASE i # n
      <4>1. (i % n) + 1 = i + 1 /\ i \in 1..(n - 1)
        BY <1>2, <1>3, <3>2
      <4> QED
        BY <2>2, <4>1
    <3> QED
      BY <3>1, <3>2
  <2> QED
    BY <2>1, <2>2
<1> QED
  BY <1>1, <1>4 DEF IsSimpleCycle, Closed

\* The cycles of a graph are finitely many: none has a file twice.
LEMMA CyclesAre ==
    ASSUME next \in Graphs
    PROVE  /\ IsFiniteSet(AllCycles) /\ <<>> \notin AllCycles
           /\ AllCycles \subseteq Seq(Files) /\ AllCycles \subseteq Seq(Nat)
           /\ \A p : p \in AllCycles <=> /\ p \in Seq(Files) /\ Len(p) \in 2..MaxDepth
                                         /\ Closed(next, p)
<1> DEFINE m == Cardinality(Files)
           longest == Min({MaxDepth, m})
           walks == [n \in 2..longest |-> [1..n -> Files]]
<1>1. IsFiniteSet(Files) /\ Files \subseteq Nat /\ m \in Nat /\ MaxDepth \in Nat
  BY GraphFiles, FS_CardinalityType, CyclesAssumption DEF Files
<1>2. longest \in {MaxDepth, m} /\ longest \in Nat /\ longest <= MaxDepth /\ longest <= m
  BY <1>1, LesserOfTwo
<1> HIDE DEF longest, m
<1>3. ASSUME NEW n \in 2..longest PROVE IsFiniteSet([1..n -> Files])
  <2>1. IsFiniteSet(1..n)
    BY <1>2, FS_Interval
  <2>2. IsFiniteSet(SUBSET ((1..n) \X Files))
    BY <1>1, <2>1, FS_Product, FS_SUBSET
  <2> DEFINE graph == [f \in [1..n -> Files] |-> {<<x, f[x]>> : x \in 1..n}]
  <2>3. graph \in [[1..n -> Files] -> SUBSET ((1..n) \X Files)]
    OBVIOUS
  <2>4. ASSUME NEW f \in [1..n -> Files], NEW h \in [1..n -> Files], graph[f] = graph[h]
        PROVE  f = h
    <3>1. ASSUME NEW x \in 1..n PROVE f[x] = h[x]
      <4>1. <<x, f[x]>> \in {<<y, h[y]>> : y \in 1..n}
        BY <2>4
      <4> QED
        BY <4>1
    <3> QED
      BY <3>1
  <2>5. graph \in Injection([1..n -> Files], SUBSET ((1..n) \X Files))
    <3> HIDE DEF graph
    <3> QED
      BY <2>3, <2>4 DEF Injection, IsInjective
  <2> QED
    BY <2>2, <2>5, FS_Injection
<1>4. UNION {[1..n -> Files] : n \in 2..longest} = UNION Range(walks)
  BY DEF Range
<1>5. IsFiniteSet(UNION Range(walks))
  <2>1. IsFiniteSet(2..longest)
    BY <1>2, FS_Interval
  <2>2. walks \in [2..longest -> {[1..n -> Files] : n \in 2..longest}]
    OBVIOUS
  <2>3. \A T \in Range(walks) : IsFiniteSet(T)
    BY <1>3 DEF Range
  <2> HIDE DEF walks
  <2>4. IsFiniteSet(Range(walks))
    BY <2>1, <2>2, FiniteImage
  <2> QED
    BY <2>3, <2>4, FS_UNION
<1>6. AllCycles = {p \in UNION {[1..n -> Files] : n \in 2..longest} : IsSimpleCycle(next, p)}
  BY DEF AllCycles, SimpleCycles, Files, longest, m
<1>7. IsFiniteSet(AllCycles)
  <2> HIDE DEF walks
  <2>1. AllCycles \in SUBSET UNION Range(walks)
    BY <1>4, <1>6
  <2> QED
    BY <1>5, <2>1, FS_Subset
<1> HIDE DEF walks
<1>8. ASSUME NEW p \in AllCycles
      PROVE  /\ p \in Seq(Files) /\ Len(p) \in 2..MaxDepth /\ Closed(next, p)
  <2>1. PICK n \in 2..longest : p \in [1..n -> Files]
    BY <1>6
  <2>2. n \in Nat /\ n \in 2..MaxDepth /\ n # 0
    BY <1>1, <1>2
  <2>3. p \in Seq(Files) /\ Len(p) = n /\ p # <<>>
    BY <2>1, <2>2, EmptySeq
  <2>4. IsSimpleCycle(next, p)
    BY <1>6
  <2> QED
    BY <2>2, <2>3, <2>4, ClosedIsCycle
<1>9. ASSUME NEW p \in Seq(Files), Len(p) \in 2..MaxDepth, Closed(next, p)
      PROVE  p \in AllCycles
  <2>1. PICK n \in Nat : n = Len(p)
    BY LenProperties
  <2>2. p \in [1..n -> Files] /\ p # <<>>
    BY <1>1, <1>9, <2>1, LenProperties, EmptySeq
  <2>3. p \in Injection(1..n, Files)
    BY <1>9, <2>2 DEF Closed, Injection, IsInjective
  <2>4. Cardinality(1..n) = n /\ IsFiniteSet(1..n)
    BY FS_Interval
  <2>5. n <= m
    BY <1>1, <2>3, <2>4, FS_Injection DEF m
  <2>6. n \in 2..longest
    BY <1>1, <1>2, <1>9, <2>1, <2>5
  <2>7. IsSimpleCycle(next, p)
    BY <1>9, <2>2, ClosedIsCycle
  <2> QED
    BY <1>6, <2>2, <2>6, <2>7
<1>10. <<>> \notin AllCycles
  BY <1>1, <1>8, EmptySeq
<1>11. AllCycles \subseteq Seq(Nat)
  BY <1>1, <1>8, SeqMonotonic
<1> QED
  BY <1>7, <1>8, <1>9, <1>10, <1>11

\* All files of a cycle are in the component of its first.
LEMMA CycleStays ==
    ASSUME next \in Graphs, NEW p \in AllCycles
    PROVE  /\ \A i \in 1..Len(p) : p[i] \in ComponentOf(next, p[1])
           /\ p[1] \in Files
<1>1. p \in Seq(Files) /\ Len(p) \in 2..MaxDepth /\ Closed(next, p) /\ MaxDepth \in Nat
  BY CyclesAre, CyclesAssumption
<1>2. 1 \in 1..Len(p) /\ Len(p) \in 1..Len(p)
  BY <1>1
<1>3. \A i \in 1..Len(p) : p[i] \in Files
  BY <1>1, ElementOfSeq
<1>4. \A i, j \in 1..Len(p) : i <= j => p[j] \in ReachableFrom(next, p[i])
  BY <1>1, PathReaches DEF Closed, Files
<1>5. p[1] \in ReachableFrom(next, p[Len(p)])
  <2>1. p[1] \in ToSet(SuccessorsIn(next, p[Len(p)]))
    BY <1>1 DEF Closed, IsEdge, SuccessorsIn
  <2> QED
    BY <2>1, ReachingEdge
<1>6. ASSUME NEW i \in 1..Len(p) PROVE p[i] \in ComponentOf(next, p[1])
  <2>1. 1 <= i /\ i <= Len(p)
    BY <1>1
  <2>2. p[i] \in ReachableFrom(next, p[1]) /\ p[Len(p)] \in ReachableFrom(next, p[i])
    BY <1>2, <1>4, <2>1
  <2>3. p[1] \in ReachableFrom(next, p[i])
    BY <1>5, <2>2, Reaching
  <2> QED
    BY <2>2, <2>3 DEF ComponentOf
<1> QED
  BY <1>2, <1>3, <1>6

-----------------------------------------------------------------------------
(* Keys.                                                                   *)

\* A sequence that a key has room for is its own beginning.
LEMMA WholeKey ==
    ASSUME NEW S, NEW r \in Seq(S), Len(r) <= MaxDepth
    PROVE  SubSeq(r, 1, Min({Len(r), KeyWidth})) = r
<1>1. Len(r) \in Nat /\ KeyWidth \in Nat /\ Len(r) <= KeyWidth
  BY LenProperties, CyclesAssumption
<1>2. Min({Len(r), KeyWidth}) = Len(r)
  BY <1>1, LesserOfTwo
<1> QED
  BY <1>2, SubSeqFull

\* A cycle begins with its least file, and is its own key.
LEMMA KeyOfCycle ==
    ASSUME next \in Graphs, NEW p \in AllCycles
    PROVE  MinRotation(p) = p /\ Key(p) = p
<1>1. /\ p \in Seq(Nat) /\ Len(p) \in 2..MaxDepth /\ IsInjective(p)
      /\ \A i \in 1..Len(p) : p[1] <= p[i]
  BY CyclesAre DEF Closed
<1>2. Len(p) \in Nat /\ Len(p) <= MaxDepth /\ 1 \in 1..Len(p)
  BY <1>1, CyclesAssumption
<1>3. MinRotation(p) = Turned(p, 1)
  BY <1>1, <1>2, LeastTurn
<1>4. Turned(p, 1) = p
  <2>1. /\ Turned(p, 1) \in Seq(Nat) /\ Len(Turned(p, 1)) = Len(p)
        /\ \A i \in 1..Len(p) : Turned(p, 1)[i] = IF i + 1 - 1 <= Len(p) THEN p[i + 1 - 1]
                                                  ELSE p[i + 1 - 1 - Len(p)]
    BY <1>1, <1>2, TurnedIs
  <2>2. \A i \in 1..Len(p) : i + 1 - 1 = i /\ i <= Len(p)
    BY <1>2
  <2>3. \A i \in 1..Len(p) : Turned(p, 1)[i] = p[i]
    BY <2>1, <2>2
  <2> QED
    BY <1>1, <2>1, <2>3, SeqEqual
<1>5. MinRotation(p) = p
  BY <1>3, <1>4
<1>6. Key(p) = SubSeq(p, 1, Min({Len(p), KeyWidth}))
  BY <1>5 DEF Key
<1> QED
  BY <1>1, <1>2, <1>5, <1>6, WholeKey

\* Where the files of a turned cycle come from.
Origin(n, m, i) == IF i + m - 1 <= n THEN i + m - 1 ELSE i + m - 1 - n

LEMMA OriginMoves ==
    ASSUME NEW n \in Nat, NEW m \in 1..n
    PROVE  /\ \A i \in 1..n : Origin(n, m, i) \in 1..n
           /\ \A i, j \in 1..n : Origin(n, m, i) = Origin(n, m, j) => i = j
           /\ Origin(n, m, 1) = m
           /\ \/ Origin(n, m, n) = n /\ m = 1
              \/ Origin(n, m, n) \in 1..(n - 1) /\ m = Origin(n, m, n) + 1
BY DEF Origin

LEMMA OriginFollows ==
    ASSUME NEW n \in Nat, NEW m \in 1..n, NEW i \in 1..(n - 1)
    PROVE  \/ Origin(n, m, i) = n /\ Origin(n, m, i + 1) = 1
           \/ /\ Origin(n, m, i) \in 1..(n - 1)
              /\ Origin(n, m, i + 1) = Origin(n, m, i) + 1
BY DEF Origin

\* A path that returns to its beginning has a cycle for its key, the same one
\* if it begins with its least file.
LEMMA KeyOfWalk ==
    ASSUME next \in Graphs, NEW S \in SUBSET Files, Cardinality(S) > 2,
           \A v \in S : S = ComponentOf(next, v),
           NEW path, Walked(path, S), Len(path) \in 2..MaxDepth,
           IsEdge(next, path[Len(path)], path[1])
    PROVE  /\ Key(path) \in AllCycles /\ Key(path)[1] \in S
           /\ Key(path)[1] <= path[1]
           /\ Key(path)[1] = path[1] => Key(path) = path
<1> DEFINE n == Len(path)
<1>1. /\ path \in Seq(S) /\ path # <<>> /\ IsInjective(path)
      /\ \A i \in 1..(n - 1) : IsEdge(next, path[i], path[i + 1])
  BY DEF Walked
<1>2. n \in Nat /\ DOMAIN path = 1..n /\ 1 \in 1..n /\ n <= MaxDepth
  BY <1>1, LenProperties, CyclesAssumption
<1>3. Files \subseteq Nat
  BY GraphFiles DEF Files
<1>4. path \in Seq(Nat) /\ path \in Seq(Files)
  BY <1>1, <1>3, SeqMonotonic
<1>5. \A i \in 1..n : path[i] \in S /\ path[i] \in Nat
  BY <1>1, <1>2, <1>3, ElementOfSeq
<1>6. PICK m \in 1..n : \A i \in 1..n : path[m] <= path[i]
  <2> DEFINE T == {path[i] : i \in 1..n}
  <2>1. T \in SUBSET Nat /\ T # {}
    BY <1>2, <1>5
  <2> HIDE DEF T
  <2>2. PICK k \in T : \A l \in T : k <= l
    BY <2>1, LeastNumber
  <2> QED
    BY <2>2 DEF T
<1> DEFINE r == Turned(path, m)
<1>7. MinRotation(path) = r
  BY <1>1, <1>4, <1>6, LeastTurn
<1>8. /\ r \in Seq(Files) /\ Len(r) = n
      /\ \A i \in 1..n : r[i] = path[Origin(n, m, i)]
  BY <1>4, <1>6, TurnedIs DEF Origin
<1>9. Key(path) = r
  <2>1. Key(path) = SubSeq(r, 1, Min({Len(r), KeyWidth}))
    BY <1>7 DEF Key
  <2> HIDE DEF r
  <2> QED
    BY <1>2, <1>8, <2>1, WholeKey
<1> HIDE DEF r, n
<1>10. m \in 1..n
  BY <1>6 DEF n
<1>11. r[1] = path[m]
  BY <1>2, <1>8, <1>10, OriginMoves
<1>12. Closed(next, r)
  <2>1. IsInjective(r)
    <3>1. DOMAIN r = 1..n
      BY <1>8, LenProperties
    <3>2. ASSUME NEW i \in 1..n, NEW j \in 1..n, r[i] = r[j] PROVE i = j
      <4>1. Origin(n, m, i) \in 1..n /\ Origin(n, m, j) \in 1..n
        BY <1>2, <1>10, OriginMoves
      <4>2. Origin(n, m, i) = Origin(n, m, j)
        BY <1>1, <1>2, <1>8, <3>2, <4>1 DEF IsInjective
      <4> QED
        BY <1>2, <1>10, <4>2, OriginMoves
    <3> QED
      BY <3>1, <3>2 DEF IsInjective
  <2>2. \A i \in 1..n : r[1] <= r[i]
    BY <1>2, <1>6, <1>8, <1>10, <1>11, OriginMoves DEF n
  <2>3. ASSUME NEW i \in 1..(n - 1) PROVE IsEdge(next, r[i], r[i + 1])
    <3>1. i \in 1..n /\ i + 1 \in 1..n
      BY <1>2
    <3>2. r[i] = path[Origin(n, m, i)] /\ r[i + 1] = path[Origin(n, m, i + 1)]
      BY <1>8, <3>1
    <3>3. \/ Origin(n, m, i) = n /\ Origin(n, m, i + 1) = 1
          \/ /\ Origin(n, m, i) \in 1..(n - 1)
             /\ Origin(n, m, i + 1) = Origin(n, m, i) + 1
      <4>1. n \in Nat
        BY <1>2
      <4> QED
        BY ONLY <1>10, <4>1, i \in 1..(n - 1), OriginFollows
    <3> QED
      BY <1>1, <3>2, <3>3 DEF n
  <2>4. IsEdge(next, r[n], r[1])
    <3>1. n \in 1..n
      BY <1>2
    <3>2. r[n] = path[Origin(n, m, n)]
      BY <1>8, <3>1
    <3>3. \/ Origin(n, m, n) = n /\ m = 1
          \/ Origin(n, m, n) \in 1..(n - 1) /\ m = Origin(n, m, n) + 1
      BY <1>2, <1>10, OriginMoves
    <3> QED
      BY <1>1, <1>11, <3>2, <3>3 DEF n
  <2>5. Cardinality(ComponentOf(next, r[1])) > 2
    <3>1. S = ComponentOf(next, path[m])
      BY <1>5, <1>10
    <3> QED
      BY <1>11, <3>1
  <2> QED
    BY <1>8, <2>1, <2>2, <2>3, <2>4, <2>5 DEF Closed
<1>13. r \in AllCycles
  BY <1>8, <1>12, CyclesAre DEF n
<1>14. r[1] \in S /\ r[1] <= path[1]
  BY <1>2, <1>5, <1>6, <1>10, <1>11 DEF n
<1>15. ASSUME r[1] = path[1] PROVE r = path
  <2>1. m = 1
    BY <1>1, <1>2, <1>10, <1>11, <1>15 DEF IsInjective
  <2>2. \A i \in 1..n : Origin(n, 1, i) = i
    BY <1>2 DEF Origin
  <2>3. \A i \in 1..n : r[i] = path[i]
    BY <1>8, <2>1, <2>2
  <2> QED
    BY <1>4, <1>8, <2>3, SeqEqual DEF n
<1> QED
  BY <1>9, <1>13, <1>14, <1>15

-----------------------------------------------------------------------------
(* The steps of the check that do not walk.                                *)

LEMMA SameGraph ==
    ASSUME UNCHANGED graphVars
    PROVE  /\ Files' = Files /\ AllCycles' = AllCycles
           /\ \A p : Wanted(p)' <=> Wanted(p)
BY DEF graphVars, Files, AllCycles, Wanted, Accepted

LEMMA SamePrinted ==
    ASSUME UNCHANGED graphVars, UNCHANGED <<pairs, lines, seen, fetchCap>>, Printed
    PROVE  Printed'
<1>1. AllCycles' = AllCycles /\ (\A p : Wanted(p)' <=> Wanted(p)) /\ rowLimit' = rowLimit
  BY SameGraph DEF graphVars
<1> QED
  BY <1>1 DEF Printed

LEMMA CycleInitCheck ==
    ASSUME CycleInit
    PROVE  CheckInv
<1>1. /\ next \in Graphs /\ rowLimit \in CycleLimits /\ rowLimit \in Nat
      /\ phase = "pairs" /\ lines = <<>> /\ pairs = <<>> /\ seen = {} /\ fetchCap = 0
  BY CyclesAssumption DEF CycleInit, NoSearch
<1>2. /\ Len(pairs) = 0 /\ Len(lines) = 0 /\ lines \in Seq(seen) /\ IsInjective(lines)
      /\ DOMAIN lines = {}
  BY <1>1, EmptySeq DEF IsInjective
<1>3. Printed
  BY <1>1, <1>2 DEF Printed
<1> QED
  BY <1>1, <1>3 DEF CheckInv, Asking, Busy

\* The rows of the query are finitely many, and no more than the limit.
LEMMA TwoWayRows ==
    ASSUME next \in Graphs, rowLimit \in Nat
    PROVE  Len(TwoWay) \in Nat /\ Len(TwoWay) <= rowLimit
<1> DEFINE S == TwoWayPairs(next)
           n == Cardinality(S)
           rows == Ordered(S, Before)
           first == Prefix(rows, MaxScan)
           kept == Where(first, LAMBDA p : Accepted({p[1], p[2]}))
           T == {rows[i] : i \in 1..n}
<1>1. n \in Nat
  <2>1. IsFiniteSet(FilesOf(next) \X FilesOf(next))
    BY GraphFiles, FS_Product
  <2>2. S \in SUBSET (FilesOf(next) \X FilesOf(next))
    BY DEF TwoWayPairs
  <2> HIDE DEF S
  <2> QED
    BY <2>1, <2>2, FS_Subset, FS_CardinalityType
<1>2. rows = [i \in 1..n |-> rows[i]]
  <2>1. rows = [i \in 1..n |-> CHOOSE r \in S : Cardinality({q \in S : Before(q, r)}) = i - 1]
    BY DEF Ordered
  <2> HIDE DEF rows, n, S
  <2> QED
    BY <2>1
<1> HIDE DEF rows, n
<1>3. rows \in Seq(T)
  BY <1>1, <1>2
<1> HIDE DEF T
<1>4. first \in Seq(T)
  BY <1>3, FirstRows, CyclesAssumption
<1> HIDE DEF first
<1>5. PICK P \in SUBSET DOMAIN first : kept = AtPlaces(first, P)
  BY DEF Where
<1> HIDE DEF kept
<1>6. kept \in Seq(T)
  BY <1>4, <1>5, KeptPlaces
<1>7. TwoWay = Prefix(kept, rowLimit)
  BY DEF TwoWay, kept, first, rows
<1>8. /\ Prefix(kept, rowLimit) \in Seq(T)
      /\ Len(Prefix(kept, rowLimit)) = IF rowLimit <= Len(kept) THEN rowLimit ELSE Len(kept)
  BY <1>6, FirstRows
<1> QED
  BY <1>6, <1>7, <1>8, LenProperties

LEMMA CollectPairsKeepsCheck ==
    ASSUME CheckInv, CollectPairs
    PROVE  CheckInv'
<1>1. /\ UNCHANGED graphVars /\ UNCHANGED <<lines, seen>> /\ lines = <<>> /\ seen = {}
      /\ next \in Graphs /\ rowLimit \in CycleLimits /\ rowLimit \in Nat
      /\ next' = next /\ rowLimit' = rowLimit
  BY CyclesAssumption DEF CheckInv, CollectPairs, graphVars
<1>2. /\ pairs' = TwoWay /\ fetchCap' = rowLimit - Len(pairs')
      /\ phase' = IF Len(pairs') >= rowLimit THEN "done" ELSE "produce"
  BY DEF CollectPairs
<1>3. Len(pairs') \in Nat /\ Len(pairs') <= rowLimit
  BY <1>1, <1>2, TwoWayRows
<1>4. Len(lines') = 0 /\ lines' \in Seq(seen') /\ IsInjective(lines') /\ DOMAIN lines' = {}
  BY <1>1, EmptySeq DEF IsInjective
<1>5. Printed'
  BY <1>1, <1>2, <1>3, <1>4 DEF Printed
<1>6. CASE Len(pairs') >= rowLimit
  <2>1. phase' = "done" /\ AllFound'
    BY <1>1, <1>2, <1>3, <1>4, <1>6 DEF AllFound
  <2> QED
    BY <1>1, <1>5, <2>1 DEF CheckInv, Asking, Busy
<1>7. CASE ~(Len(pairs') >= rowLimit)
  <2>1. phase' = "produce" /\ Len(pairs') < rowLimit /\ fetchCap' >= 1
    BY <1>1, <1>2, <1>3, <1>7
  <2> QED
    BY <1>1, <1>5, <2>1 DEF CheckInv, Asking, Busy
<1> QED
  BY <1>6, <1>7

LEMMA ProduceKeepsCheck ==
    ASSUME CheckInv, Produce
    PROVE  CheckInv'
<1>1. /\ UNCHANGED graphVars /\ UNCHANGED <<pairs, lines, seen, fetchCap>>
      /\ next \in Graphs /\ rowLimit \in CycleLimits /\ rowLimit \in Nat
      /\ next' = next /\ rowLimit' = rowLimit /\ found' = <<>> /\ trail' = <<>>
      /\ phase = "produce" /\ Printed
  BY CyclesAssumption DEF CheckInv, Produce, graphVars
<1>2. phase' = IF Len(lines) < Room /\ fetchCap <= MaxScan /\ Files # {}
               THEN "components" ELSE "done"
  BY DEF Produce
<1>3. Printed'
  BY <1>1, SamePrinted
<1>4. fetchCap >= 1 /\ Room' = Room
  BY <1>1 DEF CheckInv, Asking, Room
<1>5. CASE phase' = "components"
  <2>1. Len(lines) < Room
    BY <1>2, <1>5
  <2> QED
    BY <1>1, <1>3, <1>4, <1>5, <2>1 DEF CheckInv, Asking, Busy
<1>6. CASE phase' = "done"
  <2>1. ~(Len(lines) < Room) \/ ~(fetchCap <= MaxScan) \/ Files = {}
    BY <1>2, <1>6
  <2>2. Len(lines) \in Nat /\ Len(pairs) \in Nat
    BY <1>1, LenProperties DEF Printed
  <2>3. AllFound'
    <3>1. CASE ~(Len(lines) < Room)
      BY <1>1, <2>2, <3>1 DEF AllFound, Room
    <3>2. CASE ~(fetchCap <= MaxScan)
      BY <1>1, <3>2 DEF AllFound
    <3>3. CASE Files = {}
      BY <1>1, <3>3, SameGraph, CycleStays DEF AllFound
    <3> QED
      BY <2>1, <3>1, <3>2, <3>3
  <2> QED
    BY <1>1, <1>3, <1>6, <2>3 DEF CheckInv, Asking, Busy
<1> QED
  BY <1>2, <1>5, <1>6

LEMMA SearchKeepsCheck ==
    ASSUME CheckInv, PickRoot \/ LookAtNeighbour \/ LeaveVertex
    PROVE  CheckInv'
<1>1. phase = "components" /\ UNCHANGED <<graphVars, walkVars, checkVars>>
  BY DEF PickRoot, LookAtNeighbour, LeaveVertex
<1>2. /\ UNCHANGED graphVars /\ UNCHANGED <<pairs, lines, seen, fetchCap>>
      /\ next' = next /\ rowLimit' = rowLimit
      /\ phase' = phase /\ found' = found /\ trail' = trail
  BY <1>1 DEF graphVars, walkVars, checkVars
<1>3. Printed'
  BY <1>2, SamePrinted DEF CheckInv
<1> QED
  BY <1>1, <1>2, <1>3 DEF CheckInv, Asking, Busy, Room

-----------------------------------------------------------------------------
(* The candidates.                                                         *)

LEMMA FirstAndRest ==
    ASSUME NEW S, NEW s \in Seq(S), s # <<>>
    PROVE  /\ Len(s) \in Nat /\ Len(s) >= 1 /\ DOMAIN s = 1..Len(s)
           /\ Head(s) = s[1] /\ Head(s) \in S
           /\ Tail(s) \in Seq(S) /\ Len(Tail(s)) = Len(s) - 1
           /\ DOMAIN Tail(s) = 1..(Len(s) - 1)
           /\ \A i \in 1..(Len(s) - 1) : Tail(s)[i] = s[i + 1]
           /\ ToSet(s) = {Head(s)} \cup ToSet(Tail(s))
<1> DEFINE n == Len(s)
           t == Tail(s)
<1>1. n \in Nat /\ DOMAIN s = 1..n /\ n >= 1 /\ ToSet(s) = {s[i] : i \in 1..n}
  BY SequenceSet, EmptySeq
<1>2. Head(s) = s[1] /\ Head(s) \in S
  BY HeadTailProperties
<1>3. /\ t \in Seq(S) /\ Len(t) = n - 1
      /\ \A i \in 1..(n - 1) : t[i] = s[i + 1]
  BY HeadTailProperties
<1> HIDE DEF t, n
<1>4. DOMAIN t = 1..(n - 1) /\ ToSet(t) = {t[i] : i \in 1..(n - 1)}
  BY <1>3, SequenceSet
<1>5. \A i \in 1..n : i = 1 \/ (i - 1 \in 1..(n - 1) /\ t[i - 1] = s[i])
  BY <1>1, <1>3
<1>6. \A i \in 1..(n - 1) : i + 1 \in 1..n
  BY <1>1
<1>7. 1 \in 1..n
  BY <1>1
<1>8. ToSet(s) = {s[1]} \cup ToSet(t)
  <2>1. ASSUME NEW x \in ToSet(s) PROVE x \in {s[1]} \cup ToSet(t)
    BY <1>1, <1>4, <1>5, <2>1
  <2>2. ASSUME NEW x \in ToSet(t) PROVE x \in ToSet(s)
    BY <1>1, <1>3, <1>4, <1>6, <2>2
  <2>3. s[1] \in ToSet(s)
    BY <1>1, <1>7
  <2> QED
    BY <2>1, <2>2, <2>3
<1> QED
  BY <1>1, <1>2, <1>3, <1>4, <1>8 DEF t, n

LEMMA AppendedOnce ==
    ASSUME NEW S, NEW s \in Seq(S), IsInjective(s), NEW e, e \notin S
    PROVE  IsInjective(Append(s, e))
<1>1. /\ Len(s) \in Nat /\ DOMAIN Append(s, e) = 1..(Len(s) + 1)
      /\ Append(s, e)[Len(s) + 1] = e
      /\ \A i \in 1..Len(s) : Append(s, e)[i] = s[i] /\ s[i] \in S
  BY Appended, ElementOfSeq
<1>2. \A i, j \in 1..Len(s) : s[i] = s[j] => i = j
  BY LenProperties DEF IsInjective
<1>3. \A i \in 1..(Len(s) + 1) : i \in 1..Len(s) \/ i = Len(s) + 1
  BY <1>1
<1> HIDE DEF IsInjective
<1>4. ASSUME NEW i \in 1..(Len(s) + 1), NEW j \in 1..(Len(s) + 1),
             Append(s, e)[i] = Append(s, e)[j]
      PROVE  i = j
  BY <1>1, <1>2, <1>3, <1>4
<1> QED
  BY <1>1, <1>4 DEF IsInjective

LEMMA RowsPrinted ==
    ASSUME Printed, next \in Graphs
    PROVE  /\ Len(pairs) \in Nat /\ Len(pairs) <= rowLimit
           /\ lines \in Seq(seen) /\ IsInjective(lines) /\ Len(lines) \in Nat
           /\ \A i \in DOMAIN lines : Wanted(lines[i])
           /\ seen \subseteq AllCycles /\ IsFiniteSet(seen) /\ fetchCap \in Nat
           /\ Cardinality(seen) <= MaxScan => \A p \in seen : Wanted(p) => p \in ToSet(lines)
<1>1. lines \in Seq(seen) /\ seen \subseteq AllCycles
  BY DEF Printed
<1>2. Len(lines) \in Nat
  BY <1>1, LenProperties
<1>3. IsFiniteSet(seen)
  <2>1. IsFiniteSet(AllCycles)
    BY CyclesAre
  <2> HIDE DEF AllCycles
  <2> QED
    BY <1>1, <2>1, FS_Subset
<1> HIDE DEF AllCycles, Wanted
<1> QED
  BY <1>1, <1>2, <1>3 DEF Printed

LEMMA AcceptKeepsCheck ==
    ASSUME CheckInv, AcceptCandidate
    PROVE  CheckInv'
<1> DEFINE line == Head(candidates)
           skip == line \in seen
           full == Cardinality(seen \cup {line}) > MaxScan
           take == ~skip /\ ~full /\ Accepted(ToSet(line))
<1>1. /\ UNCHANGED graphVars /\ UNCHANGED <<pairs, fetchCap, short>>
      /\ next \in Graphs /\ rowLimit \in CycleLimits /\ rowLimit \in Nat
      /\ next' = next /\ rowLimit' = rowLimit
      /\ phase = "accept" /\ candidates # <<>> /\ Printed /\ Accepting
      /\ Len(lines) < Room /\ fetchCap >= 1
  BY CyclesAssumption DEF CheckInv, AcceptCandidate, graphVars, Asking, Busy
<1>2. /\ seen' = seen \cup {line} /\ candidates' = Tail(candidates)
      /\ lines' = IF take THEN Append(lines, line) ELSE lines
      /\ phase' = IF ~skip /\ (full \/ Len(lines') >= Room) THEN "done" ELSE phase
  BY DEF AcceptCandidate
<1>3. /\ line \in AllCycles /\ candidates' \in Seq(AllCycles)
      /\ ToSet(candidates) = {line} \cup ToSet(candidates')
  BY <1>1, <1>2, FirstAndRest DEF Accepting
<1>4. AllCycles' = AllCycles /\ (\A p : Wanted(p)' <=> Wanted(p)) /\ Room' = Room
  BY <1>1, SameGraph DEF Room
<1>5. take <=> ~skip /\ ~full /\ Wanted(line)
  BY DEF Wanted
<1>6. /\ IsFiniteSet(seen) /\ Cardinality(seen) \in Nat /\ MaxScan \in Nat
      /\ Cardinality(seen \cup {line}) \in Nat
      /\ Cardinality(seen) <= Cardinality(seen \cup {line})
  <2>1. IsFiniteSet(seen)
    BY <1>1, RowsPrinted
  <2>2. IsFiniteSet(seen \cup {line})
    BY <2>1, FS_AddElement
  <2> QED
    BY <2>1, <2>2, FS_CardinalityType, FS_Subset, CyclesAssumption
<1> HIDE DEF line, skip, full, take
<1>7. /\ Len(pairs) \in Nat /\ Len(pairs) <= rowLimit
      /\ lines \in Seq(seen) /\ IsInjective(lines) /\ Len(lines) \in Nat
      /\ \A i \in DOMAIN lines : Wanted(lines[i])
      /\ seen \subseteq AllCycles /\ fetchCap \in Nat
      /\ Cardinality(seen) <= MaxScan => \A p \in seen : Wanted(p) => p \in ToSet(lines)
  BY ONLY <1>1, RowsPrinted
<1>8. /\ lines' \in Seq(seen') /\ IsInjective(lines')
      /\ Len(lines') = IF take THEN Len(lines) + 1 ELSE Len(lines)
      /\ \A i \in DOMAIN lines' : Wanted(lines'[i])
      /\ ToSet(lines') = IF take THEN ToSet(lines) \cup {line} ELSE ToSet(lines)
  <2>1. CASE take
    <3>1. lines' = Append(lines, line) /\ line \notin seen /\ Wanted(line)
      BY <1>2, <1>5, <2>1 DEF skip
    <3>2. /\ lines' \in Seq(seen') /\ Len(lines') = Len(lines) + 1
          /\ DOMAIN lines' = 1..(Len(lines) + 1)
          /\ lines'[Len(lines) + 1] = line
          /\ \A i \in 1..Len(lines) : lines'[i] = lines[i]
      BY <1>2, <1>7, <3>1, Appended
    <3>3. IsInjective(lines') /\ ToSet(lines') = ToSet(lines) \cup {line}
      BY <1>7, <3>1, AppendedOnce, AppendedSet
    <3>4. \A i \in DOMAIN lines' : Wanted(lines'[i])
      <4>1. DOMAIN lines = 1..Len(lines)
        BY <1>7, LenProperties
      <4>2. \A i \in 1..(Len(lines) + 1) : i \in 1..Len(lines) \/ i = Len(lines) + 1
        BY <1>7
      <4> QED
        BY <1>7, <3>1, <3>2, <4>1, <4>2
    <3> QED
      BY <2>1, <3>2, <3>3, <3>4
  <2>2. CASE ~take
    <3>1. lines' = lines
      BY <1>2, <2>2
    <3>2. lines' \in Seq(seen')
      BY <1>2, <1>7, <3>1, SeqMonotonic
    <3> QED
      BY <1>7, <2>2, <3>1, <3>2
  <2> QED
    BY <2>1, <2>2
<1>9. Len(lines') <= rowLimit - Len(pairs)
  BY <1>1, <1>7, <1>8 DEF Room
<1>10. ASSUME Cardinality(seen') <= MaxScan, NEW p \in seen', Wanted(p)
       PROVE  p \in ToSet(lines')
  <2>1. ~full /\ Cardinality(seen) <= MaxScan
    BY <1>2, <1>6, <1>10 DEF full
  <2>2. p \in seen \/ (p = line /\ ~skip)
    BY <1>2, <1>10 DEF skip
  <2>3. CASE p \in seen
    BY <1>7, <1>8, <1>10, <2>1, <2>3
  <2>4. CASE p = line /\ ~skip
    BY <1>5, <1>8, <1>10, <2>1, <2>4
  <2> QED
    BY <2>2, <2>3, <2>4
<1>11. Printed'
  <2>1. seen' \subseteq AllCycles
    BY <1>2, <1>3, <1>7
  <2>2. \A i \in DOMAIN lines' : Wanted(lines[i])'
    BY <1>4, <1>8
  <2>3. Cardinality(seen') <= MaxScan => \A p \in seen' : Wanted(p)' => p \in ToSet(lines')
    BY <1>4, <1>10
  <2> QED
    BY <1>1, <1>4, <1>7, <1>8, <1>9, <2>1, <2>2, <2>3 DEF Printed
<1>12. CASE ~skip /\ (full \/ Len(lines') >= Room)
  <2>1. phase' = "done"
    BY <1>2, <1>12
  <2>2. AllFound'
    <3>1. CASE full
      BY <1>2, <1>6, <3>1 DEF AllFound, full
    <3>2. CASE Len(lines') >= Room
      BY <1>1, <1>7, <1>8, <3>2 DEF AllFound, Room
    <3> QED
      BY <1>12, <3>1, <3>2
  <2> QED
    BY <1>1, <1>11, <2>1, <2>2 DEF CheckInv, Asking, Busy
<1>13. CASE ~(~skip /\ (full \/ Len(lines') >= Room))
  <2>1. phase' = "accept"
    BY <1>1, <1>2, <1>13
  <2>2. Len(lines') < Room
    <3>1. CASE skip
      BY <1>1, <1>5, <1>8, <3>1
    <3>2. CASE ~(Len(lines') >= Room)
      BY <1>1, <1>7, <1>8, <3>2 DEF Room
    <3> QED
      BY <1>13, <3>1, <3>2
  <2>3. Accepting'
    <3>1. short => AllCycles \subseteq seen \cup ToSet(candidates)
      BY <1>1 DEF Accepting
    <3> QED
      BY <1>1, <1>2, <1>3, <1>4, <3>1 DEF Accepting
  <2> QED
    BY <1>1, <1>4, <1>11, <2>1, <2>2, <2>3 DEF CheckInv, Asking, Busy
<1> QED
  BY <1>12, <1>13

LEMMA AskAgainKeepsCheck ==
    ASSUME CheckInv, AskAgain
    PROVE  CheckInv'
<1>1. /\ UNCHANGED graphVars /\ UNCHANGED <<pairs, lines, seen, candidates, short>>
      /\ next \in Graphs /\ rowLimit \in CycleLimits /\ rowLimit \in Nat
      /\ next' = next /\ rowLimit' = rowLimit
      /\ phase = "accept" /\ candidates = <<>> /\ Printed /\ Accepting
      /\ Len(lines) < Room /\ fetchCap >= 1
  BY CyclesAssumption DEF CheckInv, AskAgain, graphVars, Asking, Busy
<1>2. /\ phase' = IF short THEN "done" ELSE "produce"
      /\ fetchCap' = IF short THEN fetchCap ELSE fetchCap + Room
  BY DEF AskAgain, Exhausted
<1>3. AllCycles' = AllCycles /\ (\A p : Wanted(p)' <=> Wanted(p)) /\ Room' = Room
  BY <1>1, SameGraph DEF Room
<1>4. Len(pairs) \in Nat /\ Len(lines) \in Nat /\ fetchCap \in Nat /\ Len(pairs) <= rowLimit
  BY <1>1, RowsPrinted
<1>5. fetchCap' \in Nat /\ fetchCap' >= 1 /\ Len(pairs) < rowLimit
  BY <1>1, <1>2, <1>4 DEF Room
<1> HIDE DEF AllCycles, Wanted
<1>6. Printed'
  BY <1>1, <1>3, <1>5 DEF Printed
<1>7. CASE short
  <2>1. phase' = "done" /\ AllCycles \subseteq seen
    BY <1>1, <1>2, <1>7 DEF Accepting, ToSet
  <2>2. AllFound'
    BY <1>1, <1>3, <2>1 DEF AllFound, Printed
  <2> QED
    BY <1>1, <1>6, <2>1, <2>2 DEF CheckInv, Asking, Busy
<1>8. CASE ~short
  <2>1. phase' = "produce"
    BY <1>2, <1>8
  <2> QED
    BY <1>1, <1>5, <1>6, <2>1 DEF CheckInv, Asking, Busy
<1> QED
  BY <1>7, <1>8

-----------------------------------------------------------------------------
(* The components are opened.                                              *)

\* A cycle asked for is found in the component of its first file.
LEMMA FewTyped ==
    ASSUME NEW cycles, next \in Graphs, ByKey(cycles)
    PROVE  /\ IsFiniteSet(DOMAIN cycles) /\ Cardinality(DOMAIN cycles) \in Nat
           /\ DOMAIN cycles \in SUBSET Seq(Nat) /\ <<>> \notin DOMAIN cycles
<1>1. DOMAIN cycles \subseteq AllCycles
  BY DEF ByKey
<1>2. IsFiniteSet(AllCycles) /\ <<>> \notin AllCycles /\ AllCycles \subseteq Seq(Nat)
  BY CyclesAre
<1> HIDE DEF AllCycles
<1>3. IsFiniteSet(DOMAIN cycles)
  BY <1>1, <1>2, FS_Subset
<1> QED
  BY <1>1, <1>2, <1>3, FS_CardinalityType

LEMMA NoneOfThem ==
    ASSUME NEW cycles, cycles = <<>>
    PROVE  DOMAIN cycles = {} /\ Cardinality(DOMAIN cycles) = 0
<1>1. DOMAIN cycles = {}
  BY EmptySeq
<1> QED
  BY <1>1, FS_EmptySet

LEMMA StartWalksKeepsCheck ==
    ASSUME CycleInv, CheckInv, StartWalks
    PROVE  CheckInv'
<1>1. /\ AllVisited /\ UNCHANGED graphVars /\ UNCHANGED <<pairs, lines, seen, fetchCap>>
      /\ next \in Graphs /\ rowLimit \in CycleLimits
      /\ next' = next /\ rowLimit' = rowLimit
      /\ phase = "components" /\ phase' = "next component" /\ Printed
      /\ Len(lines) < Room /\ fetchCap >= 1 /\ fetchCap \in Nat
      /\ found = <<>> /\ found' = found /\ trail' = <<>> /\ components' = components
  BY DEF CheckInv, StartWalks, AllVisited, graphVars, walkVars, tarjanVars, Asking, Busy, Printed
<1>2. Split /\ Visited = Files /\ Done = Files
  <2>1. Searching /\ frames = <<>> /\ Visited = Files
    BY <1>1 DEF CycleInv, AllVisited
  <2>2. tarjan = <<>>
    BY <2>1 DEF Searching, Stacks
  <2>3. Held = {}
    BY <2>2, EmptySeq DEF Held, ToSet
  <2> QED
    BY <2>1, <2>3 DEF Searching, Split
<1>3. Parts
  BY <1>2 DEF Split, Parts
<1>4. /\ DOMAIN components = 1..Len(components)
      /\ ToSet(components) = {components[i] : i \in 1..Len(components)}
  BY <1>3, SequenceSet DEF Parts
<1>5. ASSUME NEW p \in AllCycles PROVE \E i \in DOMAIN components : p[1] \in components[i]
  <2>1. p[1] \in Done
    BY <1>1, <1>2, CycleStays
  <2> QED
    BY <1>4, <2>1 DEF Done
<1>6. FoundSoFar
  <2>1. DOMAIN found = {} /\ Cardinality(DOMAIN found) = 0
    BY <1>1, NoneOfThem
  <2>2. fetchCap >= 1 /\ fetchCap \in Nat
    BY <1>1
  <2>3. ByKey(found) /\ Few(found)
    BY ONLY <2>1, <2>2 DEF Few, ByKey
  <2> QED
    BY <1>3, <1>5, <2>1, <2>3 DEF FoundSoFar
<1>7. AllCycles' = AllCycles /\ Files' = Files /\ Room' = Room
  BY <1>1, SameGraph DEF Room
<1> HIDE DEF AllCycles
<1>8. FoundSoFar'
  BY <1>1, <1>6, <1>7 DEF FoundSoFar, Parts, ByKey, Few
<1>9. Printed'
  BY <1>1, SamePrinted
<1> QED
  BY <1>1, <1>7, <1>8, <1>9 DEF CheckInv, Asking, Busy

\* The first component left, and those after it.
LEMMA FirstComponent ==
    ASSUME next \in Graphs, Parts, components # <<>>
    PROVE  /\ 1 \in DOMAIN components /\ Component = components[1]
           /\ Component \subseteq Files /\ IsFiniteSet(Component)
           /\ Component \subseteq Nat
           /\ \A v \in Component : Component = ComponentOf(next, v)
           /\ Tail(components) \in Seq(SUBSET Files)
           /\ \A i \in DOMAIN Tail(components) :
                 i + 1 \in DOMAIN components /\ Tail(components)[i] = components[i + 1]
           /\ \A i \in DOMAIN components :
                 i = 1 \/ (i - 1 \in DOMAIN Tail(components)
                           /\ components[i] = Tail(components)[i - 1])
<1>1. /\ Len(components) \in Nat /\ Len(components) >= 1
      /\ DOMAIN components = 1..Len(components)
      /\ Component = components[1] /\ Component \in SUBSET Files
      /\ Tail(components) \in Seq(SUBSET Files)
      /\ DOMAIN Tail(components) = 1..(Len(components) - 1)
      /\ \A i \in 1..(Len(components) - 1) : Tail(components)[i] = components[i + 1]
  BY FirstAndRest DEF Parts, Component
<1>2. 1 \in DOMAIN components
  BY <1>1
<1>3. IsFiniteSet(Component) /\ Component \subseteq Nat
  BY <1>1, GraphFiles, FS_Subset DEF Files
<1>4. \A v \in Component : Component = ComponentOf(next, v)
  BY <1>1, <1>2 DEF Parts
<1>5. \A i \in DOMAIN Tail(components) :
         i + 1 \in DOMAIN components /\ Tail(components)[i] = components[i + 1]
  BY <1>1
<1>6. \A i \in DOMAIN components :
         i = 1 \/ (i - 1 \in DOMAIN Tail(components)
                   /\ components[i] = Tail(components)[i - 1])
  BY <1>1
<1> QED
  BY <1>1, <1>2, <1>3, <1>4, <1>5, <1>6

LEMMA PartsLeft ==
    ASSUME next \in Graphs, Parts, components # <<>>, components' = Tail(components),
           next' = next
    PROVE  Parts'
<1> DEFINE t == Tail(components)
<1>1. /\ t \in Seq(SUBSET Files)
      /\ \A i \in DOMAIN t : i + 1 \in DOMAIN components /\ t[i] = components[i + 1]
      /\ DOMAIN t \subseteq Nat
  BY FirstComponent, LenProperties
<1> HIDE DEF t
<1>2. Files' = Files
  BY DEF Files
<1>3. ASSUME NEW i \in DOMAIN t, NEW j \in DOMAIN t, i # j
      PROVE  t[i] \cap t[j] = {}
  <2>1. i + 1 # j + 1
    BY <1>1, <1>3
  <2>2. /\ i + 1 \in DOMAIN components /\ t[i] = components[i + 1]
        /\ j + 1 \in DOMAIN components /\ t[j] = components[j + 1]
    BY <1>1
  <2>3. components[i + 1] \cap components[j + 1] = {}
    BY <2>1, <2>2 DEF Parts
  <2> QED
    BY <2>2, <2>3
<1>4. \A i \in DOMAIN t : \A v \in t[i] : t[i] = ComponentOf(next, v)
  BY <1>1 DEF Parts
<1>5. components' = t
  BY DEF t
<1> QED
  BY <1>1, <1>2, <1>3, <1>4, <1>5 DEF Parts

LEMMA OpenComponentKeepsCheck ==
    ASSUME CheckInv, OpenComponent
    PROVE  CheckInv'
<1>1. /\ UNCHANGED graphVars /\ UNCHANGED <<pairs, lines, seen, fetchCap>>
      /\ next \in Graphs /\ rowLimit \in CycleLimits
      /\ next' = next /\ rowLimit' = rowLimit
      /\ phase = "next component" /\ Printed /\ FoundSoFar
      /\ Len(lines) < Room /\ fetchCap >= 1 /\ fetchCap \in Nat /\ components # <<>>
      /\ found' = found /\ trail' = <<>> /\ here' = <<>>
  BY DEF CheckInv, OpenComponent, graphVars, Asking, Busy, Printed
<1>2. IF Cardinality(Component) <= 2
      THEN components' = Tail(components) /\ phase' = phase
      ELSE /\ origins' = SelectSorted(Component) /\ phase' = "walk"
           /\ components' = components
  BY DEF OpenComponent, Component
<1>3. Printed' /\ Room' = Room
  BY <1>1, SamePrinted DEF Room
<1>4. AllCycles' = AllCycles /\ Files' = Files
  BY <1>1, SameGraph
<1>5. /\ 1 \in DOMAIN components /\ Component = components[1]
      /\ Component \subseteq Files /\ IsFiniteSet(Component) /\ Component \subseteq Nat
      /\ \A v \in Component : Component = ComponentOf(next, v)
  BY <1>1, FirstComponent DEF FoundSoFar
<1>6. Cardinality(Component) \in Nat
  BY <1>5, FS_CardinalityType
<1>7. CASE Cardinality(Component) <= 2
  <2>1. components' = Tail(components) /\ phase' = "next component"
    BY <1>1, <1>2, <1>7
  <2>2. Parts'
    BY <1>1, <2>1, PartsLeft DEF FoundSoFar
  <2>3. ASSUME NEW p \in AllCycles PROVE p[1] \notin Component
    <3>1. Cardinality(ComponentOf(next, p[1])) > 2
      BY <1>1, CyclesAre DEF Closed
    <3> HIDE DEF AllCycles, Component
    <3> QED
      BY <1>5, <1>6, <1>7, <3>1
  <2>4. ASSUME NEW p \in AllCycles
        PROVE  (\A i \in DOMAIN components : p[1] \notin components[i])
               <=> (\A i \in DOMAIN components' : p[1] \notin components'[i])
    <3>1. p[1] \notin components[1]
      BY <1>5, <2>3
    <3>2. /\ \A i \in DOMAIN Tail(components) :
                i + 1 \in DOMAIN components /\ Tail(components)[i] = components[i + 1]
          /\ \A i \in DOMAIN components :
                i = 1 \/ (i - 1 \in DOMAIN Tail(components)
                          /\ components[i] = Tail(components)[i - 1])
      BY <1>1, FirstComponent DEF FoundSoFar
    <3> HIDE DEF AllCycles, Component
    <3> QED
      BY <2>1, <3>1, <3>2
  <2> HIDE DEF AllCycles
  <2>5. FoundSoFar'
    BY <1>1, <1>4, <2>2, <2>4 DEF FoundSoFar, ByKey, Few
  <2> QED
    BY <1>1, <1>3, <2>1, <2>5 DEF CheckInv, Asking, Busy
<1>8. CASE ~(Cardinality(Component) <= 2)
  <2> DEFINE n == Cardinality(Component)
             o == SelectSorted(Component)
  <2>1. origins' = o /\ phase' = "walk" /\ components' = components
    BY <1>2, <1>8
  <2>2. Component' = Component
    BY <2>1 DEF Component
  <2>3. /\ n \in Nat /\ o \in [1..n -> Component] /\ o \in Seq(Component) /\ Len(o) = n
        /\ \A i, j \in 1..n : i < j => o[i] < o[j]
        /\ \A x \in Component : \E i \in 1..n : o[i] = x
    BY <1>5, SortedNumbers
  <2> HIDE DEF o, n, AllCycles, Component
  <2>4. ToSet(o) = Component
    BY <2>3 DEF ToSet
  <2>5. Started' = {}
    BY <2>1, <2>2, <2>4 DEF Started
  <2>6. Origins'
    BY <2>1, <2>2, <2>3, <2>5 DEF Origins
  <2>7. Trail'
    <3>1. trail' = <<>> /\ DOMAIN trail' = {}
      BY <1>1, NoneOfThem
    <3> QED
      BY <3>1 DEF Trail
  <2>8. HereSoFar'
    <3>1. DOMAIN here' = {} /\ Cardinality(DOMAIN here') = 0
      BY <1>1, NoneOfThem
    <3>2. fetchCap' >= 1 /\ fetchCap' \in Nat
      BY <1>1
    <3>3. ByKey(here)' /\ Few(here)'
      BY ONLY <3>1, <3>2 DEF ByKey, Few
    <3> QED
      BY <2>5, <3>1, <3>3 DEF HereSoFar
  <2>9. Walking'
    <3>1. Cardinality(Component) > 2
      BY <1>6, <1>8
    <3> QED
      BY <1>1, <2>1, <2>2, <2>6, <2>7, <2>8, <3>1 DEF Walking
  <2>10. FoundSoFar'
    BY <1>1, <1>4, <2>1 DEF FoundSoFar, Parts, ByKey, Few
  <2> QED
    BY <1>1, <1>3, <2>1, <2>9, <2>10 DEF CheckInv, Asking, Busy
<1> QED
  BY <1>7, <1>8

\* What is delivered are cycles, and all that were found if they are few.
LEMMA Delivered ==
    ASSUME next \in Graphs, NEW cycles, ByKey(cycles), fetchCap \in Nat
    PROVE  LET s == SortedCycleValues(cycles, fetchCap)
           IN  /\ s \in Seq(AllCycles) /\ s \in Seq(DOMAIN cycles) /\ IsInjective(s)
               /\ Len(s) \in Nat
               /\ Few(cycles) => Len(s) = Cardinality(DOMAIN cycles) /\ ToSet(s) = DOMAIN cycles
               /\ ~Few(cycles) => Len(s) = fetchCap
<1> DEFINE s == SortedCycleValues(cycles, fetchCap)
           n == Cardinality(DOMAIN cycles)
<1>1. /\ IsFiniteSet(DOMAIN cycles) /\ n \in Nat
      /\ DOMAIN cycles \in SUBSET Seq(Nat) /\ <<>> \notin DOMAIN cycles
  BY FewTyped
<1>2. \A k \in DOMAIN cycles : cycles[k] = k
  BY DEF ByKey
<1>3. /\ s \in Seq(DOMAIN cycles) /\ IsInjective(s) /\ Len(s) \in Nat
      /\ n < fetchCap => Len(s) = n /\ ToSet(s) = DOMAIN cycles
      /\ n >= fetchCap => Len(s) = fetchCap
  BY <1>1, <1>2, SortedValues
<1>4. DOMAIN cycles \subseteq AllCycles
  BY DEF ByKey
<1> HIDE DEF s, AllCycles
<1>5. s \in Seq(AllCycles)
  BY <1>3, <1>4, SeqMonotonic
<1>6. n < fetchCap \/ n >= fetchCap
  BY <1>1
<1> QED
  BY <1>1, <1>3, <1>5, <1>6 DEF Few, s

LEMMA NoMoreKeepsCheck ==
    ASSUME CheckInv, NoMoreComponents
    PROVE  CheckInv'
<1>1. /\ UNCHANGED graphVars /\ UNCHANGED <<pairs, lines, seen, fetchCap>>
      /\ next \in Graphs /\ rowLimit \in CycleLimits
      /\ next' = next /\ rowLimit' = rowLimit
      /\ phase = "next component" /\ Printed /\ FoundSoFar
      /\ Len(lines) < Room /\ fetchCap >= 1 /\ fetchCap \in Nat /\ components = <<>>
      /\ candidates' = SortedCycleValues(found, fetchCap)
      /\ phase' = IF found = <<>> THEN "done" ELSE "accept"
  BY DEF CheckInv, NoMoreComponents, Deliver, graphVars, Asking, Busy, Printed
<1>2. Printed' /\ Room' = Room
  BY <1>1, SamePrinted DEF Room
<1>3. AllCycles' = AllCycles
  BY <1>1, SameGraph
<1>4. AllCycles \subseteq DOMAIN found /\ ByKey(found) /\ Few(found)
  <2>1. DOMAIN components = {}
    BY <1>1, NoneOfThem
  <2> HIDE DEF AllCycles
  <2> QED
    BY <1>1, <2>1 DEF FoundSoFar
<1>5. candidates' \in Seq(AllCycles) /\ ToSet(candidates') = DOMAIN found
  BY <1>1, <1>4, Delivered
<1> HIDE DEF AllCycles
<1>6. Accepting'
  BY <1>3, <1>4, <1>5 DEF Accepting
<1>7. CASE found = <<>>
  <2>1. DOMAIN found = {}
    BY <1>7, NoneOfThem
  <2>2. AllFound'
    BY <1>3, <1>4, <2>1 DEF AllFound
  <2> QED
    BY <1>1, <1>2, <1>7, <2>2 DEF CheckInv, Asking, Busy
<1>8. CASE found # <<>>
  BY <1>1, <1>2, <1>6, <1>8 DEF CheckInv, Asking, Busy
<1> QED
  BY <1>7, <1>8

-----------------------------------------------------------------------------
(* The walks.                                                              *)

LEMMA StartAtOriginKeepsCheck ==
    ASSUME CheckInv, StartAtOrigin
    PROVE  CheckInv'
<1> DEFINE o == Head(origins)
           rest == Tail(origins)
<1>1. /\ UNCHANGED graphVars /\ UNCHANGED <<pairs, lines, seen, fetchCap>>
      /\ next \in Graphs /\ rowLimit \in CycleLimits
      /\ next' = next /\ rowLimit' = rowLimit
      /\ phase = "walk" /\ phase' = "walk" /\ Printed /\ FoundSoFar /\ Walking
      /\ Len(lines) < Room /\ fetchCap >= 1 /\ fetchCap \in Nat
      /\ trail = <<>> /\ origins # <<>>
      /\ trail' = <<<<o>>>> /\ origins' = rest
      /\ components' = components /\ here' = here /\ found' = found /\ fetchCap' = fetchCap
  BY DEF CheckInv, StartAtOrigin, graphVars, tarjanVars, checkVars, Asking, Busy, Printed
<1>2. Printed' /\ Room' = Room
  BY <1>1, SamePrinted DEF Room
<1>3. AllCycles' = AllCycles /\ Files' = Files /\ Component' = Component
  BY <1>1, SameGraph DEF Component
<1>4. FoundSoFar'
  <2> HIDE DEF AllCycles
  <2> QED
    BY <1>1, <1>3 DEF FoundSoFar, Parts, ByKey, Few
<1>5. /\ origins \in Seq(Component) /\ components # <<>>
      /\ \A i, j \in DOMAIN origins : i < j => origins[i] < origins[j]
      /\ \A i \in DOMAIN origins : \A v \in Started : v < origins[i]
  BY <1>1 DEF Walking, Origins
<1>6. Component \subseteq Nat
  BY <1>1, <1>5, FirstComponent DEF FoundSoFar
<1>7. /\ Len(origins) \in Nat /\ Len(origins) >= 1 /\ DOMAIN origins = 1..Len(origins)
      /\ o = origins[1] /\ o \in Component /\ rest \in Seq(Component)
      /\ DOMAIN rest = 1..(Len(origins) - 1)
      /\ \A i \in 1..(Len(origins) - 1) : rest[i] = origins[i + 1]
      /\ ToSet(origins) = {o} \cup ToSet(rest) /\ ToSet(rest) = {rest[i] : i \in DOMAIN rest}
  BY <1>1, <1>5, FirstAndRest DEF ToSet
<1> HIDE DEF o, rest, Component, AllCycles
<1>8. \A i \in DOMAIN rest : o < rest[i] /\ \A v \in Started : v < rest[i]
  <2> SUFFICES ASSUME NEW i \in DOMAIN rest
               PROVE  o < rest[i] /\ \A v \in Started : v < rest[i]
    OBVIOUS
  <2>1. i + 1 \in DOMAIN origins /\ 1 \in DOMAIN origins /\ 1 < i + 1 /\ rest[i] = origins[i + 1]
    BY <1>7
  <2> QED
    BY <1>5, <1>7, <2>1
<1>9. o \in Nat /\ \A i \in DOMAIN rest : rest[i] \in Nat
  <2>1. DOMAIN rest = 1..Len(rest)
    BY <1>7, LenProperties
  <2> QED
    BY <1>6, <1>7, <2>1, ElementOfSeq
<1>10. o \notin ToSet(rest)
  BY <1>7, <1>8, <1>9
<1>11. Started' = Started \cup {o}
  BY <1>1, <1>3, <1>7, <1>10 DEF Started
<1>12. \A v \in Started : v < o
  BY <1>5, <1>7
<1>13. Origins'
  <2>1. \A i, j \in DOMAIN rest : i < j => rest[i] < rest[j]
    <3> SUFFICES ASSUME NEW i \in DOMAIN rest, NEW j \in DOMAIN rest, i < j
                 PROVE  rest[i] < rest[j]
      OBVIOUS
    <3>1. /\ i + 1 \in DOMAIN origins /\ j + 1 \in DOMAIN origins /\ i + 1 < j + 1
          /\ rest[i] = origins[i + 1] /\ rest[j] = origins[j + 1]
      BY <1>7
    <3> QED
      BY <1>5, <3>1
  <2> QED
    BY <1>1, <1>3, <1>7, <1>8, <1>11, <2>1 DEF Origins
<1>14. /\ trail' \in Seq(Seq(Component)) /\ DOMAIN trail' = {1}
       /\ trail'[1] = <<o>> /\ <<o>>[1] = o /\ Len(<<o>>) = 1 /\ <<o>> \in Seq(Component)
  BY <1>1, <1>7
<1>15. Trail'
  <2>1. Walked(trail[1], Component)'
    <3>1. IsInjective(trail'[1])
      BY <1>14 DEF IsInjective
    <3>2. \A i \in 1..(Len(trail'[1]) - 1) : FALSE
      BY <1>14
    <3>3. trail'[1] \in Seq(Component') /\ trail'[1] # <<>>
      BY <1>3, <1>14
    <3> QED
      BY ONLY <3>1, <3>2, <3>3 DEF Walked
  <2>2. \A v \in Started' : v <= o
    <3>1. Started \subseteq Nat
      BY <1>6 DEF Started
    <3> QED
      BY <1>9, <1>11, <1>12, <3>1
  <2>3. o \in Started'
    BY <1>11
  <2> QED
    BY <1>3, <1>14, <2>1, <2>2, <2>3 DEF Trail, OnTrail
<1>16. HereSoFar'
  <2>1. ByKey(here) /\ Few(here) /\ \A p \in DOMAIN here : p[1] \in Started
    BY <1>1 DEF Walking, HereSoFar
  <2>2. ASSUME NEW p \in AllCycles, p[1] \in Started'
        PROVE  p \in DOMAIN here \/ Begins(trail'[1], p)
    <3>1. CASE p[1] \in Started
      <4>1. DOMAIN trail = {}
        BY <1>1, NoneOfThem
      <4> QED
        BY <1>1, <2>1, <3>1, <4>1 DEF Walking, HereSoFar
    <3>2. CASE p[1] = o
      <4>1. Len(p) \in Nat /\ Len(p) >= 1
        BY <1>1, CyclesAre, CyclesAssumption
      <4> QED
        BY <1>14, <3>2, <4>1 DEF Begins
    <3> QED
      BY <1>11, <2>2, <3>1, <3>2
  <2>3. ByKey(here)' /\ Few(here)'
    BY <1>1, <1>3, <2>1 DEF ByKey, Few
  <2>4. \A p \in DOMAIN here' : p[1] \in Started'
    BY <1>1, <1>11, <2>1
  <2> QED
    BY <1>1, <1>3, <1>14, <2>2, <2>3, <2>4 DEF HereSoFar
<1>17. Walking'
  BY <1>1, <1>3, <1>5, <1>13, <1>15, <1>16 DEF Walking
<1> QED
  BY <1>1, <1>2, <1>4, <1>17 DEF CheckInv, Asking, Busy

\* What a path is continued by: the files its last one depends on that are in
\* the component, and among them those that are not on it.
Inside(path) == Where(Successors(Last(path)), LAMBDA w : w \in Component)
Beyond(path) == Where(Inside(path), LAMBDA w : w \notin ToSet(path))

LEMMA ContinuedBy ==
    ASSUME next \in Graphs, NEW path, Walked(path, Component)
    PROVE  /\ ToSet(Inside(path)) = {w \in Component : IsEdge(next, path[Len(path)], w)}
           /\ Beyond(path) \in Seq(Component)
           /\ ToSet(Beyond(path)) = {w \in Component : /\ IsEdge(next, path[Len(path)], w)
                                                       /\ w \notin ToSet(path)}
<1> DEFINE v == path[Len(path)]
           rows == Successors(v)
           P == {i \in DOMAIN rows : rows[i] \in Component}
           inside == Inside(path)
           Q == {i \in DOMAIN inside : inside[i] \notin ToSet(path)}
           more == Beyond(path)
<1>1. Last(path) = v
  BY FrontAndLast DEF Walked
<1>2. rows \in Seq(Files) /\ ToSet(rows) = {w \in Files : IsEdge(next, v, w)}
  <2>1. rows \in Seq(Files) /\ ToSet(rows) \subseteq Files
    BY GraphFiles DEF Successors, Files
  <2>2. \A w : w \in ToSet(rows) <=> IsEdge(next, v, w)
    <3>1. CASE v \in DOMAIN next
      BY <3>1 DEF Successors, SuccessorsIn, IsEdge
    <3>2. CASE v \notin DOMAIN next
      <4>1. rows = <<>>
        BY <3>2 DEF Successors, SuccessorsIn
      <4>2. ToSet(rows) = {}
        BY <4>1, EmptySeq DEF ToSet
      <4> QED
        BY <3>2, <4>2 DEF IsEdge
    <3> QED
      BY <3>1, <3>2
  <2> QED
    BY <2>1, <2>2
<1>3. inside = AtPlaces(rows, P)
  BY <1>1 DEF Where, Inside
<1>4. more = AtPlaces(inside, Q)
  BY DEF Where, Beyond
<1> HIDE DEF v, rows, inside, more, Component
<1>5. inside \in Seq(Files) /\ ToSet(inside) = {rows[i] : i \in P}
  BY <1>2, <1>3, KeptPlaces
<1>6. ToSet(rows) = {rows[i] : i \in DOMAIN rows}
  BY DEF ToSet
<1>7. ToSet(inside) = {w \in ToSet(rows) : w \in Component}
  BY <1>5, <1>6
<1>8. more \in Seq(Files) /\ ToSet(more) = {inside[i] : i \in Q}
  BY <1>4, <1>5, KeptPlaces
<1>9. ToSet(inside) = {inside[i] : i \in DOMAIN inside}
  BY DEF ToSet
<1>10. ToSet(more) = {w \in ToSet(inside) : w \notin ToSet(path)}
  BY <1>8, <1>9
<1>11. \A w : IsEdge(next, v, w) => w \in Files
  <2> SUFFICES ASSUME NEW w, IsEdge(next, v, w) PROVE w \in Files
    OBVIOUS
  <2>1. w \in ToSet(SuccessorsIn(next, v))
    BY DEF IsEdge, SuccessorsIn
  <2> QED
    BY <2>1, GraphFiles DEF Files
<1>12. ToSet(inside) = {w \in Component : IsEdge(next, v, w)}
  BY <1>2, <1>7, <1>11
<1>13. ToSet(more) = {w \in Component : IsEdge(next, v, w) /\ w \notin ToSet(path)}
  BY <1>10, <1>12
<1>14. more \in Seq(Component)
  <2>1. ToSet(more) \subseteq Component
    BY <1>13
  <2>2. \A i \in 1..Len(more) : more[i] \in Component
    BY <1>8, <2>1, SequenceSet
  <2> QED
    BY <1>8, <2>2, SeqDef
<1> QED
  BY <1>12, <1>13, <1>14 DEF v, inside, more

LEMMA WalkedFurther ==
    ASSUME NEW S, NEW path, Walked(path, S), NEW w \in S, w \notin ToSet(path),
           IsEdge(next, path[Len(path)], w)
    PROVE  Walked(Append(path, w), S) /\ Append(path, w)[1] = path[1]
<1> DEFINE n == Len(path)
           q == Append(path, w)
<1>1. /\ path \in Seq(S) /\ path # <<>> /\ IsInjective(path)
      /\ \A i \in 1..(n - 1) : IsEdge(next, path[i], path[i + 1])
  BY DEF Walked
<1>2. n \in Nat /\ n >= 1 /\ ToSet(path) = {path[i] : i \in 1..n}
  BY <1>1, SequenceSet, EmptySeq
<1>3. /\ q \in Seq(S) /\ q # <<>> /\ Len(q) = n + 1 /\ q[n + 1] = w
      /\ \A i \in 1..n : q[i] = path[i]
  BY <1>1, AppendProperties
<1>4. IsInjective(q)
  <2> DEFINE T == ToSet(path)
  <2>1. path \in Seq(T)
    <3>1. \A i \in 1..Len(path) : path[i] \in T
      BY <1>2
    <3> HIDE DEF T
    <3> QED
      BY <1>1, <3>1, SeqDef
  <2> HIDE DEF q
  <2> QED
    BY <1>1, <2>1, AppendedOnce DEF q
<1> HIDE DEF q
<1>5. ASSUME NEW i \in 1..n PROVE IsEdge(next, q[i], q[i + 1])
  <2>1. CASE i = n
    BY <1>2, <1>3, <2>1 DEF n
  <2>2. CASE i # n
    <3>1. i \in 1..(n - 1) /\ i + 1 \in 1..n
      <4>1. n \in Nat /\ i \in 1..n
        BY <1>2
      <4> HIDE DEF n
      <4> QED
        BY <2>2, <4>1
    <3> QED
      BY <1>1, <1>3, <3>1
  <2> QED
    BY <2>1, <2>2
<1>6. \A i \in 1..(Len(q) - 1) : IsEdge(next, q[i], q[i + 1])
  <2>1. Len(q) - 1 = n
    BY <1>2, <1>3
  <2> QED
    BY <1>5, <2>1
<1>7. q[1] = path[1]
  BY <1>2, <1>3
<1> QED
  BY <1>3, <1>4, <1>6, <1>7 DEF Walked, q

\* A cycle that begins with a path is the path, which closes it, or begins with
\* a continuation of it.
LEMMA BeginsFurther ==
    ASSUME next \in Graphs, \A v \in Component : Component = ComponentOf(next, v),
           NEW path, Walked(path, Component), NEW p \in AllCycles, Begins(path, p)
    PROVE  \/ /\ p = path /\ Len(path) \in 2..MaxDepth
              /\ path[1] \in ToSet(Inside(path))
           \/ \E i \in DOMAIN Beyond(path) : Begins(Append(path, Beyond(path)[i]), p)
<1> DEFINE n == Len(path)
<1>1. /\ path \in Seq(Component) /\ path # <<>> /\ n \in Nat /\ n >= 1
      /\ ToSet(path) = {path[i] : i \in 1..n}
  BY SequenceSet, EmptySeq DEF Walked
<1>2. /\ p \in Seq(Files) /\ Len(p) \in 2..MaxDepth /\ IsInjective(p)
      /\ \A i \in 1..(Len(p) - 1) : IsEdge(next, p[i], p[i + 1])
      /\ IsEdge(next, p[Len(p)], p[1]) /\ Len(p) \in Nat /\ DOMAIN p = 1..Len(p)
  BY CyclesAre, LenProperties DEF Closed
<1>3. n <= Len(p) /\ \A i \in 1..n : p[i] = path[i]
  BY DEF Begins
<1>4. path[1] \in Component /\ p[1] = path[1]
  BY <1>1, <1>3, ElementOfSeq
<1>5. \A i \in 1..Len(p) : p[i] \in Component
  BY <1>4, CycleStays
<1> HIDE DEF n, AllCycles, Component
<1>6. CASE n = Len(p)
  <2>1. p = path
    <3>1. Len(path) = Len(p) /\ \A i \in 1..Len(p) : p[i] = path[i]
      BY <1>3, <1>6 DEF n
    <3>2. path \in Seq(Files \cup Component) /\ p \in Seq(Files \cup Component)
      BY <1>1, <1>2, SeqMonotonic
    <3> QED
      BY <3>1, <3>2, SeqEqual
  <2>2. path[1] \in ToSet(Inside(path))
    BY <1>2, <1>4, <2>1, ContinuedBy
  <2> QED
    BY <1>2, <2>1, <2>2
<1>7. CASE n # Len(p)
  <2>1. n + 1 \in 1..Len(p) /\ n \in 1..(Len(p) - 1)
    <3>1. Len(p) \in Nat /\ n \in Nat
      BY <1>1, <1>2
    <3> QED
      BY ONLY <1>1, <1>3, <1>7, <3>1
  <2> DEFINE w == p[n + 1]
  <2>2. w \in Component /\ IsEdge(next, p[n], w)
    BY <1>2, <1>5, <2>1
  <2>3. p[n] = path[n]
    BY <1>1, <1>3
  <2>4. w \notin ToSet(path)
    <3> SUFFICES ASSUME NEW i \in 1..n, w = path[i] PROVE FALSE
      BY <1>1
    <3>1. p[i] = p[n + 1] /\ i \in 1..Len(p) /\ i # n + 1
      BY <1>1, <1>2, <1>3
    <3> QED
      BY <1>2, <2>1, <3>1 DEF IsInjective
  <2> HIDE DEF w
  <2>5. w \in ToSet(Beyond(path))
    BY <2>2, <2>3, <2>4, ContinuedBy DEF n
  <2>6. PICK i \in DOMAIN Beyond(path) : Beyond(path)[i] = w
    BY <2>5 DEF ToSet
  <2>7. Begins(Append(path, w), p)
    <3> DEFINE q == Append(path, w)
    <3>1. Len(q) = n + 1 /\ q[n + 1] = w /\ \A k \in 1..n : q[k] = path[k]
      BY <1>1, <2>2, AppendProperties DEF n
    <3> HIDE DEF q
    <3>2. Len(q) <= Len(p)
      BY <1>1, <1>2, <2>1, <3>1
    <3>3. \A k \in 1..(n + 1) : k \in 1..n \/ k = n + 1
      BY <1>1
    <3>4. \A k \in 1..(n + 1) : p[k] = q[k]
      BY <1>3, <3>1, <3>3 DEF w
    <3> QED
      BY <3>1, <3>2, <3>4 DEF Begins, q
  <2> QED
    BY <2>6, <2>7
<1> QED
  BY <1>6, <1>7

\* Paths whose keys are known, or which are keys, are added.
LEMMA AddsCycles ==
    ASSUME NEW cycles, ByKey(cycles), NEW paths,
           \A p \in paths : /\ Key(p) \in AllCycles
                            /\ Key(p) \in DOMAIN cycles \/ Key(p) = p
    PROVE  /\ ByKey(Add(cycles, paths))
           /\ DOMAIN Add(cycles, paths) = (DOMAIN cycles) \cup {Key(p) : p \in paths}
<1> DEFINE all == Add(cycles, paths)
           D == (DOMAIN cycles) \cup {Key(p) : p \in paths}
<1>1. all = [k \in D |-> IF k \in DOMAIN cycles THEN cycles[k]
                         ELSE CHOOSE p \in paths : Key(p) = k]
  BY DEF Add
<1> HIDE DEF all, AllCycles
<1>2. DOMAIN all = D
  BY <1>1
<1>3. D \subseteq AllCycles
  BY DEF ByKey
<1>4. ASSUME NEW k \in D PROVE all[k] = k
  <2>1. CASE k \in DOMAIN cycles
    BY <1>1, <2>1 DEF ByKey
  <2>2. CASE k \notin DOMAIN cycles
    <3> DEFINE c == CHOOSE p \in paths : Key(p) = k
    <3>1. all[k] = c
      BY <1>1, <2>2
    <3>2. \E p \in paths : Key(p) = k
      BY <2>2
    <3>3. c \in paths /\ Key(c) = k
      BY <3>2
    <3> HIDE DEF c
    <3> QED
      BY <2>2, <3>1, <3>3
  <2> QED
    BY <2>1, <2>2
<1>5. ByKey(all)
  BY <1>2, <1>3, <1>4 DEF ByKey
<1> QED
  BY <1>2, <1>5 DEF all

\* A path that closes a cycle is its key, or began with another file of a cycle
\* that has been found from its least file.
LEMMA ClosedWalk ==
    ASSUME next \in Graphs, Parts, Walking, NEW last \in DOMAIN trail,
           Len(trail[last]) \in 2..MaxDepth,
           trail[last][1] \in ToSet(Inside(trail[last]))
    PROVE  /\ Key(trail[last]) \in AllCycles /\ Key(trail[last])[1] \in Started
           /\ Key(trail[last]) \in DOMAIN here \/ Key(trail[last]) = trail[last]
<1> DEFINE path == trail[last]
           k == Key(path)
<1>1. /\ components # <<>> /\ Cardinality(Component) > 2 /\ Origins /\ Trail /\ HereSoFar
      /\ trail # <<>>
  BY EmptySeq DEF Walking
<1>2. Walked(path, Component) /\ path[1] \in Started
  BY <1>1 DEF Trail, OnTrail
<1>3. /\ Component \in SUBSET Files /\ Component \subseteq Nat
      /\ \A v \in Component : Component = ComponentOf(next, v)
  BY <1>1, FirstComponent
<1>4. IsEdge(next, path[Len(path)], path[1])
  BY <1>2, ContinuedBy
<1> HIDE DEF path, AllCycles, Component
<1>5. /\ k \in AllCycles /\ k[1] \in Component /\ k[1] <= path[1]
      /\ k[1] = path[1] => k = path
  BY <1>1, <1>2, <1>3, <1>4, KeyOfWalk DEF path
<1> HIDE DEF k
<1>6. CASE k[1] = path[1]
  BY <1>2, <1>5, <1>6 DEF path, k
<1>7. CASE k[1] # path[1]
  <2>1. path[1] \in Nat /\ k[1] \in Nat /\ k[1] < path[1]
    <3>1. path[1] \in Component
      BY <1>2 DEF Started
    <3>2. path[1] \in Nat /\ k[1] \in Nat
      BY <1>3, <1>5, <3>1
    <3> QED
      BY ONLY <1>5, <1>7, <3>2
  <2>2. k[1] \notin ToSet(origins)
    <3> SUFFICES ASSUME NEW i \in DOMAIN origins, k[1] = origins[i] PROVE FALSE
      BY DEF ToSet
    <3>1. path[1] < origins[i]
      BY <1>1, <1>2 DEF Origins
    <3> QED
      BY <2>1, <3>1
  <2>3. k[1] \in Started
    BY <1>5, <2>2 DEF Started
  <2>4. k \in DOMAIN here
    <3> SUFFICES ASSUME NEW i \in DOMAIN trail, Begins(trail[i], k) PROVE FALSE
      BY <1>1, <1>5, <2>3 DEF HereSoFar
    <3>1. Walked(trail[i], Component) /\ path[1] <= trail[i][1]
      BY <1>1, <1>2 DEF Trail, OnTrail
    <3>2. Len(trail[i]) \in Nat /\ Len(trail[i]) >= 1
      BY <3>1, LenProperties, EmptySeq DEF Walked
    <3>3. k[1] = trail[i][1]
      BY <3>2 DEF Begins
    <3> QED
      BY <2>1, <3>1, <3>3
  <2> QED
    BY <1>5, <2>3, <2>4 DEF path, k
<1> QED
  BY <1>6, <1>7

\* What a walk does to the stack of paths.
LEMMA ContinuedTrail ==
    ASSUME next \in Graphs, Trail, trail # <<>>
    PROVE  LET path == trail[Len(trail)]
               ext  == [i \in DOMAIN Beyond(path) |-> Append(path, Beyond(path)[i])]
               new  == Front(trail) \o ext
           IN  /\ Front(trail) \in Seq(Seq(Component)) /\ new \in Seq(Seq(Component))
               /\ \A i \in DOMAIN Front(trail) : OnTrail(Front(trail)[i])
               /\ \A i \in DOMAIN new : OnTrail(new[i])
               /\ \A i \in DOMAIN trail : i = Len(trail)
                     \/ (i \in DOMAIN Front(trail) /\ Front(trail)[i] = trail[i])
               /\ \A i \in DOMAIN Front(trail) : i \in DOMAIN new /\ new[i] = Front(trail)[i]
               /\ \A i \in DOMAIN Beyond(path) :
                     \E k \in DOMAIN new : new[k] = Append(path, Beyond(path)[i])
<1> DEFINE n == Len(trail)
           path == trail[n]
           more == Beyond(path)
           ext == [i \in DOMAIN more |-> Append(path, more[i])]
           front == Front(trail)
           new == front \o ext
<1>1. trail \in Seq(Seq(Component)) /\ \A i \in DOMAIN trail : OnTrail(trail[i])
  BY DEF Trail
<1>2. /\ n \in Nat /\ n >= 1 /\ DOMAIN trail = 1..n
      /\ front \in Seq(Seq(Component)) /\ Len(front) = n - 1
      /\ \A i \in 1..(n - 1) : front[i] = trail[i]
  BY <1>1, FrontAndLast, LenProperties
<1>3. OnTrail(path)
  BY <1>1, <1>2
<1>4. /\ more \in Seq(Component)
      /\ ToSet(more) = {w \in Component : IsEdge(next, path[Len(path)], w) /\ w \notin ToSet(path)}
  BY <1>3, ContinuedBy DEF OnTrail
<1> HIDE DEF n, path, more, front, Component
<1>5. Len(more) \in Nat /\ DOMAIN more = 1..Len(more) /\ ToSet(more) = {more[i] : i \in 1..Len(more)}
  BY <1>4, SequenceSet
<1>6. ASSUME NEW i \in 1..Len(more) PROVE OnTrail(Append(path, more[i]))
  <2>1. /\ more[i] \in Component /\ IsEdge(next, path[Len(path)], more[i])
        /\ more[i] \notin ToSet(path)
    BY <1>4, <1>5
  <2>2. Walked(Append(path, more[i]), Component) /\ Append(path, more[i])[1] = path[1]
    BY <1>3, <2>1, WalkedFurther DEF OnTrail
  <2> QED
    BY <1>3, <2>2 DEF OnTrail
<1>7. /\ DOMAIN ext = 1..Len(more)
      /\ \A i \in 1..Len(more) : ext[i] = Append(path, more[i]) /\ ext[i] \in Seq(Component)
  BY <1>5, <1>6 DEF OnTrail, Walked
<1> HIDE DEF ext
<1>8. ext \in Seq(Seq(Component)) /\ Len(ext) = Len(more)
  <2>1. ext = [i \in 1..Len(more) |-> ext[i]]
    BY <1>5 DEF ext
  <2> QED
    BY <1>5, <1>7, <2>1
<1>9. /\ new \in Seq(Seq(Component)) /\ Len(new) = (n - 1) + Len(more)
      /\ \A i \in 1..((n - 1) + Len(more)) :
            new[i] = IF i <= n - 1 THEN front[i] ELSE ext[i - (n - 1)]
  <2>1. Len(front) = n - 1 /\ Len(ext) = Len(more)
    BY <1>2, <1>8
  <2>2. /\ new \in Seq(Seq(Component)) /\ Len(new) = Len(front) + Len(ext)
        /\ \A i \in 1..(Len(front) + Len(ext)) :
              new[i] = IF i <= Len(front) THEN front[i] ELSE ext[i - Len(front)]
    <3> DEFINE T == Seq(Component)
    <3>1. front \in Seq(T) /\ ext \in Seq(T)
      BY <1>2, <1>8
    <3> HIDE DEF T
    <3>2. /\ front \o ext \in Seq(T) /\ Len(front \o ext) = Len(front) + Len(ext)
          /\ \A i \in 1..(Len(front) + Len(ext)) :
                (front \o ext)[i] = IF i <= Len(front) THEN front[i] ELSE ext[i - Len(front)]
      BY ONLY <3>1, ConcatProperties
    <3> QED
      BY <3>2 DEF T
  <2> HIDE DEF new
  <2> QED
    BY <2>1, <2>2
<1> HIDE DEF new
<1>10. DOMAIN new = 1..((n - 1) + Len(more)) /\ DOMAIN front = 1..(n - 1)
  BY <1>2, <1>9, LenProperties
<1>11. \A i \in 1..(n - 1) : i \in DOMAIN new /\ new[i] = front[i] /\ i \in DOMAIN trail
  BY <1>2, <1>5, <1>9, <1>10
<1>12. \A i \in 1..(n - 1) : OnTrail(front[i])
  BY <1>1, <1>2, <1>11
<1>13. ASSUME NEW i \in DOMAIN new PROVE OnTrail(new[i])
  <2>1. CASE i <= n - 1
    <3>1. i \in 1..(n - 1)
      BY <1>2, <1>10, <2>1
    <3> QED
      BY <1>11, <1>12, <3>1
  <2>2. CASE ~(i <= n - 1)
    <3>1. i - (n - 1) \in 1..Len(more)
      BY <1>2, <1>5, <1>10, <2>2
    <3>2. new[i] = ext[i - (n - 1)]
      BY <1>9, <1>10, <2>2
    <3> QED
      BY <1>6, <1>7, <3>1, <3>2
  <2> QED
    BY <2>1, <2>2
<1>14. \A i \in DOMAIN trail : i = n \/ (i \in DOMAIN front /\ front[i] = trail[i])
  BY <1>2, <1>10
<1>15. ASSUME NEW i \in DOMAIN more
       PROVE  \E k \in DOMAIN new : new[k] = Append(path, more[i])
  <2>1. /\ (n - 1) + i \in DOMAIN new /\ ~((n - 1) + i <= n - 1)
        /\ ((n - 1) + i) - (n - 1) = i
    BY <1>2, <1>5, <1>10
  <2>2. new[(n - 1) + i] = ext[i]
    BY <1>9, <1>10, <2>1
  <2> QED
    BY <1>5, <1>7, <2>1, <2>2
<1> QED
  BY <1>2, <1>9, <1>10, <1>11, <1>12, <1>13, <1>14, <1>15 DEF new, ext, more, path, n, front

LEMMA WalkKeepsCheck ==
    ASSUME CheckInv, Walk
    PROVE  CheckInv'
<1> DEFINE n == Len(trail)
           path == trail[n]
           closed == path[1] \in ToSet(Inside(path)) /\ Len(path) >= 2
           ext == [i \in DOMAIN Beyond(path) |-> Append(path, Beyond(path)[i])]
<1>1. /\ UNCHANGED graphVars /\ UNCHANGED <<pairs, lines, seen, fetchCap>>
      /\ next \in Graphs /\ rowLimit \in CycleLimits
      /\ next' = next /\ rowLimit' = rowLimit
      /\ phase = "walk" /\ phase' = "walk" /\ Printed /\ FoundSoFar /\ Walking
      /\ Len(lines) < Room /\ fetchCap >= 1 /\ fetchCap \in Nat
      /\ trail # <<>>
      /\ components' = components /\ found' = found /\ fetchCap' = fetchCap
  BY DEF CheckInv, Walk, graphVars, tarjanVars, checkVars, Asking, Busy, Printed
<1>2. Printed' /\ Room' = Room
  BY <1>1, SamePrinted DEF Room
<1>3. AllCycles' = AllCycles /\ Files' = Files /\ Component' = Component
  BY <1>1, SameGraph DEF Component
<1>4. FoundSoFar'
  <2> HIDE DEF AllCycles
  <2> QED
    BY <1>1, <1>3 DEF FoundSoFar, Parts, ByKey, Few
<1>5. Parts /\ components # <<>> /\ Cardinality(Component) > 2 /\ Origins /\ Trail /\ HereSoFar
  BY <1>1 DEF FoundSoFar, Walking
<1>6. /\ trail \in Seq(Seq(Component)) /\ n \in Nat /\ n >= 1 /\ DOMAIN trail = 1..n
      /\ n \in DOMAIN trail /\ Last(trail) = path
  <2>1. trail \in Seq(Seq(Component)) /\ trail # <<>>
    BY <1>1, <1>5 DEF Trail
  <2>2. Len(trail) \in Nat /\ Len(trail) >= 1 /\ Last(trail) = trail[Len(trail)]
    BY ONLY <2>1, FrontAndLast
  <2> QED
    BY <2>1, <2>2, LenProperties
<1>7. IF ~DepthLeft(path)
      THEN trail' = Front(trail) /\ here' = here /\ origins' = origins
      ELSE /\ here' = IF closed THEN Add(here, {path}) ELSE here
           /\ IF closed /\ Cardinality(DOMAIN here') >= fetchCap
              THEN trail' = <<>> /\ origins' = <<>>
              ELSE trail' = Front(trail) \o ext /\ origins' = origins
  <2> DEFINE q == Last(trail)
             closing == q[1] \in ToSet(Inside(q)) /\ Len(q) >= 2
  <2>1. IF ~DepthLeft(q)
        THEN trail' = Front(trail) /\ here' = here /\ origins' = origins
        ELSE /\ here' = IF closing THEN Add(here, {q}) ELSE here
             /\ IF closing /\ Cardinality(DOMAIN here') >= fetchCap
                THEN trail' = <<>> /\ origins' = <<>>
                ELSE /\ trail' = Front(trail) \o
                                    [i \in DOMAIN Beyond(q) |-> Append(q, Beyond(q)[i])]
                     /\ origins' = origins
    BY DEF Walk, Inside, Beyond, Component
  <2>2. q = path
    BY <1>6
  <2> HIDE DEF q, path
  <2> QED
    BY <2>1, <2>2
<1>8. OnTrail(path) /\ Len(path) \in Nat /\ MaxDepth \in Nat
  <2>1. OnTrail(path)
    BY <1>5, <1>6 DEF Trail
  <2> QED
    BY <2>1, LenProperties, CyclesAssumption DEF OnTrail, Walked
<1>9. /\ ByKey(here) /\ Few(here) /\ \A p \in DOMAIN here : p[1] \in Started
      /\ \A p \in AllCycles : p[1] \in Started =>
            p \in DOMAIN here \/ \E i \in DOMAIN trail : Begins(trail[i], p)
  BY <1>1, <1>5 DEF HereSoFar
<1>10. \A p \in AllCycles : Len(p) \in Nat /\ Len(p) <= MaxDepth
  BY <1>1, CyclesAre, CyclesAssumption
<1>11. \A v \in Component : Component = ComponentOf(next, v)
  BY <1>1, <1>5, FirstComponent
<1> DEFINE front == Front(trail)
           new == front \o ext
<1>12. /\ front \in Seq(Seq(Component)) /\ new \in Seq(Seq(Component))
       /\ \A i \in DOMAIN front : OnTrail(front[i])
       /\ \A i \in DOMAIN new : OnTrail(new[i])
       /\ \A i \in DOMAIN trail : i = n \/ (i \in DOMAIN front /\ front[i] = trail[i])
       /\ \A i \in DOMAIN front : i \in DOMAIN new /\ new[i] = front[i]
       /\ \A i \in DOMAIN Beyond(path) :
             \E k \in DOMAIN new : new[k] = Append(path, Beyond(path)[i])
  BY <1>1, <1>5, ContinuedTrail
<1> HIDE DEF n, path, ext, front, new, AllCycles, Component
<1>13. CASE ~DepthLeft(path)
  <2>1. trail' = front /\ here' = here /\ origins' = origins
    BY <1>7, <1>13 DEF front
  <2>2. Started' = Started
    BY <1>3, <2>1 DEF Started
  <2>3. Origins'
    BY <1>3, <1>5, <2>1, <2>2 DEF Origins
  <2>4. Trail'
    <3>1. \A q : OnTrail(q) => OnTrail(q)'
      BY <1>1, <1>3, <2>2 DEF OnTrail, Walked
    <3> QED
      BY <1>3, <1>12, <2>1, <3>1 DEF Trail
  <2>5. ASSUME NEW p \in AllCycles, p[1] \in Started, p \notin DOMAIN here
        PROVE  \E i \in DOMAIN front : Begins(front[i], p)
    <3>1. PICK i \in DOMAIN trail : Begins(trail[i], p)
      BY <1>9, <2>5
    <3>2. i # n
      BY <1>8, <1>10, <1>13, <3>1 DEF Begins, DepthLeft, path
    <3> QED
      BY <1>12, <3>1, <3>2
  <2>6. ByKey(here)' /\ Few(here)'
    BY <1>1, <1>3, <1>9, <2>1 DEF ByKey, Few
  <2>7. HereSoFar'
    BY <1>3, <1>9, <2>1, <2>2, <2>5, <2>6 DEF HereSoFar
  <2>8. Walking'
    BY <1>1, <1>3, <1>5, <2>3, <2>4, <2>7 DEF Walking
  <2> QED
    BY <1>1, <1>2, <1>4, <2>8 DEF CheckInv, Asking, Busy
<1>14. ASSUME DepthLeft(path)
       PROVE  /\ ByKey(here') /\ DOMAIN here \subseteq DOMAIN here'
              /\ \A p \in DOMAIN here' : p[1] \in Started
              /\ closed => Key(path) \in DOMAIN here'
              /\ ~closed => here' = here
  <2>1. CASE closed
    <3>1. here' = Add(here, {path}) /\ Len(path) \in 2..MaxDepth
      BY <1>7, <1>8, <1>14, <2>1 DEF DepthLeft
    <3>2. /\ Key(path) \in AllCycles /\ Key(path)[1] \in Started
          /\ Key(path) \in DOMAIN here \/ Key(path) = path
      BY <1>1, <1>5, <1>6, <2>1, <3>1, ClosedWalk DEF path
    <3>3. \A p \in {path} : Key(p) \in AllCycles /\ (Key(p) \in DOMAIN here \/ Key(p) = p)
      BY <3>2
    <3>4. /\ ByKey(Add(here, {path}))
          /\ DOMAIN Add(here, {path}) = (DOMAIN here) \cup {Key(p) : p \in {path}}
      BY ONLY <1>9, <3>3, AddsCycles
    <3> QED
      BY <1>9, <2>1, <3>1, <3>2, <3>4
  <2>2. CASE ~closed
    <3>1. here' = here
      BY <1>7, <1>14, <2>2
    <3> QED
      BY <1>9, <2>2, <3>1
  <2> QED
    BY <2>1, <2>2
<1>15. CASE DepthLeft(path) /\ closed /\ Cardinality(DOMAIN here') >= fetchCap
  <2>1. trail' = <<>> /\ origins' = <<>>
    BY <1>7, <1>15
  <2>2. DOMAIN trail' = {} /\ DOMAIN origins' = {} /\ ToSet(origins') = {}
    <3>1. DOMAIN trail' = {} /\ DOMAIN origins' = {}
      BY <2>1, NoneOfThem
    <3> QED
      BY <3>1 DEF ToSet
  <2>3. Started' = Component
    BY <1>3, <2>2 DEF Started
  <2>4. Origins'
    BY <2>1, <2>2 DEF Origins
  <2>5. Trail'
    BY <2>1, <2>2 DEF Trail
  <2>6. ByKey(here)'
    BY <1>3, <1>14, <1>15 DEF ByKey
  <2>7. ~Few(here)'
    <3>1. Cardinality(DOMAIN here') \in Nat
      <4>1. DOMAIN here' \subseteq AllCycles
        BY <1>14, <1>15 DEF ByKey
      <4>2. IsFiniteSet(AllCycles)
        BY <1>1, CyclesAre
      <4> QED
        BY <4>1, <4>2, FS_Subset, FS_CardinalityType
    <3> QED
      BY <1>1, <1>15, <3>1 DEF Few
  <2>8. \A p \in DOMAIN here' : p[1] \in Started'
    BY <1>14, <1>15, <2>3 DEF Started
  <2>9. HereSoFar'
    BY <2>1, <2>6, <2>7, <2>8 DEF HereSoFar
  <2>10. Walking'
    BY <1>1, <1>3, <1>5, <2>4, <2>5, <2>9 DEF Walking
  <2> QED
    BY <1>1, <1>2, <1>4, <2>10 DEF CheckInv, Asking, Busy
<1>16. CASE DepthLeft(path) /\ ~(closed /\ Cardinality(DOMAIN here') >= fetchCap)
  <2>1. trail' = new /\ origins' = origins
    BY <1>7, <1>16 DEF front, new
  <2>2. Started' = Started
    BY <1>3, <2>1 DEF Started
  <2>3. Origins'
    BY <1>3, <1>5, <2>1, <2>2 DEF Origins
  <2>4. Trail'
    <3>1. \A q : OnTrail(q) => OnTrail(q)'
      BY <1>1, <1>3, <2>2 DEF OnTrail, Walked
    <3> QED
      BY <1>3, <1>12, <2>1, <3>1 DEF Trail
  <2>5. ASSUME NEW p \in AllCycles, p[1] \in Started, p \notin DOMAIN here'
        PROVE  \E i \in DOMAIN new : Begins(new[i], p)
    <3>1. PICK i \in DOMAIN trail : Begins(trail[i], p)
      BY <1>9, <1>14, <1>16, <2>5
    <3>2. CASE i # n
      BY <1>12, <3>1, <3>2
    <3>3. CASE i = n
      <4>1. Begins(path, p)
        BY <3>1, <3>3 DEF path
      <4>2. \/ p = path /\ Len(path) \in 2..MaxDepth /\ path[1] \in ToSet(Inside(path))
            \/ \E k \in DOMAIN Beyond(path) : Begins(Append(path, Beyond(path)[k]), p)
        BY <1>1, <1>8, <1>11, <4>1, BeginsFurther DEF OnTrail
      <4>3. CASE p = path /\ Len(path) \in 2..MaxDepth /\ path[1] \in ToSet(Inside(path))
        <5>1. closed
          BY <1>8, <4>3
        <5>2. Key(path) = p
          BY <1>1, <4>3, KeyOfCycle
        <5> QED
          BY <1>14, <1>16, <2>5, <5>1, <5>2
      <4>4. CASE \E k \in DOMAIN Beyond(path) : Begins(Append(path, Beyond(path)[k]), p)
        BY <1>12, <4>4
      <4> QED
        BY <4>2, <4>3, <4>4
    <3> QED
      BY <3>2, <3>3
  <2>6. ByKey(here)'
    BY <1>3, <1>14, <1>16 DEF ByKey
  <2>7. Few(here)'
    <3>1. Cardinality(DOMAIN here') \in Nat
      <4>1. DOMAIN here' \subseteq AllCycles
        BY <1>14, <1>16 DEF ByKey
      <4>2. IsFiniteSet(AllCycles)
        BY <1>1, CyclesAre
      <4> QED
        BY <4>1, <4>2, FS_Subset, FS_CardinalityType
    <3>2. CASE closed
      BY <1>1, <1>16, <3>1, <3>2 DEF Few
    <3>3. CASE ~closed
      BY <1>1, <1>9, <1>14, <1>16, <3>3 DEF Few
    <3> QED
      BY <3>2, <3>3
  <2>8. \A p \in DOMAIN here' : p[1] \in Started'
    BY <1>14, <1>16, <2>2
  <2>9. HereSoFar'
    BY <1>3, <2>1, <2>2, <2>5, <2>6, <2>7, <2>8 DEF HereSoFar
  <2>10. Walking'
    BY <1>1, <1>3, <1>5, <2>3, <2>4, <2>9 DEF Walking
  <2> QED
    BY <1>1, <1>2, <1>4, <2>10 DEF CheckInv, Asking, Busy
<1> QED
  BY <1>13, <1>15, <1>16

-----------------------------------------------------------------------------
(* The cycles of a component join the others.                              *)

LEMMA OnceCounted ==
    ASSUME NEW S, NEW s \in Seq(S), IsInjective(s)
    PROVE  /\ IsFiniteSet(ToSet(s)) /\ Cardinality(ToSet(s)) = Len(s) /\ Len(s) \in Nat
<1>1. PICK n \in Nat : n = Len(s)
  BY LenProperties
<1>2. DOMAIN s = 1..n /\ ToSet(s) = {s[i] : i \in 1..n}
  BY <1>1, SequenceSet
<1>3. s \in [1..n -> ToSet(s)] /\ \A i, j \in 1..n : s[i] = s[j] => i = j
  BY <1>1, <1>2 DEF IsInjective
<1>4. s \in Bijection(1..n, ToSet(s))
  BY <1>2, <1>3 DEF Bijection, Injection, Surjection, IsInjective
<1>5. ExistsBijection(1..n, ToSet(s))
  BY <1>4 DEF ExistsBijection
<1> QED
  BY <1>1, <1>5, FS_NatBijection, FS_CountingElements

\* The cycles of this component are new; they join those found earlier, all of
\* them unless there are enough.
Joined ==
    LET new == Where(SortedCycleValues(here, fetchCap), LAMBDA p : Key(p) \notin DOMAIN found)
    IN  Add(found, ToSet(Prefix(new, fetchCap - Cardinality(DOMAIN found))))

LEMMA JoinedCycles ==
    ASSUME next \in Graphs, ByKey(found), ByKey(here), Few(found), fetchCap \in Nat,
           (DOMAIN found) \cap (DOMAIN here) = {}
    PROVE  /\ ByKey(Joined) /\ Cardinality(DOMAIN Joined) \in Nat
           /\ Few(Joined) => Few(here) /\ DOMAIN Joined = (DOMAIN found) \cup (DOMAIN here)
<1> DEFINE sorted == SortedCycleValues(here, fetchCap)
           P == {i \in DOMAIN sorted : Key(sorted[i]) \notin DOMAIN found}
           new == AtPlaces(sorted, P)
           m == Cardinality(DOMAIN found)
           k == fetchCap - m
           first == Prefix(new, k)
           X == ToSet(first)
<1>1. Joined = Add(found, X)
  BY DEF Joined, Where
<1>2. /\ sorted \in Seq(DOMAIN here) /\ IsInjective(sorted) /\ Len(sorted) \in Nat
      /\ Few(here) => ToSet(sorted) = DOMAIN here
      /\ ~Few(here) => Len(sorted) = fetchCap
  BY Delivered
<1>3. IsFiniteSet(DOMAIN found) /\ m \in Nat /\ m < fetchCap /\ k \in Nat /\ k >= 1 /\ k <= fetchCap
  <2>1. IsFiniteSet(DOMAIN found) /\ m \in Nat /\ m < fetchCap
    BY FewTyped DEF Few
  <2> HIDE DEF m
  <2> QED
    BY <2>1
<1>4. \A p \in DOMAIN here : p \in AllCycles /\ Key(p) = p /\ p \notin DOMAIN found
  BY KeyOfCycle DEF ByKey
<1> HIDE DEF sorted, AllCycles, m, k
<1>5. DOMAIN sorted = 1..Len(sorted) /\ \A i \in DOMAIN sorted : sorted[i] \in DOMAIN here
  BY <1>2, LenProperties, ElementOfSeq
<1>6. P = DOMAIN sorted
  BY <1>4, <1>5
<1> HIDE DEF P
<1>7. /\ new \in Seq(DOMAIN here) /\ ToSet(new) = {sorted[i] : i \in P}
      /\ Len(new) = Len(sorted)
      /\ \E at \in [DOMAIN new -> P] :
            /\ \A i \in DOMAIN new : new[i] = sorted[at[i]]
            /\ \A i, j \in DOMAIN new : i < j => at[i] < at[j]
  <2> DEFINE T == DOMAIN here
             kept == AtPlaces(sorted, P)
  <2>1. sorted \in Seq(T) /\ P \in SUBSET DOMAIN sorted
    BY <1>2, <1>6
  <2> HIDE DEF T
  <2>2. /\ kept \in Seq(T) /\ ToSet(kept) = {sorted[i] : i \in P}
        /\ P = DOMAIN sorted => Len(kept) = Len(sorted)
    BY ONLY <2>1, KeptPlaces
  <2>3. \E at \in [DOMAIN kept -> P] :
            /\ \A i \in DOMAIN kept : kept[i] = sorted[at[i]]
            /\ \A i, j \in DOMAIN kept : i < j => at[i] < at[j]
    BY ONLY <2>1, KeptPlaces
  <2> HIDE DEF kept
  <2> QED
    BY <1>6, <2>2, <2>3 DEF T, kept
<1> HIDE DEF new
<1>8. ToSet(new) = ToSet(sorted)
  BY <1>6, <1>7 DEF ToSet
<1>9. IsInjective(new)
  <2>1. PICK at \in [DOMAIN new -> P] :
            /\ \A i \in DOMAIN new : new[i] = sorted[at[i]]
            /\ \A i, j \in DOMAIN new : i < j => at[i] < at[j]
    BY <1>7
  <2>2. DOMAIN new \subseteq Nat /\ P \subseteq Nat
    BY <1>5, <1>6, <1>7, LenProperties
  <2>3. ASSUME NEW i \in DOMAIN new, NEW j \in DOMAIN new, new[i] = new[j]
        PROVE  i = j
    <3>1. at[i] \in DOMAIN sorted /\ at[j] \in DOMAIN sorted /\ sorted[at[i]] = sorted[at[j]]
      BY <1>6, <2>1, <2>3
    <3>2. at[i] = at[j]
      BY <1>2, <3>1 DEF IsInjective
    <3>3. at[i] \in Nat /\ i \in Nat /\ j \in Nat
      BY <2>1, <2>2
    <3>4. ~(i < j) /\ ~(j < i)
      BY <2>1, <3>2, <3>3
    <3> QED
      BY <3>3, <3>4
  <2> QED
    BY <2>3 DEF IsInjective
<1>10. /\ first \in Seq(DOMAIN here)
       /\ Len(first) = IF k <= Len(new) THEN k ELSE Len(new)
       /\ \A i \in 1..Len(first) : first[i] = new[i]
       /\ Len(new) <= k => first = new
  BY <1>3, <1>7, FirstRows
<1> HIDE DEF first
<1>11. IsInjective(first)
  <2>1. DOMAIN first = 1..Len(first) /\ DOMAIN new = 1..Len(new) /\ Len(new) \in Nat
    BY <1>7, <1>10, LenProperties
  <2>2. \A i \in DOMAIN first : i \in DOMAIN new /\ first[i] = new[i]
    BY <1>3, <1>10, <2>1
  <2> QED
    BY <1>9, <2>2 DEF IsInjective
<1>12. /\ IsFiniteSet(X) /\ Cardinality(X) = Len(first) /\ Len(first) \in Nat
       /\ X \subseteq DOMAIN here
  BY <1>10, <1>11, OnceCounted, SequenceSet
<1> HIDE DEF X
<1>13. ByKey(Joined) /\ DOMAIN Joined = (DOMAIN found) \cup X
  <2>1. \A p \in X : Key(p) \in AllCycles /\ (Key(p) \in DOMAIN found \/ Key(p) = p)
    BY <1>4, <1>12
  <2>2. ByKey(Add(found, X)) /\ DOMAIN Add(found, X) = (DOMAIN found) \cup {Key(p) : p \in X}
    BY <2>1, AddsCycles
  <2>3. {Key(p) : p \in X} = X
    BY <1>4, <1>12
  <2> QED
    BY <1>1, <2>2, <2>3
<1>14. Cardinality(DOMAIN Joined) = m + Len(first)
  <2>1. (DOMAIN found) \cap X = {}
    BY <1>12
  <2>2. Cardinality((DOMAIN found) \cup X) =
           Cardinality(DOMAIN found) + Cardinality(X) - Cardinality((DOMAIN found) \cap X)
    BY <1>3, <1>12, FS_Union
  <2>3. Cardinality((DOMAIN found) \cap X) = 0
    BY <2>1, FS_EmptySet
  <2> QED
    BY <1>3, <1>12, <1>13, <2>2, <2>3 DEF m
<1>15. CASE k <= Len(new)
  <2>1. Cardinality(DOMAIN Joined) = fetchCap
    BY <1>3, <1>10, <1>14, <1>15 DEF k
  <2> QED
    BY <1>13, <2>1 DEF Few
<1>16. CASE ~(k <= Len(new))
  <2>1. Len(new) \in Nat /\ Len(new) < k
    BY <1>3, <1>7, <1>2, <1>16
  <2>2. first = new
    BY <1>3, <1>10, <2>1
  <2>3. Few(here)
    BY <1>2, <1>3, <1>7, <2>1
  <2>4. X = DOMAIN here
    BY <1>2, <1>8, <2>2, <2>3 DEF X
  <2>5. m + Len(first) \in Nat
    BY <1>3, <1>12
  <2> QED
    BY <1>13, <1>14, <2>3, <2>4, <2>5
<1> QED
  BY <1>15, <1>16

LEMMA CloseKeepsCheck ==
    ASSUME CheckInv, CloseComponent
    PROVE  CheckInv'
<1>1. /\ UNCHANGED graphVars /\ UNCHANGED <<pairs, lines, seen, fetchCap>>
      /\ next \in Graphs /\ rowLimit \in CycleLimits
      /\ next' = next /\ rowLimit' = rowLimit
      /\ phase = "walk" /\ Printed /\ FoundSoFar /\ Walking
      /\ Len(lines) < Room /\ fetchCap >= 1 /\ fetchCap \in Nat
      /\ trail = <<>> /\ origins = <<>> /\ trail' = trail
      /\ components' = Tail(components) /\ found' = Joined
  BY DEF CheckInv, CloseComponent, Deliver, graphVars, Asking, Busy, Printed, Joined
<1>2. IF Cardinality(DOMAIN found') >= fetchCap
      THEN /\ candidates' = SortedCycleValues(found', fetchCap)
           /\ short' = (Cardinality(DOMAIN found') < fetchCap)
           /\ phase' = IF found' = <<>> THEN "done" ELSE "accept"
      ELSE phase' = "next component"
  BY DEF CloseComponent, Deliver
<1>3. Printed' /\ Room' = Room
  BY <1>1, SamePrinted DEF Room
<1>4. AllCycles' = AllCycles /\ Files' = Files
  BY <1>1, SameGraph
<1>5. /\ Parts /\ ByKey(found) /\ Few(found) /\ components # <<>>
      /\ \A p \in AllCycles : p \in DOMAIN found <=>
                              \A i \in DOMAIN components : p[1] \notin components[i]
  BY <1>1 DEF FoundSoFar, Walking
<1>6. /\ ByKey(here) /\ \A p \in DOMAIN here : p[1] \in Component
      /\ Few(here) => \A p \in AllCycles : p[1] \in Component => p \in DOMAIN here
  <2>1. DOMAIN trail = {} /\ DOMAIN origins = {}
    BY <1>1, NoneOfThem
  <2>2. Started = Component
    BY <2>1 DEF Started, ToSet
  <2>3. HereSoFar
    BY <1>1 DEF Walking
  <2> HIDE DEF AllCycles
  <2> QED
    BY <2>1, <2>2, <2>3 DEF HereSoFar
<1>7. /\ 1 \in DOMAIN components /\ Component = components[1]
      /\ \A i \in DOMAIN Tail(components) :
            i + 1 \in DOMAIN components /\ Tail(components)[i] = components[i + 1]
      /\ \A i \in DOMAIN components :
            i = 1 \/ (i - 1 \in DOMAIN Tail(components)
                      /\ components[i] = Tail(components)[i - 1])
  BY <1>1, <1>5, FirstComponent
<1>8. DOMAIN components \subseteq Nat /\ DOMAIN Tail(components) \subseteq Nat \ {0}
  <2>1. components \in Seq(SUBSET Files) /\ Tail(components) \in Seq(SUBSET Files)
    BY <1>1, <1>5, FirstComponent DEF Parts
  <2> QED
    BY <2>1, LenProperties
<1> HIDE DEF AllCycles, Component
<1>9. (DOMAIN found) \cap (DOMAIN here) = {}
  BY <1>5, <1>6, <1>7 DEF ByKey
<1>10. /\ ByKey(found') /\ Cardinality(DOMAIN found') \in Nat
       /\ Few(Joined) => Few(here) /\ DOMAIN found' = (DOMAIN found) \cup (DOMAIN here)
  BY <1>1, <1>5, <1>6, <1>9, JoinedCycles
<1>11. Few(Joined) <=> Cardinality(DOMAIN found') < fetchCap
  BY <1>1 DEF Few
<1>12. CASE Cardinality(DOMAIN found') >= fetchCap
  <2>1. found' # <<>>
    BY <1>1, <1>12, NoneOfThem
  <2>2. phase' = "accept" /\ ~short' /\ candidates' = SortedCycleValues(Joined, fetchCap)
    <3>1. ~(Cardinality(DOMAIN found') < fetchCap)
      BY <1>1, <1>10, <1>12
    <3>2. found' = Joined
      BY <1>1
    <3> QED
      BY ONLY <1>2, <1>12, <2>1, <3>1, <3>2
  <2>3. candidates' \in Seq(AllCycles)
    BY <1>1, <1>10, <2>2, Delivered
  <2>4. Accepting'
    BY <1>4, <2>2, <2>3 DEF Accepting
  <2> QED
    BY <1>1, <1>3, <2>2, <2>4 DEF CheckInv, Asking, Busy
<1>13. CASE ~(Cardinality(DOMAIN found') >= fetchCap)
  <2>1. phase' = "next component" /\ Few(Joined) /\ trail' = <<>>
    <3>1. Cardinality(DOMAIN found') \in Nat /\ fetchCap \in Nat /\ trail' = <<>>
      BY <1>1, <1>10
    <3>2. Cardinality(DOMAIN found') < fetchCap
      BY ONLY <1>13, <3>1
    <3>3. phase' = "next component"
      BY ONLY <1>2, <1>13
    <3> QED
      BY ONLY <1>11, <3>1, <3>2, <3>3
  <2>2. DOMAIN found' = (DOMAIN found) \cup (DOMAIN here) /\ Few(here)
    BY <1>10, <2>1
  <2>3. Parts'
    BY <1>1, <1>5, PartsLeft
  <2>4. ASSUME NEW p \in AllCycles, p \in DOMAIN found', NEW i \in DOMAIN Tail(components)
        PROVE  p[1] \notin Tail(components)[i]
    <3>1. i + 1 \in DOMAIN components /\ Tail(components)[i] = components[i + 1]
      BY <1>7
    <3>2. CASE p \in DOMAIN found
      BY <1>5, <3>1, <3>2
    <3>3. CASE p \in DOMAIN here
      <4>1. i + 1 # 1
        BY <1>8
      <4>2. components[1] \cap components[i + 1] = {}
        BY <1>5, <1>7, <3>1, <4>1 DEF Parts
      <4> QED
        BY <1>6, <1>7, <3>1, <3>3, <4>2
    <3> QED
      BY <2>2, <2>4, <3>2, <3>3
  <2>5. ASSUME NEW p \in AllCycles,
               \A i \in DOMAIN Tail(components) : p[1] \notin Tail(components)[i]
        PROVE  p \in DOMAIN found'
    <3>1. CASE p[1] \in Component
      BY <1>6, <2>2, <3>1
    <3>2. CASE p[1] \notin Component
      <4>1. \A i \in DOMAIN components : p[1] \notin components[i]
        BY <1>7, <2>5, <3>2
      <4> QED
        BY <1>5, <2>2, <4>1
    <3> QED
      BY <3>1, <3>2
  <2>6. ByKey(found)' /\ Few(found)'
    BY <1>1, <1>4, <1>10, <1>11, <2>1 DEF ByKey, Few
  <2>7. FoundSoFar'
    BY <1>1, <1>4, <2>3, <2>4, <2>5, <2>6 DEF FoundSoFar
  <2> QED
    BY <1>1, <1>3, <2>1, <2>7 DEF CheckInv, Asking, Busy
<1> QED
  BY <1>12, <1>13

LEMMA StutterKeepsCheck ==
    ASSUME CheckInv, UNCHANGED cycleVars
    PROVE  CheckInv'
<1>1. /\ UNCHANGED <<next, filter, rowLimit, components, trail, origins, here, found>>
      /\ UNCHANGED <<phase, pairs, lines, seen, fetchCap, candidates, short>>
  BY DEF cycleVars, graphVars, tarjanVars, walkVars, checkVars
<1>2. /\ AllCycles' = AllCycles /\ Files' = Files /\ Component' = Component
      /\ Started' = Started /\ Room' = Room /\ \A p : Wanted(p)' <=> Wanted(p)
  BY <1>1, SameGraph DEF graphVars, Component, Started, Room
<1> HIDE DEF AllCycles, Component, Started, Wanted
<1>3. Printed => Printed'
  BY <1>1, <1>2 DEF Printed
<1>4. FoundSoFar => FoundSoFar'
  BY <1>1, <1>2 DEF FoundSoFar, Parts, ByKey, Few
<1>5. Walking => Walking'
  <2>1. Trail => Trail'
    BY <1>1, <1>2 DEF Trail, OnTrail, Walked
  <2>2. Origins => Origins'
    BY <1>1, <1>2 DEF Origins
  <2>3. HereSoFar => HereSoFar'
    BY <1>1, <1>2 DEF HereSoFar, ByKey, Few
  <2> QED
    BY <1>1, <1>2, <2>1, <2>2, <2>3 DEF Walking
<1>6. (Accepting => Accepting') /\ (AllFound => AllFound') /\ (Asking => Asking')
  BY <1>1, <1>2 DEF Accepting, AllFound, Asking, Busy
<1> QED
  BY <1>1, <1>3, <1>4, <1>5, <1>6 DEF CheckInv

LEMMA CheckStep ==
    ASSUME CycleInv, CheckInv, [CycleNext]_cycleVars
    PROVE  CheckInv'
<1>1. CASE CollectPairs
  BY <1>1, CollectPairsKeepsCheck
<1>2. CASE Produce
  BY <1>2, ProduceKeepsCheck
<1>3. CASE AcceptCandidate
  BY <1>3, AcceptKeepsCheck
<1>4. CASE AskAgain
  BY <1>4, AskAgainKeepsCheck
<1>5. CASE PickRoot \/ LookAtNeighbour \/ LeaveVertex
  BY <1>5, SearchKeepsCheck
<1>6. CASE StartWalks
  BY <1>6, StartWalksKeepsCheck
<1>7. CASE OpenComponent
  BY <1>7, OpenComponentKeepsCheck
<1>8. CASE NoMoreComponents
  BY <1>8, NoMoreKeepsCheck
<1>9. CASE StartAtOrigin
  BY <1>9, StartAtOriginKeepsCheck
<1>10. CASE Walk
  BY <1>10, WalkKeepsCheck
<1>11. CASE CloseComponent
  BY <1>11, CloseKeepsCheck
<1>12. CASE UNCHANGED cycleVars
  BY <1>12, StutterKeepsCheck
<1> QED
  BY <1>1, <1>2, <1>3, <1>4, <1>5, <1>6, <1>7, <1>8, <1>9, <1>10, <1>11, <1>12
     DEF CycleNext

-----------------------------------------------------------------------------
(* What the check prints.                                                  *)

LEMMA PrintedOnce ==
    ASSUME CheckInv
    PROVE  CyclesOnce
<1>1. /\ next \in Graphs /\ lines \in Seq(seen) /\ IsInjective(lines) /\ seen \subseteq AllCycles
      /\ \A i \in DOMAIN lines : Wanted(lines[i])
  BY RowsPrinted DEF CheckInv
<1>2. ToSet(lines) \subseteq seen /\ Cardinality(ToSet(lines)) = Len(lines)
  BY <1>1, OnceCounted, SequenceSet
<1>3. \A p \in ToSet(lines) : Wanted(p)
  BY <1>1 DEF ToSet
<1>4. ASSUME NEW p \in ToSet(lines)
      PROVE  /\ Len(p) \in 2..MaxDepth /\ IsSimpleCycle(next, p) /\ Accepted(ToSet(p))
             /\ MinRotation(p) = p
  <2>1. p \in AllCycles
    BY <1>1, <1>2
  <2>2. /\ p \in Seq(Files) /\ Len(p) \in 2..MaxDepth /\ Closed(next, p) /\ <<>> \notin AllCycles
    BY <1>1, <2>1, CyclesAre
  <2>3. IsSimpleCycle(next, p)
    BY <2>1, <2>2, ClosedIsCycle
  <2> QED
    BY <1>1, <1>3, <2>1, <2>2, <2>3, KeyOfCycle DEF Wanted
<1>5. {MinRotation(p) : p \in ToSet(lines)} = ToSet(lines)
  <2> DEFINE L == ToSet(lines)
  <2>1. \A p \in L : MinRotation(p) = p
    BY <1>4
  <2> HIDE DEF L
  <2> QED
    BY <2>1 DEF L
<1> QED
  BY <1>2, <1>4, <1>5 DEF CyclesOnce

LEMMA AllPrinted ==
    ASSUME CheckInv
    PROVE  CyclesComplete
<1> SUFFICES ASSUME phase = "done", Len(pairs) + Len(lines) < rowLimit,
                    fetchCap <= MaxScan, Cardinality(seen) <= MaxScan
             PROVE  ToSet(lines) = {p \in SimpleCycles(next, MaxDepth) : Accepted(ToSet(p))}
  BY DEF CyclesComplete
<1>1. /\ next \in Graphs /\ lines \in Seq(seen) /\ seen \subseteq AllCycles
      /\ \A i \in DOMAIN lines : Wanted(lines[i])
  BY RowsPrinted DEF CheckInv
<1>2. \A p \in AllCycles : Wanted(p) => p \in ToSet(lines)
  BY DEF CheckInv, AllFound
<1>3. \A p \in ToSet(lines) : p \in AllCycles /\ Wanted(p)
  BY <1>1, SequenceSet DEF ToSet
<1>4. ToSet(lines) = {p \in AllCycles : Wanted(p)}
  BY <1>2, <1>3
<1> QED
  BY <1>4 DEF AllCycles, Wanted

\* A cycle is among the lines taken from FindLongerCycles once, whatever file it
\* is met from and however often the search is made again, and each of these
\* lines is a cycle that the filter allows:
\* cyclesInSCC meets each one first from its least file, so that its key is new
\* then, and known when it is met from another.
THEOREM CyclesAlwaysOnce == CycleSpec => []CyclesOnce
<1>1. CycleInit => CycleInv /\ CheckInv
  BY CycleInitCheck DEF CycleInit, CycleInv
<1>2. CycleInv /\ CheckInv /\ [CycleNext]_cycleVars => CycleInv' /\ CheckInv'
  BY CycleStep, CheckStep
<1>3. CheckInv => CyclesOnce
  BY PrintedOnce
<1> QED
  BY <1>1, <1>2, <1>3, PTL DEF CycleSpec

\* A check that ends with rows to spare, within its bound on candidates, has
\* every cycle that the filter allows.
THEOREM CyclesAlwaysComplete == CycleSpec => []CyclesComplete
<1>1. CycleInit => CycleInv /\ CheckInv
  BY CycleInitCheck DEF CycleInit, CycleInv
<1>2. CycleInv /\ CheckInv /\ [CycleNext]_cycleVars => CycleInv' /\ CheckInv'
  BY CycleStep, CheckStep
<1>3. CheckInv => CyclesComplete
  BY AllPrinted
<1> QED
  BY <1>1, <1>2, <1>3, PTL DEF CycleSpec

-----------------------------------------------------------------------------
(* The types of the check.                                                 *)

SearchTyped == /\ next \in Graphs
               /\ lowlink \in [Visited -> 0..Cardinality(Files)]
               /\ \A i \in DOMAIN frames : frames[i].vertex \in Visited
               /\ components \in Seq(SUBSET Files)

LEMMA SearchIsTyped ==
    ASSUME Searching
    PROVE  SearchTyped
<1>1. Numbers /\ Stacks /\ Split
  BY DEF Searching
<1>2. IsFiniteSet(Files) /\ Visited \in SUBSET Files /\ next \in Graphs
  BY <1>1, GraphFiles DEF Numbers, Files
<1>3. /\ Cardinality(Visited) \in Nat /\ Cardinality(Files) \in Nat
      /\ Cardinality(Visited) <= Cardinality(Files)
  BY <1>2, FS_Subset, FS_CardinalityType
<1>4. lowlink \in [Visited -> 0..Cardinality(Files)]
  <2>1. /\ lowlink \in [Visited -> Nat] /\ indices \in [Visited -> Nat]
        /\ \A v \in Visited : indices[v] < Cardinality(Visited) /\ lowlink[v] <= indices[v]
    BY <1>1 DEF Numbers
  <2> HIDE DEF Visited, Files
  <2>2. \A v \in Visited : lowlink[v] \in 0..Cardinality(Files)
    BY <1>3, <2>1
  <2> QED
    BY <2>1, <2>2
<1>5. \A i \in DOMAIN frames : frames[i].vertex \in Visited
  <2>1. frames \in Seq([vertex : Visited, idx : Nat \ {0}])
    BY <1>1 DEF Stacks
  <2> HIDE DEF Visited
  <2>2. \A i \in DOMAIN frames : frames[i] \in [vertex : Visited, idx : Nat \ {0}]
    <3> DEFINE T == [vertex : Visited, idx : Nat \ {0}]
    <3>1. frames \in Seq(T)
      BY <2>1
    <3> HIDE DEF T
    <3>2. \A i \in DOMAIN frames : frames[i] \in T
      BY <3>1, LenProperties, ElementOfSeq
    <3> QED
      BY <3>2 DEF T
  <2> QED
    BY <2>2
<1>6. components \in Seq(SUBSET Files)
  BY <1>1, <1>2, SeqMonotonic DEF Split
<1> QED
  BY <1>2, <1>4, <1>5, <1>6 DEF SearchTyped

LEMMA SearchStaysTyped ==
    ASSUME SearchTyped, UNCHANGED <<next, indices, lowlink, frames>>,
           components' = components \/ (components # <<>> /\ components' = Tail(components))
    PROVE  SearchTyped'
<1>1. Files' = Files /\ Visited' = Visited
  BY DEF Files, Visited
<1> HIDE DEF Files, Visited
<1>2. components' \in Seq(SUBSET Files)
  <2> DEFINE S == SUBSET Files
  <2>1. components \in Seq(S)
    BY DEF SearchTyped
  <2> HIDE DEF S
  <2>2. components # <<>> => Tail(components) \in Seq(S)
    BY <2>1, HeadTailProperties
  <2> QED
    BY <2>1, <2>2 DEF S
<1> QED
  BY <1>1, <1>2 DEF SearchTyped

Phases == {"idle", "pairs", "produce", "components", "next component", "walk", "accept", "done"}
CheckTyped == phase \in Phases /\ SearchTyped

LEMMA TypeStep ==
    ASSUME CycleInv, CheckInv, CheckTyped, [CycleNext]_cycleVars
    PROVE  CheckTyped'
<1>1. phase \in Phases /\ SearchTyped
  BY DEF CheckTyped
<1>2. CycleInv'
  BY CycleStep
<1>3. CASE CollectPairs \/ AcceptCandidate \/ AskAgain \/ StartWalks \/ NoMoreComponents
  <2>1. UNCHANGED <<next, indices, lowlink, frames>> /\ components' = components
    BY <1>3 DEF CollectPairs, AcceptCandidate, AskAgain, StartWalks, NoMoreComponents,
                graphVars, tarjanVars
  <2>2. phase' \in Phases
    BY <1>1, <1>3 DEF CollectPairs, AcceptCandidate, AskAgain, StartWalks, NoMoreComponents,
                      Deliver, Phases
  <2> QED
    BY <1>1, <2>1, <2>2, SearchStaysTyped DEF CheckTyped
<1>4. CASE Produce
  <2>1. /\ next' \in Graphs /\ indices' = <<>> /\ lowlink' = <<>> /\ tarjan' = <<>>
        /\ frames' = <<>> /\ components' = <<>>
    BY <1>2, <1>4 DEF Produce, CycleInv
  <2>2. Searching'
    BY <2>1, EmptySearch
  <2>3. SearchTyped'
    BY <2>2, SearchIsTyped, PTL
  <2>4. phase' \in Phases
    BY <1>4 DEF Produce, Phases
  <2> QED
    BY <2>3, <2>4 DEF CheckTyped
<1>5. CASE PickRoot \/ LookAtNeighbour \/ LeaveVertex
  <2>1. phase' = "components"
    BY <1>5 DEF PickRoot, LookAtNeighbour, LeaveVertex, checkVars
  <2>2. Searching'
    BY <1>2, <2>1 DEF CycleInv
  <2>3. SearchTyped'
    BY <2>2, SearchIsTyped, PTL
  <2> QED
    BY <2>1, <2>3 DEF CheckTyped, Phases
<1>6. CASE OpenComponent
  <2>1. /\ UNCHANGED <<next, indices, lowlink, frames>>
        /\ components' = components \/ (components # <<>> /\ components' = Tail(components))
        /\ phase' \in Phases
    BY <1>1, <1>6 DEF OpenComponent, graphVars, Phases
  <2> QED
    BY <1>1, <2>1, SearchStaysTyped DEF CheckTyped
<1>7. CASE StartAtOrigin \/ Walk
  <2>1. UNCHANGED <<next, indices, lowlink, frames, components>> /\ phase' = phase
    BY <1>7 DEF StartAtOrigin, Walk, graphVars, tarjanVars, checkVars
  <2> QED
    BY <1>1, <2>1, SearchStaysTyped DEF CheckTyped
<1>8. CASE CloseComponent
  <2>1. components # <<>>
    BY <1>8 DEF CheckInv, Walking, CloseComponent
  <2>2. /\ UNCHANGED <<next, indices, lowlink, frames>> /\ components' = Tail(components)
        /\ phase' \in Phases
    BY <1>8 DEF CloseComponent, Deliver, graphVars, Phases
  <2> QED
    BY <1>1, <2>1, <2>2, SearchStaysTyped DEF CheckTyped
<1>9. CASE UNCHANGED cycleVars
  <2>1. UNCHANGED <<next, indices, lowlink, frames, components>> /\ phase' = phase
    BY <1>9 DEF cycleVars, graphVars, tarjanVars, checkVars
  <2> QED
    BY <1>1, <2>1, SearchStaysTyped DEF CheckTyped
<1> QED
  BY <1>3, <1>4, <1>5, <1>6, <1>7, <1>8, <1>9 DEF CycleNext

LEMMA CycleInitTyped ==
    ASSUME CycleInit
    PROVE  CheckTyped
<1>1. /\ next \in Graphs /\ indices = <<>> /\ lowlink = <<>> /\ frames = <<>>
      /\ components = <<>> /\ phase = "pairs"
  BY DEF CycleInit, NoSearch
<1>2. DOMAIN indices = {} /\ DOMAIN frames = {}
  BY <1>1, NoneOfThem
<1>3. SearchTyped
  BY <1>1, <1>2 DEF SearchTyped, Visited
<1> QED
  BY <1>1, <1>3 DEF CheckTyped, Phases

LEMMA TypeFromInv ==
    ASSUME CheckInv, CheckTyped
    PROVE  CycleTypeOK
<1>1. /\ lines \in Seq(seen) /\ Len(pairs) \in Nat /\ Len(lines) \in Nat
      /\ Len(lines) <= rowLimit - Len(pairs) /\ rowLimit \in Nat
  <2>1. Printed /\ next \in Graphs /\ rowLimit \in Nat
    BY CyclesAssumption DEF CheckInv
  <2> QED
    BY <2>1, RowsPrinted DEF Printed
<1>2. ToSet(lines) \subseteq seen /\ Len(pairs) + Len(lines) <= rowLimit
  BY <1>1, SequenceSet
<1>3. \A i \in DOMAIN components : components[i] \subseteq Files
  <2>1. components \in Seq(SUBSET Files)
    BY DEF CheckTyped, SearchTyped
  <2> QED
    BY <2>1, LenProperties, ElementOfSeq
<1> QED
  BY <1>2, <1>3 DEF CheckTyped, SearchTyped, Phases, CycleTypeOK

\* The links of tarjanSCCs are numbers of files, its frames and components hold
\* files, and no more rows are printed than the limit allows.
THEOREM CycleTypeCorrect == CycleSpec => []CycleTypeOK
<1>1. CycleInit => CycleInv /\ CheckInv /\ CheckTyped
  BY CycleInitCheck, CycleInitTyped DEF CycleInit, CycleInv
<1>2. CycleInv /\ CheckInv /\ CheckTyped /\ [CycleNext]_cycleVars
         => CycleInv' /\ CheckInv' /\ CheckTyped'
  BY CycleStep, CheckStep, TypeStep
<1>3. CheckInv /\ CheckTyped => CycleTypeOK
  BY TypeFromInv
<1> QED
  BY <1>1, <1>2, <1>3, PTL DEF CycleSpec
=============================================================================
