------------------------------ MODULE FileGraph ------------------------------
(***************************************************************************)
(* The cycles check of analyze.  Two files that import each other come     *)
(* from an SQL query; longer cycles from FindLongerCycles, which splits    *)
(* the graph of the files into strongly connected components (tarjanSCCs)  *)
(* and walks every component of three files or more from each of its       *)
(* files (cyclesInSCC).  CollectFromProducer asks it again with a larger   *)
(* cap as long as the filter of the check refuses what it found.           *)
(*                                                                         *)
(* Files are numbers, in the order of their paths; a cycle is the sequence *)
(* of its files.  The next files of a file keep the order of the query's   *)
(* rows; Tarjan's algorithm takes its first files from a Go map, in any    *)
(* order, and in another one at the next call.                             *)
(***************************************************************************)
EXTENDS Digraphs, OrderedRows

CONSTANTS Graphs,       \* functions from files to the files they depend on
          Filters,      \* what the check refuses: tests, and files out of scope
          CycleLimits,  \* how many rows the check may have
          MaxDepth,     \* the longest cycle looked for
          KeyWidth,     \* how many files of a cycle its key holds
          MaxScan       \* how many candidates a check looks at

\* Files are numbers; finitely many of them depend on others.
ASSUME GraphsAssumption ==
    \A g \in Graphs : /\ DOMAIN g \in SUBSET Nat /\ IsFiniteSet(DOMAIN g)
                       /\ \A v \in DOMAIN g : g[v] \in Seq(Nat)

\* The key of a cycle has room for the longest one.
ASSUME CyclesAssumption ==
    /\ CycleLimits \subseteq Nat /\ MaxScan \in Nat
    /\ MaxDepth \in Nat /\ KeyWidth \in Nat /\ MaxDepth <= KeyWidth

VARIABLES next,        \* the graph
          filter,      \* the files that are tests, and those in scope
          rowLimit,    \* the limit of the check
          phase,       \* what the check does
          pairs,       \* its rows for files that import each other
          lines,       \* its rows for the cycles of FindLongerCycles
          seen,        \* the candidates it has looked at
          fetchCap,    \* how many cycles it asks for
          candidates,  \* the cycles it has got and not looked at
          short,       \* it got fewer than it asked for
          indices,     \* Tarjan: the number of each visited file
          lowlink,     \* the least number reachable from it
          tarjan,      \* the files that are in no component yet
          frames,      \* the call stack
          components,  \* the components found
          trail,       \* the paths to be walked in a component
          origins,     \* the files of the component to start from
          here,        \* the cycles of this component, by their keys
          found        \* the cycles of the earlier ones

graphVars  == <<next, filter, rowLimit>>
tarjanVars == <<indices, lowlink, tarjan, frames, components>>
walkVars   == <<trail, origins, here, found>>
checkVars  == <<phase, pairs, lines, seen, fetchCap, candidates, short>>
cycleVars  == <<graphVars, tarjanVars, walkVars, checkVars>>

Successors(v) == SuccessorsIn(next, v)
Files == FilesOf(next)

NoSearch == /\ indices = <<>> /\ lowlink = <<>> /\ tarjan = <<>>
            /\ frames = <<>> /\ components = <<>>
            /\ trail = <<>> /\ origins = <<>> /\ here = <<>> /\ found = <<>>
            /\ pairs = <<>> /\ lines = <<>> /\ seen = {} /\ fetchCap = 0
            /\ candidates = <<>> /\ short = FALSE

CycleInit == /\ next \in Graphs /\ filter \in Filters /\ rowLimit \in CycleLimits
             /\ phase = "pairs" /\ NoSearch

\* Another command is running.
CycleIdle == /\ next = <<>> /\ filter = [noise |-> {}, scope |-> {}] /\ rowLimit = 0
             /\ phase = "idle" /\ NoSearch

-----------------------------------------------------------------------------
(* Cycles as the code writes and compares them.                            *)

Before(p, q) ==  \* comparePaths(p, q) < 0
    \E n \in DOMAIN q : /\ \A i \in 1..(n - 1) : i \in DOMAIN p /\ p[i] = q[i]
                        /\ n \in DOMAIN p => p[n] < q[n]

Rotations(p) == {SubSeq(p, i, Len(p)) \o SubSeq(p, 1, i - 1) : i \in DOMAIN p}
MinRotation(p) == CHOOSE r \in Rotations(p) :
                      \A q \in Rotations(p) : q = r \/ Before(r, q)

\* Mutant: the cycle as it was walked is its key.
WalkedKey(p) == p
Key(p) == LET r == MinRotation(p) IN SubSeq(r, 1, Min({Len(r), KeyWidth}))

\* joinCycle ends a line with the file it began with, and the lines are sorted
\* as strings; the separator sorts before every letter of a path.
LineBefore(p, q) == Before(Append(p, p[1]), Append(q, q[1]))

SortedCycleValues(cycles, limit) ==
    Prefix(Ordered(Range(cycles), LineBefore), limit)

\* Paths whose keys are known are left out.
Add(cycles, paths) ==
    [k \in (DOMAIN cycles) \cup {Key(p) : p \in paths} |->
        IF k \in DOMAIN cycles THEN cycles[k] ELSE CHOOSE p \in paths : Key(p) = k]

-----------------------------------------------------------------------------
(* tarjanSCCs.                                                             *)

Visited == DOMAIN indices

Push(v, callers) ==
    LET index == Cardinality(Visited)
    IN  /\ indices' = [w \in Visited \cup {v} |->
                          IF w = v THEN index ELSE indices[w]]
        /\ lowlink' = [w \in Visited \cup {v} |->
                          IF w = v THEN index ELSE lowlink[w]]
        /\ tarjan'  = Append(tarjan, v)
        /\ frames'  = Append(callers, [vertex |-> v, idx |-> 1])
        /\ UNCHANGED components

PickRoot == /\ phase = "components" /\ frames = <<>>
            /\ \E v \in Files \ Visited : Push(v, <<>>)
            /\ UNCHANGED <<graphVars, walkVars, checkVars>>

Top == Last(frames)
Callers == Front(frames)
Advance == Append(Callers, [Top EXCEPT !.idx = @ + 1])

\* Mutant: a neighbour that is in a component already lowers the link too.
AnyNeighbour(w) == TRUE
OnStack(w) == w \in ToSet(tarjan)

\* The next neighbour of the file on the top of the call stack.
LookAtNeighbour ==
    /\ phase = "components" /\ frames # <<>>
    /\ Top.idx <= Len(Successors(Top.vertex))
    /\ LET w == Successors(Top.vertex)[Top.idx]
           v == Top.vertex
       IN  \/ /\ w \notin Visited
              /\ Push(w, Advance)
           \/ /\ w \in Visited
              /\ lowlink' = IF OnStack(w)
                            THEN [lowlink EXCEPT ![v] = Min({@, indices[w]})]
                            ELSE lowlink
              /\ frames' = Advance
              /\ UNCHANGED <<indices, tarjan, components>>
    /\ UNCHANGED <<graphVars, walkVars, checkVars>>

\* A file whose neighbours are done: the root of a component takes the files
\* above it off the stack, and the caller learns how far this one reaches.
LeaveVertex ==
    /\ phase = "components" /\ frames # <<>>
    /\ Top.idx > Len(Successors(Top.vertex))
    /\ LET v == Top.vertex
           at == CHOOSE i \in DOMAIN tarjan : tarjan[i] = v
       IN  /\ IF lowlink[v] = indices[v]
              THEN /\ components' =
                          Append(components, ToSet(SubSeq(tarjan, at, Len(tarjan))))
                   /\ tarjan' = SubSeq(tarjan, 1, at - 1)
              ELSE UNCHANGED <<components, tarjan>>
           /\ lowlink' = IF Callers = <<>> THEN lowlink
                         ELSE [lowlink EXCEPT ![Last(Callers).vertex] =
                                  Min({@, lowlink[v]})]
    /\ frames' = Callers
    /\ UNCHANGED <<graphVars, walkVars, checkVars, indices>>

AllVisited == /\ phase = "components" /\ frames = <<>> /\ Visited = Files

-----------------------------------------------------------------------------
(* FindLongerCycles, cyclesInSCC.                                          *)

Deliver(cycles) ==
    /\ candidates' = SortedCycleValues(cycles, fetchCap)
    /\ short' = (Cardinality(DOMAIN cycles) < fetchCap)
    /\ phase' = IF cycles = <<>> THEN "done" ELSE "accept"
    /\ UNCHANGED <<pairs, lines, seen, fetchCap>>

StartWalks == /\ AllVisited
              /\ phase' = "next component"
              /\ UNCHANGED <<graphVars, tarjanVars, walkVars, pairs, lines, seen,
                             fetchCap, candidates, short>>

\* Components of one or two files are left out.
OpenComponent ==
    /\ phase = "next component" /\ components # <<>>
    /\ IF Cardinality(Head(components)) <= 2
       THEN /\ components' = Tail(components)
            /\ UNCHANGED <<phase, origins>>
       ELSE /\ origins' = SelectSorted(Head(components))
            /\ phase' = "walk"
            /\ UNCHANGED components
    /\ here' = <<>>
    /\ UNCHANGED <<graphVars, indices, lowlink, tarjan, frames, trail, found,
                   pairs, lines, seen, fetchCap, candidates, short>>

NoMoreComponents ==
    /\ phase = "next component" /\ components = <<>>
    /\ Deliver(found)
    /\ UNCHANGED <<graphVars, tarjanVars, walkVars>>

StartAtOrigin == /\ phase = "walk" /\ trail = <<>> /\ origins # <<>>
                 /\ trail' = <<<<Head(origins)>>>>
                 /\ origins' = Tail(origins)
                 /\ UNCHANGED <<graphVars, tarjanVars, checkVars, here, found>>

\* Mutant: paths as long as MaxDepth are not continued.
DepthLeftShort(path) == Len(path) < MaxDepth
DepthLeft(path) == Len(path) <= MaxDepth

\* One path is taken off the stack: it may close a cycle, and is continued by
\* the files that are not on it.  The search ends when it has enough cycles.
Walk ==
    /\ phase = "walk" /\ trail # <<>>
    /\ LET path   == Last(trail)
           inside == Where(Successors(Last(path)), LAMBDA w : w \in Head(components))
           closed == path[1] \in ToSet(inside) /\ Len(path) >= 2
           more   == Where(inside, LAMBDA w : w \notin ToSet(path))
       IN  IF ~DepthLeft(path)
           THEN /\ trail' = Front(trail)
                /\ UNCHANGED <<here, origins>>
           ELSE /\ here' = IF closed THEN Add(here, {path}) ELSE here
                /\ IF closed /\ Cardinality(DOMAIN here') >= fetchCap
                   THEN trail' = <<>> /\ origins' = <<>>
                   ELSE /\ trail' = Front(trail) \o
                                       [i \in DOMAIN more |-> Append(path, more[i])]
                        /\ UNCHANGED origins
    /\ UNCHANGED <<graphVars, tarjanVars, checkVars, found>>

\* The cycles of a component join those of the others, up to the cap.
CloseComponent ==
    /\ phase = "walk" /\ trail = <<>> /\ origins = <<>>
    /\ LET new == Where(SortedCycleValues(here, fetchCap),
                        LAMBDA p : Key(p) \notin DOMAIN found)
       IN  found' = Add(found, ToSet(Prefix(new, fetchCap - Cardinality(DOMAIN found))))
    /\ components' = Tail(components)
    /\ IF Cardinality(DOMAIN found') >= fetchCap
       THEN Deliver(found')
       ELSE /\ phase' = "next component"
            /\ UNCHANGED <<pairs, lines, seen, fetchCap, candidates, short>>
    /\ UNCHANGED <<graphVars, indices, lowlink, tarjan, frames, trail, origins, here>>

-----------------------------------------------------------------------------
(* The check: cycles, acceptCycleLine and CollectFromProducer.             *)

Accepted(files) == files \cap filter.noise = {} /\ files \cap filter.scope # {}

\* CollectUntilLimit over the rows of the query, which are in order.
TwoWay == Prefix(Where(Prefix(Ordered(TwoWayPairs(next), Before), MaxScan),
                       LAMBDA p : Accepted({p[1], p[2]})), rowLimit)

\* Mutant: the rows of the query do not count against the limit.
WholeLimit == rowLimit
Room == rowLimit - Len(pairs)

CollectPairs == /\ phase = "pairs"
                /\ pairs' = TwoWay
                /\ phase' = IF Len(pairs') >= rowLimit THEN "done" ELSE "produce"
                /\ fetchCap' = rowLimit - Len(pairs')
                /\ UNCHANGED <<graphVars, tarjanVars, walkVars, lines, seen,
                               candidates, short>>

\* One call of the producer, as long as rows are missing.
Produce == /\ phase = "produce"
           /\ phase' = IF Len(lines) < Room /\ fetchCap <= MaxScan /\ Files # {}
                       THEN "components" ELSE "done"
           /\ indices' = <<>> /\ lowlink' = <<>> /\ tarjan' = <<>>
           /\ frames' = <<>> /\ components' = <<>>
           /\ trail' = <<>> /\ origins' = <<>> /\ here' = <<>> /\ found' = <<>>
           /\ UNCHANGED <<graphVars, pairs, lines, seen, fetchCap, candidates, short>>

AcceptCandidate ==
    /\ phase = "accept" /\ candidates # <<>>
    /\ LET line == Head(candidates)
           skip == line \in seen
           full == Cardinality(seen \cup {line}) > MaxScan
           take == ~skip /\ ~full /\ Accepted(ToSet(line))
       IN  /\ seen'  = seen \cup {line}
           /\ lines' = IF take THEN Append(lines, line) ELSE lines
           /\ phase' = IF ~skip /\ (full \/ Len(lines') >= Room) THEN "done" ELSE phase
    /\ candidates' = Tail(candidates)
    /\ UNCHANGED <<graphVars, tarjanVars, walkVars, pairs, fetchCap, short>>

\* Mutant: a producer that gives all it was asked for is taken to have no more.
AlwaysExhausted(all) == TRUE
Exhausted(all) == all

AskAgain ==
    /\ phase = "accept" /\ candidates = <<>>
    /\ phase' = IF Exhausted(short) THEN "done" ELSE "produce"
    /\ fetchCap' = IF Exhausted(short) THEN fetchCap ELSE fetchCap + Room
    /\ UNCHANGED <<graphVars, tarjanVars, walkVars, pairs, lines, seen,
                   candidates, short>>

CycleNext == \/ CollectPairs \/ Produce \/ AcceptCandidate \/ AskAgain
             \/ PickRoot \/ LookAtNeighbour \/ LeaveVertex \/ StartWalks
             \/ OpenComponent \/ NoMoreComponents \/ StartAtOrigin \/ Walk
             \/ CloseComponent

CycleSpec == CycleInit /\ [][CycleNext]_cycleVars

-----------------------------------------------------------------------------
(* Properties.                                                             *)

CycleTypeOK ==
    /\ phase \in {"idle", "pairs", "produce", "components", "next component",
                  "walk", "accept", "done"}
    /\ lowlink \in [Visited -> 0..Cardinality(Files)]
    /\ \A i \in DOMAIN frames : frames[i].vertex \in Visited
    /\ \A i \in DOMAIN components : components[i] \subseteq Files
    /\ ToSet(lines) \subseteq seen
    /\ Len(pairs) + Len(lines) <= rowLimit

\* tarjanSCCs splits the files into the classes of files that reach each other,
\* each once, whatever order the map and the rows have.
ComponentsExact ==
    AllVisited =>
        /\ ToSet(components) = {ComponentOf(next, v) : v \in Files}
        /\ Len(components) = Cardinality(ToSet(components))

\* No cycle is twice among the lines that the check takes from
\* FindLongerCycles, not even one that begins with another file, although it
\* asks for the cycles again and again; and each line is a cycle of the graph
\* that the filter lets through.  Two files that import each other, in a
\* component with others, are such a line and a row of the query as well.
CyclesOnce ==
    /\ \A p \in ToSet(lines) :
          Len(p) \in 2..MaxDepth /\ IsSimpleCycle(next, p) /\ Accepted(ToSet(p))
    /\ Cardinality({MinRotation(p) : p \in ToSet(lines)}) = Len(lines)

\* A check that ends with rows to spare, and did not meet its bound on
\* candidates, has a line for every cycle, within the depth and in a component
\* of three files or more, that the filter lets through.
CyclesComplete ==
    /\ phase = "done"
    /\ Len(pairs) + Len(lines) < rowLimit
    /\ fetchCap <= MaxScan /\ Cardinality(seen) <= MaxScan
    => ToSet(lines) = {p \in SimpleCycles(next, MaxDepth) : Accepted(ToSet(p))}
=============================================================================
