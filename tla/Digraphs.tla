------------------------------ MODULE Digraphs ------------------------------
(***************************************************************************)
(* Graphs of files, as the rows of the SQL query of the file edges give    *)
(* them: a function from a file to the sequence of the files it depends    *)
(* on.  What a cycle and a component are is said here; how the code looks  *)
(* for them is in FileGraph.                                               *)
(***************************************************************************)
EXTENDS Naturals, Sequences, FiniteSets, SequencesExt, FiniteSetsExt

SuccessorsIn(g, v) == IF v \in DOMAIN g THEN g[v] ELSE <<>>

IsEdge(g, v, w) == v \in DOMAIN g /\ w \in ToSet(g[v])

\* Files without edges are in no row.
FilesOf(g) == UNION {{v} \cup ToSet(g[v]) : v \in {w \in DOMAIN g : g[w] # <<>>}}

\* What can be reached from a file is in every set of files that holds it and
\* what its members depend on.
IsClosed(g, S) == \A v \in S : ToSet(SuccessorsIn(g, v)) \subseteq S

ReachableFrom(g, v) ==
    {w \in FilesOf(g) : \A S \in SUBSET FilesOf(g) : v \in S /\ IsClosed(g, S) => w \in S}

ComponentOf(g, v) == {w \in ReachableFrom(g, v) : v \in ReachableFrom(g, w)}

\* A cycle is the sequence of its files from the first in order.  Inside the
\* components of three files or more, those of two files count as well.
IsSimpleCycle(g, p) ==
    /\ IsInjective(p)
    /\ \A i \in DOMAIN p : p[1] <= p[i] /\ IsEdge(g, p[i], p[(i % Len(p)) + 1])
    /\ Cardinality(ComponentOf(g, p[1])) > 2

SimpleCycles(g, longest) ==
    {p \in UNION {[1..n -> FilesOf(g)] :
                     n \in 2..Min({longest, Cardinality(FilesOf(g))})} :
        IsSimpleCycle(g, p)}

\* Files that depend on each other.
TwoWayPairs(g) == {p \in FilesOf(g) \X FilesOf(g) :
                      p[1] < p[2] /\ IsEdge(g, p[1], p[2]) /\ IsEdge(g, p[2], p[1])}
=============================================================================
