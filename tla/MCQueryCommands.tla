-------------------------- MODULE MCQueryCommands --------------------------
EXTENDS QueryCommands, TLC

-----------------------------------------------------------------------------
(* Four files, of which the first and the third have the names of tests.   *)
(* The first defines a module and a class C with the members a, b and p,   *)
(* of which p has no definition of its own; the second a function A, whose *)
(* name is that of a in another case, and the third a function g, which    *)
(* the fourth may define again.                                            *)

MCSymbols == {"m", "C", "a", "b", "p", "A", "g"}
MCKindOf  == [m |-> "module", C |-> "class", a |-> "method", b |-> "method",
              p |-> "property", A |-> "function", g |-> "function"]
MCBaseOf  == [s \in MCSymbols |-> s]
MCHomeOf  == [m |-> 1, C |-> 1, a |-> 1, b |-> 1, p |-> 1, A |-> 2, g |-> 3]
MCLabelOf == [m |-> "0 file", C |-> "1 C", a |-> "2 a", b |-> "3 b", p |-> "?",
              A |-> "2 A", g |-> "1 g"]
MCMembersOf == [s \in MCSymbols |-> IF s = "C" THEN {"a", "b", "p"} ELSE {}]
MCDirectOf  == [s \in MCSymbols |-> IF s = "C" THEN {"a", "p"} ELSE {}]

Definitions == {<<"m", 1>>, <<"C", 1>>, <<"a", 1>>, <<"b", 1>>, <<"A", 2>>, <<"g", 3>>}

Mention(s, d, r, c) == [sym |-> s, doc |-> d, role |-> r, chunk |-> c]

\* Uses of a, several of them in one chunk, and of the others.
SomeUses == {Mention("a", 2, 0, 1), Mention("a", 2, 2, 1), Mention("a", 2, 8, 1),
             Mention("a", 2, 0, 2), Mention("a", 3, 0, 1)}
MoreUses == {{}, {Mention("g", 1, 0, 1), Mention("C", 3, 1, 1)},
             {Mention("g", 2, 2, 1), Mention("C", 2, 0, 1), Mention("a", 4, 0, 1)}}

Database(defs, uses) ==
    [docs |-> 1..4, defs |-> defs,
     mentions |-> uses \cup {Mention(x[1], x[2], 1, 1) : x \in defs},
     range |-> [x \in defs |-> IF x[1] \in {"a", "g"} THEN {1} ELSE {1, 2}]]

MCDatabases == {Database(Definitions \cup twice, U \cup V) :
                   twice \in {{}, {<<"g", 4>>}}, U \in SUBSET SomeUses, V \in MoreUses}

-----------------------------------------------------------------------------
(* Names: a, in any case; C.a; a part of names that is C.a in one of them; *)
(* C.x, which nothing has; g; p, which nothing defines; one that is only a *)
(* part of names; C, which its members hold.                               *)

Name(l, i, c, q, m) == [like |-> l, inside |-> i, cased |-> c, qualified |-> q, matching |-> m]
NameA    == Name({"a", "A"}, {"a", "A", "C"}, {"a", "C"}, FALSE, {})
NameCA   == Name({"a", "A"}, {"a"}, {"a"}, TRUE, {"a"})
NameLoose == Name({}, {"a", "A", "C"}, {"a", "C"}, TRUE, {"a"})
NameCX   == Name({}, {}, {}, TRUE, {})
NameG    == Name({"g"}, {"g", "m"}, {"g"}, FALSE, {})
NameP    == Name({"p"}, {"p"}, {"p"}, FALSE, {})
NamePart == Name({}, {"C", "p", "m"}, {"C"}, FALSE, {})
NameC    == Name({"C"}, {"C", "a", "b", "p"}, {"C", "a", "b", "p"}, FALSE, {})

Pattern(q, e, s, i, x) == [equal |-> q, ending |-> e, stems |-> s, inside |-> i, exact |-> x]
\* Patterns that have a slash or a dot, those without them, of which the files
\* they name are no tests, and those that no path ends with.  A document whose
\* whole path is the pattern has its very name, and so either all documents of
\* that name are tests or none is.
Ambiguous ==
    {p \in {Pattern(q, e, {}, 1..4, x) : q \in {{}, {2}, {3}}, e \in SUBSET (1..4),
                                        x \in SUBSET (1..4)} :
        /\ p.equal \subseteq p.exact /\ p.exact \subseteq p.ending
        /\ p.exact \cap Specs = {} \/ p.exact \subseteq Specs}
    \cup {Pattern({}, e, s, 1..4, s) : e \in SUBSET {2, 4}, s \in SUBSET {2, 4}}
    \cup {Pattern({}, {}, {}, i, x) : i \in SUBSET (1..4), x \in SUBSET (1..4)}
OnePattern(d) == Pattern({d}, {d}, {}, {d}, {d})
NoPattern == Pattern({}, {}, {}, {}, {})

Query(verb, ns, f, limit, kind, scope) ==
    [verb |-> verb, names |-> ns, file |-> f, limit |-> limit, kind |-> kind, scope |-> scope]

OfNames == {Query("search", ns, NoPattern, l, AnyKind, s) :
               ns \in {<<NameCA, NameA>>, <<NameA, NameCX>>, <<NameCA, NamePart>>,
                       <<NameCA, NameCX>>, <<NameCA>>, <<NameLoose>>},
               l \in {1, 2, 5}, s \in {NoScope, {1, 2}}}
           \cup {Query("search", <<NameC>>, NoPattern, 5, "method", NoScope)}
           \cup {Query("refs", ns, NoPattern, l, AnyKind, s) :
               ns \in {<<NameA>>, <<NameG, NameCX>>}, l \in {1, 2}, s \in {NoScope, {1, 2, 3}}}
           \cup {Query("code", ns, NoPattern, 1, AnyKind, NoScope) :
               ns \in {<<NameA, NameC>>, <<NamePart>>, <<NameCX>>}}
           \cup {Query(v, <<n>>, NoPattern, l, AnyKind, NoScope) :
               v \in {"deps", "members"}, n \in {NameC, NameA, NameCX, NameP}, l \in {1, 3}}
OfFiles == {Query(v, <<>>, OnePattern(d), l, AnyKind, s) :
               v \in {"symbols", "rdeps", "deps"}, d \in {1, 3, 5}, l \in {1, 3},
               s \in {NoScope, {1, 2}}}
Ranked  == {Query("symbols", <<>>, p, 9, AnyKind, s) : p \in Ambiguous, s \in {NoScope, {3, 4}}}

MCCommands == OfNames \cup OfFiles \cup Ranked

\* One index is enough for the ways in which files are resolved.
MCInit == /\ \/ command \in OfNames \cup OfFiles /\ db \in MCDatabases
             \/ command \in Ranked /\ db = Database(Definitions, {})
          /\ Start
Spec == MCInit /\ [][QueryNext]_queryVars
=============================================================================
