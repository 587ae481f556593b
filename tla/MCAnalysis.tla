----------------------------- MODULE MCAnalysis -----------------------------
(***************************************************************************)
(* Instances for the parts of analyze: graphs for the cycles, requests for *)
(* the pages, indexes and options for the sections.                        *)
(***************************************************************************)
EXTENDS Analysis, TLC

-----------------------------------------------------------------------------
(* All graphs of three files, with the rows of the query in every order; a *)
(* cycle of four, everything with everything, and two cycles of three.     *)

EdgeRows(v) == UNION {IF S = {} THEN {<<>>} ELSE SetToSeqs(S) : S \in SUBSET ((1..3) \ {v})}
ThreeFiles  == {g \in [1..3 -> UNION {EdgeRows(v) : v \in 1..3}] :
                   \A v \in 1..3 : g[v] \in EdgeRows(v)}
MoreFiles   == {<<<<2>>, <<3>>, <<4>>, <<1>>>>,
                <<<<2, 3, 4>>, <<4, 3, 1>>, <<1, 4, 2>>, <<1, 2, 3>>>>,
                <<<<2>>, <<3>>, <<4, 1>>, <<5>>, <<6>>, <<4>>>>}

MCGraphs  == ThreeFiles \cup MoreFiles
MCFilters == {[noise |-> {},  scope |-> 1..6],
              [noise |-> {2}, scope |-> 1..6],
              [noise |-> {},  scope |-> {3}]}
MCCycleLimits == {2, 3}

-----------------------------------------------------------------------------
(* Up to four rows with any filter, pages of one to three.                 *)

MCRequests == {[rows |-> n, accepted |-> a, limit |-> l, pageSize |-> p, maxScan |-> m] :
                  n \in 0..4, a \in SUBSET (1..4), l \in 0..3, p \in {0, 1, 3}, m \in {0, 2}}
CollectRequests == {r \in MCRequests : r.accepted \subseteq 1..r.rows}

-----------------------------------------------------------------------------
(* Two files and a test.  The first defines a module, a function, which it *)
(* exports under an alias too, and a type; the second a function and its   *)
(* alias, whose file the first is taken for.  At most two uses, anywhere,  *)
(* or an import in two chunks of a file.                                   *)

MCSymbols == {"m", "f", "t", "fx", "g", "gx", "h"}
MCKindOf  == [m |-> "module", f |-> "function", t |-> "type", fx |-> "alias",
              g |-> "function", gx |-> "alias", h |-> "function"]
MCBaseOf  == [m |-> "", f |-> "f", t |-> "t", fx |-> "f", g |-> "g", gx |-> "g", h |-> "h"]
MCHomeOf  == [m |-> 1, f |-> 1, t |-> 1, fx |-> 1, g |-> 2, gx |-> 1, h |-> 3]

Definitions == {<<"m", 1>>, <<"f", 1>>, <<"t", 1>>, <<"g", 2>>, <<"h", 3>>}
Mention(s, d, r, c) == [sym |-> s, doc |-> d, role |-> r, chunk |-> c]
AnyUse == {Mention(s, d, r, 1) : s \in {"m", "f", "t", "fx", "g"}, d \in 1..3, r \in {0, 2}}
          \cup {Mention(s, d, 8, 1) : s \in {"f", "g"}, d \in 1..3}
          \cup {Mention("gx", d, 0, 1) : d \in 1..3}
Twice  == {{Mention(s, d, 2, 1), Mention(s, d, 2, 2)} : s \in {"f", "g"}, d \in 1..3}
MCDatabases == {[docs |-> 1..3, defs |-> Definitions,
                 mentions |-> U \cup {Mention(x[1], x[2], 1, 1) : x \in Definitions}] :
                   U \in {{}} \cup Twice \cup {{u, v} : u \in AnyUse, v \in AnyUse}}

Opt(target, limit, perCheck, tests, keys, priorities) ==
    [target |-> target, limit |-> limit, perCheckLimit |-> perCheck,
     tests |-> tests, keys |-> keys, priorities |-> priorities]
Project == [kind |-> "project"]
Dir     == [kind |-> "dir", scope |-> {1, 2}]
File(d) == [kind |-> "file", doc |-> d]
Dead    == {"unreferenced", "dead_exports", "dead_in_file", "dead_files", "same_file_only"}
MCOptions == {Opt(Project, 20, 0, TRUE, Dead, AllChecks),
              Opt(Project, 20, 0, FALSE, AllChecks, {"high", "medium"}),
              Opt(Project, 2, 1, TRUE, AllChecks, {"medium", "low"}),
              Opt(Project, 20, 0, TRUE, {"unreferenced", "stale_types"}, AllChecks),
              Opt(Dir, 20, 2, FALSE, Dead \cup {"cycles", "top_coupling"}, AllChecks),
              Opt(Dir, 3, 0, FALSE, {"unreferenced", "dead_in_file"}, AllChecks),
              Opt(File(1), 20, 0, FALSE, AllChecks, AllChecks),
              Opt(File(1), 2, 0, FALSE, Dead, AllChecks),
              Opt(File(3), 4, 0, FALSE, AllChecks, AllChecks),
              Opt([kind |-> "symbol", sym |-> "f"], 3, 0, FALSE, AllChecks, AllChecks)}
=============================================================================
