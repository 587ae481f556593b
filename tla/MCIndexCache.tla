---------------------------- MODULE MCIndexCache ----------------------------
(* IndexCache on a small instance: a scope with projects and one without,  *)
(* one list of globs, and the reindex commands a user types.               *)
EXTENDS IndexCache, TLC

CONSTANTS web, gone, tests

MCScopes    == {NoScope, web, gone}
MCBadScopes == {gone}
MCGlobs     == {NoGlob, tests}

\* reindex, reindex --path web, reindex --path gone, reindex --exclude tests,
\* reindex --fresh
Plain   == NoUpdate
ToWeb   == [NoUpdate EXCEPT !.scope = web]
ToGone  == [NoUpdate EXCEPT !.scope = gone]
NoTests == [NoUpdate EXCEPT !.exclude = tests]
Fresh   == [NoUpdate EXCEPT !.fresh = TRUE]

MCUpdates    == {Plain, ToWeb, ToGone, NoTests, Fresh}
MCFewUpdates == {Plain, ToWeb}

Symmetry == Permutations(Procs)
=============================================================================
