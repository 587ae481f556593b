---------------------------- MODULE MCIndexData ----------------------------
(***************************************************************************)
(* IndexData on repositories of two parts: a root, and a directory lib or  *)
(* another batch over the same files.  Each part says two things about a   *)
(* function, a type and a variable in two files.                           *)
(***************************************************************************)
EXTENDS IndexData

CONSTANTS function, type, variable, a, b, lib

MCNames      == {a, b, lib}
MCVariables  == {variable}
MCStructural == {function}

Docs     == {<<a>>, <<b>>}
Places   == {<<<<a>>, 0>>, <<<<a>>, 1>>, <<<<b>>, 0>>}
Said(of) == {<<p[1], p[2], s, role>> : p \in Places, s \in of, role \in {0}}

\* What the first part and the second mention and define.
First == {[dir |-> <<>>, docs |-> Docs, mentions |-> m, defined |-> d] :
             m \in kSubset(2, Said({function, type})),
             d \in {{}, {<<<<a>>, type>>},
                    {<<<<a>>, type>>, <<<<b>>, function>>}}}
Second == {[dir |-> dir, docs |-> Docs, mentions |-> m, defined |-> d] :
             dir \in {<<>>, <<lib>>},
             m \in kSubset(2, Said({type, variable, function})),
             d \in {{}, {<<<<b>>, type>>}, {<<<<a>>, variable>>}}}

GlobLists == {{}, {[slash |-> FALSE, matches |-> {<<a>>}]},
              {[slash |-> TRUE, matches |-> {<<lib, a>>}]},
              {[slash |-> TRUE, matches |-> {<<a>>}]}}

MCInputs == {[source |-> <<p, q>>, globs |-> g, keepExternal |-> k] :
                p \in First, q \in Second, g \in GlobLists, k \in BOOLEAN}
=============================================================================
