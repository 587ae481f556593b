----------------------------- MODULE IndexStore -----------------------------
(***************************************************************************)
(* What the index cache of one project promises to the commands that use   *)
(* it: a single cell that is empty until a first index is published, is    *)
(* then only ever replaced in one atomic step by another finished index,   *)
(* and is never emptied again.  A command reads only what was published at *)
(* the moment it read.  How the cell is kept on disk is IndexCache's       *)
(* business; IndexCache implements this specification.                     *)
(***************************************************************************)
CONSTANTS Procs,      \* the scip-cli processes working on one project
          Finished,   \* the index contents a build may publish
          Nothing     \* the cell before the first publication

VARIABLES store,      \* the published index, or Nothing
          views       \* views[p]: the published indexes process p has read

Init == /\ store = Nothing
        /\ views = [p \in Procs |-> {}]

Publish == /\ store' \in Finished
           /\ UNCHANGED views

View(p) == /\ store # Nothing
           /\ views' = [views EXCEPT ![p] = @ \cup {store}]
           /\ UNCHANGED store

Close(p) == /\ views' = [views EXCEPT ![p] = {}]
            /\ UNCHANGED store

Next == Publish \/ \E p \in Procs : View(p) \/ Close(p)

Spec == Init /\ [][Next]_<<store, views>>
=============================================================================
