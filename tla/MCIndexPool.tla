---------------------------- MODULE MCIndexPool ----------------------------
(* IndexPool on up to four projects and two workers. *)
EXTENDS IndexPool
=============================================================================
