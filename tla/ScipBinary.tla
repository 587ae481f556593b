----------------------------- MODULE ScipBinary -----------------------------
(***************************************************************************)
(* EnsureScipBinary: every worker of every scip-cli process, of whatever   *)
(* project, asks for the scip executable before it converts an index, and  *)
(* whoever finds none that works downloads it to the one cached path,      *)
(* ~/.cache/scip-cli/bin/scip.  Nothing but the file system stands between *)
(* two workers that do so at once.                                         *)
(*                                                                         *)
(* A file is written in two blocks at the writer's own offset, so that a   *)
(* file truncated under a writer may have a hole.  The operating system    *)
(* refuses to execute a file that someone has open for writing, and to     *)
(* open for writing a file that is being executed.                         *)
(***************************************************************************)
EXTENDS Naturals

CONSTANTS Workers,    \* the workers that need a scip executable
          Old,        \* the file a former run left at the cached path
          NoFile      \* no file is at the cached path

ASSUME BinaryAssumption ==
    Workers # {} /\ Old \notin Workers /\ NoFile \notin Workers \cup {Old}

Blocks == 1..2
Files  == Workers \cup {Old}     \* a worker creates at most one file

VARIABLES pc,        \* pc[w]: where worker w is
          cached,    \* the file at the cached path
          blocks,    \* blocks[f]: the blocks of f that hold their bytes
          current,   \* Old is complete and at least the minimum version
          onPath,    \* a scip that is recent enough is on PATH
          out,       \* out[w]: the file w has open for writing
          pos,       \* pos[w]: the blocks w has written
          bin,       \* bin[w]: what EnsureScipBinary gave w
          exe,       \* exe[w]: the file w's conversion executes
          converted, \* converted[w]: w's conversion ran
          trouble    \* a download failed or a worker died

vars == <<pc, cached, blocks, current, onPath, out, pos, bin, exe, converted,
          trouble>>

PCs == {"check", "remove", "fetch", "create", "copy", "verify", "use", "run",
        "end"}

TypeOK == /\ pc \in [Workers -> PCs]
          /\ cached \in Files \cup {NoFile}
          /\ blocks \in [Files -> SUBSET Blocks]
          /\ current \in BOOLEAN
          /\ onPath \in BOOLEAN
          /\ out \in [Workers -> Files \cup {NoFile}]
          /\ pos \in [Workers -> 0..2]
          /\ bin \in [Workers -> {"none", "cached", "path"}]
          /\ exe \in [Workers -> Files \cup {NoFile}]
          /\ converted \in [Workers -> BOOLEAN]
          /\ trouble \in BOOLEAN

Init == /\ pc = [w \in Workers |-> "check"]
        /\ cached \in {NoFile, Old}
        /\ \E b \in SUBSET Blocks :
              /\ cached = NoFile => b = {}
              /\ blocks = [f \in Files |-> IF f = Old THEN b ELSE {}]
        /\ current \in BOOLEAN /\ (blocks[Old] # Blocks => ~current)
        /\ onPath \in BOOLEAN
        /\ out = [w \in Workers |-> NoFile]
        /\ pos = [w \in Workers |-> 0]
        /\ bin = [w \in Workers |-> "none"]
        /\ exe = [w \in Workers |-> NoFile]
        /\ converted = [w \in Workers |-> FALSE]
        /\ trouble = FALSE

Goto(w, from, to) == pc[w] = from /\ pc' = [pc EXCEPT ![w] = to]

\* The file at the cached path can be executed ...
Runs(f) == /\ f # NoFile
           /\ blocks[f] = Blocks
           /\ \A w \in Workers : out[w] # f

\* ... and says it is scip 0.8.0 or later.
Works(f) == Runs(f) /\ (f = Old => current)

\* The file is the code of a running conversion, or may be that of a version
\* check that another worker makes of it.
Executing(f)       == \E w \in Workers : exe[w] = f
BeingChecked(f, w) == /\ f = cached /\ Runs(f)
                      /\ \E v \in Workers \ {w} : pc[v] \in {"check", "verify"}

Gives(w, from, b) == /\ Goto(w, from, "use")
                     /\ bin' = [bin EXCEPT ![w] = b]

-----------------------------------------------------------------------------
\* Mutant: any scip that runs will do.
CheckRuns(w) ==
    /\ \/ Runs(cached) /\ Gives(w, "check", "cached")
       \/ ~Runs(cached) /\ onPath /\ Gives(w, "check", "path")
       \/ /\ ~Runs(cached) /\ ~onPath
          /\ Goto(w, "check", "remove")
          /\ UNCHANGED bin
    /\ UNCHANGED <<cached, blocks, current, onPath, out, pos, exe, converted,
                   trouble>>

\* The cached file, if it works; else the one on PATH, if that does.
Check(w) ==
    /\ \/ Works(cached) /\ Gives(w, "check", "cached")
       \/ ~Works(cached) /\ onPath /\ Gives(w, "check", "path")
       \/ /\ ~Works(cached) /\ ~onPath
          /\ Goto(w, "check", "remove")
          /\ UNCHANGED bin
    /\ UNCHANGED <<cached, blocks, current, onPath, out, pos, exe, converted,
                   trouble>>

\* os.Remove(cached), whoever's file it is by now.
Remove(w) ==
    /\ Goto(w, "remove", "fetch")
    /\ cached' = NoFile
    /\ UNCHANGED <<blocks, current, onPath, out, pos, bin, exe, converted,
                   trouble>>

\* The release archive is found and starts to arrive, or it does not.
Fetch(w) ==
    /\ \/ Goto(w, "fetch", "create") /\ UNCHANGED trouble
       \/ Goto(w, "fetch", "end") /\ trouble' = TRUE
    /\ UNCHANGED <<cached, blocks, current, onPath, out, pos, bin, exe,
                   converted>>

\* O_CREATE|O_TRUNC: a new file, or the one that is there, emptied; an error
\* while that one is being executed.
Create(w) ==
    LET f == IF cached = NoFile THEN w ELSE cached
    IN  /\ \/ /\ ~Executing(f)
              /\ Goto(w, "create", "copy")
              /\ cached' = f
              /\ blocks' = [blocks EXCEPT ![f] = {}]
              /\ out' = [out EXCEPT ![w] = f]
           \/ /\ Executing(f) \/ BeingChecked(f, w)
              /\ Goto(w, "create", "end")
              /\ UNCHANGED <<cached, blocks, out>>
        /\ UNCHANGED <<current, onPath, pos, bin, exe, converted, trouble>>

\* Mutant: the file is not closed before it is verified.
CopyNoClose(w) ==
    /\ \/ /\ pos[w] < 2
          /\ pc[w] = "copy" /\ UNCHANGED pc
          /\ pos' = [pos EXCEPT ![w] = @ + 1]
          /\ blocks' = [blocks EXCEPT ![out[w]] = @ \cup {pos[w] + 1}]
       \/ /\ pos[w] = 2
          /\ Goto(w, "copy", "verify")
          /\ UNCHANGED <<pos, blocks>>
    /\ UNCHANGED <<cached, current, onPath, out, bin, exe, converted, trouble>>

\* Mutant: the copy does not stop at the end of the archive.
CopyOn(w) ==
    /\ pc[w] = "copy"
    /\ pos' = [pos EXCEPT ![w] = @ + 1]
    /\ blocks' = [blocks EXCEPT ![out[w]] = @ \cup {pos[w] + 1}]
    /\ UNCHANGED <<pc, out, cached, current, onPath, bin, exe, converted,
                   trouble>>

\* io.Copy and close.
Copy(w) ==
    /\ \/ /\ pos[w] < 2
          /\ pc[w] = "copy" /\ UNCHANGED <<pc, out>>
          /\ pos' = [pos EXCEPT ![w] = @ + 1]
          /\ blocks' = [blocks EXCEPT ![out[w]] = @ \cup {pos[w] + 1}]
       \/ /\ pos[w] = 2
          /\ Goto(w, "copy", "verify")
          /\ out' = [out EXCEPT ![w] = NoFile]
          /\ UNCHANGED <<pos, blocks>>
    /\ UNCHANGED <<cached, current, onPath, bin, exe, converted, trouble>>

\* The connection breaks, the client times out or the disk is full; what was
\* written stays.
CopyFails(w) ==
    /\ pos[w] < 2
    /\ Goto(w, "copy", "end")
    /\ out' = [out EXCEPT ![w] = NoFile]
    /\ trouble' = TRUE
    /\ UNCHANGED <<cached, blocks, current, onPath, pos, bin, exe, converted>>

\* Mutant: a file that does not pass is removed.
VerifyRemoves(w) ==
    /\ \/ Works(cached) /\ Gives(w, "verify", "cached") /\ UNCHANGED cached
       \/ ~Works(cached) /\ Goto(w, "verify", "end") /\ cached' = NoFile
                         /\ UNCHANGED bin
    /\ UNCHANGED <<blocks, current, onPath, out, pos, exe, converted, trouble>>

\* Mutant: a download that does not pass is tried again.
VerifyRetries(w) ==
    /\ \/ Works(cached) /\ Gives(w, "verify", "cached")
       \/ ~Works(cached) /\ Goto(w, "verify", "remove") /\ UNCHANGED bin
    /\ UNCHANGED <<cached, blocks, current, onPath, out, pos, exe, converted,
                   trouble>>

\* The version check of what is at the cached path now.
Verify(w) ==
    /\ \/ Works(cached) /\ Gives(w, "verify", "cached")
       \/ ~Works(cached) /\ Goto(w, "verify", "end") /\ UNCHANGED bin
    /\ UNCHANGED <<cached, blocks, current, onPath, out, pos, exe, converted,
                   trouble>>

\* convertScipToDB executes the path it was given; if that fails the worker's
\* project is skipped.
StartConvert(w) ==
    /\ \/ /\ bin[w] = "path" \/ Runs(cached)
          /\ Goto(w, "use", "run")
          /\ exe' = [exe EXCEPT ![w] =
                       IF bin[w] = "path" THEN NoFile ELSE cached]
          /\ converted' = [converted EXCEPT ![w] = TRUE]
       \/ /\ bin[w] = "cached" /\ ~Runs(cached)
          /\ Goto(w, "use", "end")
          /\ UNCHANGED <<exe, converted>>
    /\ UNCHANGED <<cached, blocks, current, onPath, out, pos, bin, trouble>>

EndConvert(w) ==
    /\ Goto(w, "run", "end")
    /\ exe' = [exe EXCEPT ![w] = NoFile]
    /\ UNCHANGED <<cached, blocks, current, onPath, out, pos, bin, converted,
                   trouble>>

\* The process of the worker is killed.
Die(w) ==
    /\ pc[w] # "end"
    /\ pc' = [pc EXCEPT ![w] = "end"]
    /\ out' = [out EXCEPT ![w] = NoFile]
    /\ exe' = [exe EXCEPT ![w] = NoFile]
    /\ trouble' = TRUE
    /\ UNCHANGED <<cached, blocks, current, onPath, pos, bin, converted>>

Run(w) == \/ Check(w) \/ Remove(w) \/ Fetch(w) \/ Create(w) \/ Copy(w)
          \/ CopyFails(w) \/ Verify(w) \/ StartConvert(w) \/ EndConvert(w)

Next == \E w \in Workers : Run(w) \/ Die(w)

Spec == Init /\ [][Next]_vars

(***************************************************************************)
(* A worker goes on, except that the version checks need not end: `scip    *)
(* --version` is run without a time limit.  The download has the client's  *)
(* time limit; that a conversion stopped at its own limit ends is assumed. *)
(***************************************************************************)
Checking(w) == pc[w] \in {"check", "verify"}
Fairness    == \A w \in Workers : WF_vars(~Checking(w) /\ Run(w))

FairSpec == Spec /\ Fairness
-----------------------------------------------------------------------------
(* Properties.                                                             *)

AllEnded == \A w \in Workers : pc[w] = "end"

\* EnsureScipBinary returns the path to a working scip binary: what is at
\* the path when the caller gets it is a scip that runs and is recent enough.
ReturnsWorking ==
    \A w \in Workers : pc[w] = "use" /\ bin[w] = "cached" => Works(cached)

\* Whatever the workers do to each other's files, none of them converts with
\* a scip older than the minimum version.
OldNeverConverts == \A w \in Workers : exe[w] = Old => current

\* However many workers downloaded over each other, once they are done, and
\* unless a download failed or a process died, the cached scip works: the
\* next run does not download again.
QuietMeansWorking ==
    AllEnded /\ ~trouble /\ ~onPath => Works(cached)

\* Workers may spoil each other's conversion, but never all of them: unless
\* a download fails or a process dies, some project is converted.
SomeoneConverts == AllEnded /\ ~trouble => \E w \in Workers : converted[w]

\* No worker waits for another: each whose own version checks return
\* converts or gives up, even while those of another hang.
WorkersEnd ==
    \A w \in Workers : []<>~Checking(w) => <>(pc[w] = "end")
=============================================================================
