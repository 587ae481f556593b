-------------------------- MODULE ScipBinaryProofs --------------------------
(***************************************************************************)
(* However many workers fetch, overwrite and remove the cached scip, none  *)
(* converts with one that is too old.                                      *)
(*                                                                         *)
(* OldNeverConverts is not inductive: a worker that was told to use the    *)
(* cached path executes what is there later.  It is enough that the old    *)
(* file, once gone from the path, never comes back, so that a worker that  *)
(* still finds it there was given it as one that works.                    *)
(***************************************************************************)
EXTENDS ScipBinary, TLAPS

\* A worker that has been given the cached path while the old file is at it
\* was given it because that file is recent enough.
OldIsGiven ==
    \A w \in Workers :
        pc[w] = "use" => /\ bin[w] # "none"
                         /\ bin[w] = "cached" /\ cached = Old => current

OldInv == TypeOK /\ OldIsGiven /\ OldNeverConverts

\* Nobody has been given anything, and nothing executes.
LEMMA InitOld == Init => OldInv
<1> SUFFICES ASSUME Init PROVE OldInv
  OBVIOUS
<1>1. TypeOK
  <2>1. cached \in Files \cup {NoFile} /\ blocks \in [Files -> SUBSET Blocks]
    BY DEF Init, Files
  <2>2. current \in BOOLEAN /\ onPath \in BOOLEAN
    BY Zenon DEF Init
  <2>3. converted \in [Workers -> BOOLEAN] /\ trouble \in BOOLEAN
    BY Zenon DEF Init
  <2>4. /\ out \in [Workers -> Files \cup {NoFile}]
        /\ exe \in [Workers -> Files \cup {NoFile}]
    BY Zenon DEF Init
  <2>5. pos \in [Workers -> 0..2]
    BY DEF Init
  <2>6. /\ pc \in [Workers -> PCs]
        /\ bin \in [Workers -> {"none", "cached", "path"}]
    BY Zenon DEF Init, PCs
  <2>7. QED BY <2>1, <2>2, <2>3, <2>4, <2>5, <2>6 DEF TypeOK
<1>2. OldIsGiven /\ OldNeverConverts
  BY BinaryAssumption DEF Init, OldIsGiven, OldNeverConverts
<1>3. QED BY <1>1, <1>2 DEF OldInv

\* Each step of a worker keeps the types: a file that is created is its
\* creator's, or the one that is there.
LEMMA StepType ==
  ASSUME TypeOK, NEW w \in Workers, Run(w) \/ Die(w) PROVE TypeOK'
<1> USE DEF TypeOK, Goto, PCs
<1>1. CASE Check(w)
  BY <1>1 DEF Check, Gives
<1>2. CASE Remove(w)
  BY <1>2 DEF Remove
<1>3. CASE Fetch(w)
  BY <1>3 DEF Fetch
<1>4. CASE Create(w)
  BY <1>4 DEF Create, Files
<1>5. CASE Copy(w)
  <2>1. CASE pos[w] < 2
    <3>1. pos[w] + 1 \in Blocks /\ pos[w] + 1 \in 0..2
      BY <2>1 DEF Blocks
    <3>2. pos' \in [Workers -> 0..2] /\ blocks' \in [Files -> SUBSET Blocks]
      BY <1>5, <2>1, <3>1 DEF Copy
    <3>3. QED BY <1>5, <2>1, <3>2 DEF Copy
  <2>2. CASE pos[w] = 2
    BY <1>5, <2>2 DEF Copy
  <2>3. QED BY <1>5, <2>1, <2>2 DEF Copy
<1>6. CASE CopyFails(w)
  BY <1>6 DEF CopyFails
<1>7. CASE Verify(w)
  BY <1>7 DEF Verify, Gives
<1>8. CASE StartConvert(w)
  <2>1. pc' \in [Workers -> PCs]
    BY <1>8 DEF StartConvert
  <2>2. exe' \in [Workers -> Files \cup {NoFile}]
    BY <1>8 DEF StartConvert, Runs
  <2>3. converted' \in [Workers -> BOOLEAN]
    BY <1>8 DEF StartConvert
  <2>4. QED BY <1>8, <2>1, <2>2, <2>3 DEF StartConvert
<1>9. CASE EndConvert(w)
  BY <1>9 DEF EndConvert
<1>10. CASE Die(w)
  BY <1>10 DEF Die
<1>11. QED
  BY <1>1, <1>2, <1>3, <1>4, <1>5, <1>6, <1>7, <1>8, <1>9, <1>10 DEF Run

\* The old file never comes back to the cached path.
LEMMA OldNeverReturns ==
  ASSUME TypeOK, NEW w \in Workers, Run(w) \/ Die(w), cached' = Old
  PROVE  cached = Old
BY BinaryAssumption
   DEF Run, Check, Gives, Remove, Fetch, Create, Copy, CopyFails, Verify,
       StartConvert, EndConvert, Die

\* OldInv is inductive.
LEMMA NextOld == OldInv /\ [Next]_vars => OldInv'
<1> SUFFICES ASSUME OldInv, [Next]_vars PROVE OldInv'
  OBVIOUS
<1>1. CASE UNCHANGED vars
  BY <1>1 DEF vars, OldInv, TypeOK, OldIsGiven, OldNeverConverts
<1>2. ASSUME NEW w \in Workers, Run(w) \/ Die(w) PROVE OldInv'
  <2>1. TypeOK'
    BY <1>2, StepType DEF OldInv
  <2>2. cached' = Old => cached = Old
    BY <1>2, OldNeverReturns DEF OldInv
  <2>3. current' = current
    BY <1>2 DEF Run, Check, Remove, Fetch, Create, Copy, CopyFails, Verify,
       StartConvert, EndConvert, Die
  <2>4. OldIsGiven'
    <3>1. CASE Check(w)
      BY <1>2, <2>2, <2>3, <3>1
         DEF Check, Gives, Goto, Works, OldInv, OldIsGiven, TypeOK
    <3>2. CASE Verify(w)
      BY <1>2, <2>2, <2>3, <3>2
         DEF Verify, Gives, Goto, Works, OldInv, OldIsGiven, TypeOK
    <3>3. CASE ~Check(w) /\ ~Verify(w)
      <4>1. bin' = bin /\ pc'[w] # "use"
        BY <1>2, <3>3 DEF Run, Remove, Fetch, Create, Copy, CopyFails,
           StartConvert, EndConvert, Die, Goto, OldInv, TypeOK
      <4>2. \A v \in Workers \ {w} : pc'[v] = pc[v]
        BY <1>2, <3>3 DEF Run, Remove, Fetch, Create, Copy, CopyFails,
           StartConvert, EndConvert, Die, Goto, OldInv, TypeOK
      <4>3. QED BY <2>2, <2>3, <4>1, <4>2 DEF OldInv, OldIsGiven
    <3>4. QED BY <3>1, <3>2, <3>3
  <2>5. OldNeverConverts'
    <3>1. CASE StartConvert(w)
      <4>1. \A v \in Workers \ {w} : exe'[v] = exe[v]
        BY <3>1 DEF StartConvert, OldInv, TypeOK
      <4>2. exe'[w] = Old => current
        BY <3>1, BinaryAssumption DEF StartConvert, Goto, OldInv, OldIsGiven,
           OldNeverConverts, TypeOK
      <4>3. QED BY <2>3, <4>1, <4>2 DEF OldInv, OldNeverConverts
    <3>2. CASE ~StartConvert(w)
      <4>1. \A v \in Workers : exe'[v] \in {exe[v], NoFile}
        BY <1>2, <3>2 DEF Run, Check, Remove, Fetch, Create, Copy, CopyFails,
           Verify, EndConvert, Die, OldInv, TypeOK
      <4>2. QED BY <2>3, <4>1, BinaryAssumption DEF OldInv, OldNeverConverts
    <3>3. QED BY <3>1, <3>2
  <2>6. QED BY <2>1, <2>4, <2>5 DEF OldInv
<1>3. QED BY <1>1, <1>2 DEF Next

\* Whatever the workers do to each other's files, no conversion runs a scip
\* older than the minimum version.
THEOREM NoOldConversion == Spec => []OldNeverConverts
<1>1. OldInv => OldNeverConverts
  BY DEF OldInv
<1>2. QED BY InitOld, NextOld, <1>1, PTL DEF Spec

\* Paths hold files, files hold blocks, and a worker is where its code has a line.
THEOREM BinaryTypeCorrect == Spec => []TypeOK
<1>1. OldInv => TypeOK
  BY DEF OldInv
<1>2. QED BY InitOld, NextOld, <1>1, PTL DEF Spec

-----------------------------------------------------------------------------
(* The cached scip works when all is quiet, and someone converts.          *)
(*                                                                         *)
(* Neither is inductive.  What is: until a download fails or a process     *)
(* dies, whoever empties the cached file or removes it is still to write   *)
(* it, or to make a new one; and of the workers that have not converted    *)
(* one has still to try.                                                   *)

Before == {"check", "remove", "fetch", "create"}

\* The file of a worker is nowhere before that worker creates it.
Unmade ==
    \A w \in Workers : pc[w] \in Before =>
        pos[w] = 0 /\ cached # w /\ \A v \in Workers : exe[v] # w

WritersCopy == \A w \in Workers : out[w] # NoFile => pc[w] = "copy"

RunsConvert == \A w \in Workers : /\ pc[w] = "run" => converted[w]
                                  /\ exe[w] # NoFile => pc[w] = "run"

\* With a scip on PATH nobody touches the cached file.
PathSuffices ==
    onPath => \A w \in Workers :
        /\ pc[w] \in {"check", "use", "run", "end"}
        /\ pc[w] = "use" /\ bin[w] = "cached" => Runs(cached)

GoneIsMade == cached = NoFile => \E w \in Workers : pc[w] \in Before

OldStays ==
    cached = Old => \A w \in Workers :
        \/ pc[w] \in {"check", "remove"}
        \/ pc[w] \in {"use", "run", "end"} /\ Works(Old)

\* A block that the file lacks is one that a writer of it is still to write.
MissingIsWritten ==
    cached \in Workers => \A b \in Blocks :
        b \in blocks[cached] \/ \E w \in Workers : out[w] = cached /\ pos[w] < b

MadeAgain == ~trouble /\ ~onPath => GoneIsMade /\ OldStays /\ MissingIsWritten

SomeoneWill ==
    ~trouble => \E w \in Workers : converted[w] \/ pc[w] \notin {"run", "end"}

QuietInv == /\ TypeOK /\ Unmade /\ WritersCopy /\ RunsConvert /\ PathSuffices
            /\ MadeAgain /\ SomeoneWill

\* When nobody is before or in the middle of a download, the cached scip works.
LEMMA QuietWorks ==
  ASSUME QuietInv, ~trouble, ~onPath,
         \A w \in Workers : pc[w] \notin Before \cup {"copy"}
  PROVE  Works(cached)
<1>1. \A w \in Workers : out[w] = NoFile
  BY DEF QuietInv, WritersCopy
<1>2. cached \in Workers \cup {Old}
  BY DEF QuietInv, MadeAgain, GoneIsMade, TypeOK, Files
<1>3. CASE cached = Old
  BY <1>3, BinaryAssumption DEF QuietInv, MadeAgain, OldStays, Before
<1>4. CASE cached \in Workers
  <2>1. Blocks \subseteq blocks[cached]
    BY <1>1, <1>4, BinaryAssumption DEF QuietInv, MadeAgain, MissingIsWritten
  <2>2. blocks[cached] = Blocks
    BY <1>4, <2>1 DEF QuietInv, TypeOK, Files
  <2>3. QED BY <1>1, <1>4, <2>2, BinaryAssumption DEF Works, Runs
<1>5. QED BY <1>2, <1>3, <1>4

LEMMA InitQuiet == Init => QuietInv
<1> SUFFICES ASSUME Init PROVE QuietInv
  OBVIOUS
<1>1. TypeOK
  BY InitOld DEF OldInv
<1>2. \A w \in Workers : /\ pc[w] = "check" /\ pos[w] = 0
                         /\ out[w] = NoFile /\ exe[w] = NoFile
  BY DEF Init
<1>3. cached \in {NoFile, Old}
  BY DEF Init
<1>4. Unmade /\ WritersCopy /\ RunsConvert /\ PathSuffices
  BY <1>2, <1>3, BinaryAssumption DEF Unmade, WritersCopy, RunsConvert, PathSuffices
<1>5. MadeAgain
  BY <1>2, <1>3, BinaryAssumption
     DEF MadeAgain, GoneIsMade, OldStays, MissingIsWritten, Before
<1>6. SomeoneWill
  BY <1>2, BinaryAssumption DEF SomeoneWill
<1>7. QED BY <1>1, <1>4, <1>5, <1>6 DEF QuietInv

\* A step changes nothing of the other workers.
LEMMA OthersStay ==
  ASSUME TypeOK, NEW w \in Workers, Run(w) \/ Die(w)
  PROVE  /\ onPath' = onPath /\ current' = current
         /\ \A v \in Workers \ {w} :
               /\ pc'[v] = pc[v] /\ out'[v] = out[v] /\ pos'[v] = pos[v]
               /\ bin'[v] = bin[v] /\ exe'[v] = exe[v]
               /\ converted'[v] = converted[v]
BY DEF Run, Check, Gives, Remove, Fetch, Create, Copy, CopyFails, Verify,
   StartConvert, EndConvert, Die, Goto, TypeOK

\* No worker goes back to before its download, and a file that comes to the
\* cached path is that of the worker that creates it.
LEMMA UnmadeStep ==
  ASSUME QuietInv, NEW w \in Workers, Run(w) \/ Die(w)
  PROVE  Unmade'
<1> USE DEF QuietInv, TypeOK
<1>1. pc'[w] \in Before => pc[w] \in Before /\ pos' = pos
  BY DEF Run, Check, Gives, Remove, Fetch, Create, Copy, CopyFails, Verify,
         StartConvert, EndConvert, Die, Goto, Before
<1>2. cached' \in {cached, NoFile} \/ (cached' = w /\ pc'[w] \notin Before)
  BY DEF Run, Check, Gives, Remove, Fetch, Create, Copy, CopyFails, Verify,
         StartConvert, EndConvert, Die, Goto, Before
<1>3. \A v \in Workers : exe'[v] \in {exe[v], NoFile, cached}
  BY DEF Run, Check, Gives, Remove, Fetch, Create, Copy, CopyFails, Verify,
         StartConvert, EndConvert, Die
<1>4. ASSUME NEW v \in Workers, pc'[v] \in Before
      PROVE  pos'[v] = 0 /\ cached' # v /\ \A u \in Workers : exe'[u] # v
  <2>1. pc[v] \in Before /\ pos'[v] = pos[v]
    BY <1>1, <1>4, OthersStay
  <2>2. pos[v] = 0 /\ cached # v /\ \A u \in Workers : exe[u] # v
    BY <2>1 DEF Unmade
  <2>3. QED BY <1>2, <1>3, <1>4, <2>1, <2>2, BinaryAssumption
<1>5. QED BY <1>4 DEF Unmade

LEMMA WritersStep ==
  ASSUME QuietInv, NEW w \in Workers, Run(w) \/ Die(w)
  PROVE  WritersCopy' /\ RunsConvert'
<1> USE DEF QuietInv, TypeOK
<1>1. /\ out'[w] # NoFile => pc'[w] = "copy"
      /\ pc'[w] = "run" => converted'[w]
      /\ exe'[w] # NoFile => pc'[w] = "run"
  BY DEF Run, Check, Gives, Remove, Fetch, Create, Copy, CopyFails, Verify,
         StartConvert, EndConvert, Die, Goto, WritersCopy, RunsConvert
<1>2. QED BY <1>1, OthersStay DEF WritersCopy, RunsConvert

LEMMA PathStep ==
  ASSUME QuietInv, NEW w \in Workers, Run(w) \/ Die(w)
  PROVE  PathSuffices'
<1> USE DEF QuietInv, TypeOK
<1>1. SUFFICES ASSUME onPath PROVE PathSuffices'
  BY OthersStay DEF PathSuffices
<1>2. pc[w] \in {"check", "use", "run", "end"}
  BY <1>1 DEF PathSuffices
<1>3. \A v \in Workers : out[v] = NoFile
  BY <1>1 DEF PathSuffices, WritersCopy
<1>4. /\ cached' = cached /\ blocks' = blocks
      /\ pc'[w] \in {"check", "use", "run", "end"} /\ out'[w] = NoFile
  BY <1>1, <1>2, <1>3 DEF Run, Check, Gives, Remove, Fetch, Create, Copy, CopyFails,
     Verify, StartConvert, EndConvert, Die, Goto
<1>5. Runs(cached) => Runs(cached)'
  BY <1>3, <1>4, OthersStay DEF Runs
<1>6. pc'[w] = "use" /\ bin'[w] = "cached" => Runs(cached)
  BY <1>1, <1>2 DEF Run, Check, Gives, Remove, Fetch, Create, Copy, CopyFails,
     Verify, StartConvert, EndConvert, Die, Goto, Works
<1>7. QED BY <1>1, <1>4, <1>5, <1>6, OthersStay DEF PathSuffices

\* While all goes well without a scip on PATH, each step keeps that a file is
\* made again.
LEMMA MadeStep ==
  ASSUME QuietInv, NEW w \in Workers, Run(w) \/ Die(w)
  PROVE  MadeAgain'
<1> USE DEF QuietInv, TypeOK
<1>1. SUFFICES ASSUME ~trouble', ~onPath PROVE (GoneIsMade /\ OldStays /\ MissingIsWritten)'
  BY OthersStay DEF MadeAgain
<1>2. ~trouble /\ ~Die(w) /\ ~CopyFails(w)
  BY <1>1 DEF Run, Check, Remove, Fetch, Create, Copy, CopyFails, Verify,
     StartConvert, EndConvert, Die
<1>3. GoneIsMade /\ OldStays /\ MissingIsWritten
  BY <1>1, <1>2 DEF MadeAgain
<1>4. GoneIsMade'
  <2>1. SUFFICES ASSUME cached' = NoFile
                 PROVE  \E v \in Workers : pc'[v] \in Before
    BY DEF GoneIsMade
  <2>2. CASE Remove(w)
    BY <2>2 DEF Remove, Goto, Before
  <2>3. CASE ~Remove(w)
    <3>1. cached = NoFile
      BY <1>2, <2>1, <2>3, BinaryAssumption DEF Run, Check, Gives, Fetch, Create, Copy,
         Verify, StartConvert, EndConvert, Files
    <3>2. PICK v \in Workers : pc[v] \in Before
      BY <1>3, <3>1 DEF GoneIsMade
    <3>3. CASE v # w
      BY <3>2, <3>3, OthersStay
    <3>4. CASE v = w
      <4>1. CASE Create(w)
        <5>1. ~Executing(w)
          BY <3>2, <3>4 DEF Executing, Unmade
        <5>2. QED BY <2>1, <3>1, <4>1, <5>1, BinaryAssumption DEF Create, BeingChecked
      <4>2. CASE ~Create(w)
        BY <1>1, <1>2, <2>3, <3>1, <3>2, <3>4, <4>2
           DEF Run, Check, Gives, Fetch, Copy, Verify, StartConvert, EndConvert,
               Goto, Before, Works, Runs
      <4>3. QED BY <4>1, <4>2
    <3>5. QED BY <3>3, <3>4
  <2>4. QED BY <2>2, <2>3
<1>5. OldStays'
  <2>1. SUFFICES ASSUME cached' = Old
                 PROVE  \A v \in Workers :
                          \/ pc'[v] \in {"check", "remove"}
                          \/ pc'[v] \in {"use", "run", "end"} /\ Works(Old)'
    BY DEF OldStays
  <2>2. cached = Old
    BY <2>1, OldNeverReturns
  <2>3. \A v \in Workers : \/ pc[v] \in {"check", "remove"}
                           \/ pc[v] \in {"use", "run", "end"} /\ Works(Old)
    BY <1>3, <2>2 DEF OldStays
  <2>4. \A v \in Workers : out[v] = NoFile
    BY <2>3 DEF WritersCopy
  <2>5. /\ blocks' = blocks /\ out' = out
        /\ \/ pc'[w] \in {"check", "remove"}
           \/ pc'[w] \in {"use", "run", "end"} /\ Works(Old)
    BY <1>1, <1>2, <2>1, <2>2, <2>3, BinaryAssumption
       DEF Run, Check, Gives, Remove, Fetch, Create, Copy, Verify,
           StartConvert, EndConvert, Goto
  <2>6. Works(Old) => Works(Old)'
    BY <2>5, OthersStay DEF Works, Runs
  <2>7. QED BY <2>3, <2>5, <2>6, OthersStay
<1>6. MissingIsWritten'
  <2>1. SUFFICES ASSUME cached' \in Workers, NEW b \in Blocks
                 PROVE  \/ b \in blocks'[cached']
                        \/ \E v \in Workers : out'[v] = cached' /\ pos'[v] < b
    BY DEF MissingIsWritten
  <2>2. b \in 1..2
    BY DEF Blocks
  <2>3. CASE Create(w) /\ pc'[w] = "copy"
    <3>1. out'[w] = cached' /\ pos'[w] = 0
      BY <2>3 DEF Create, Goto, Unmade, Before
    <3>2. QED BY <2>2, <3>1
  <2>4. CASE Copy(w)
    <3>1. cached' = cached
      BY <2>4 DEF Copy
    <3>2. \/ b \in blocks[cached]
          \/ \E v \in Workers : out[v] = cached /\ pos[v] < b
      BY <1>3, <2>1, <3>1 DEF MissingIsWritten
    <3>3. CASE b \in blocks[cached]
      BY <2>1, <2>4, <3>1, <3>3 DEF Copy, Files
    <3>4. ASSUME NEW v \in Workers \ {w}, out[v] = cached, pos[v] < b
          PROVE  out'[v] = cached' /\ pos'[v] < b
      BY <3>1, <3>4, OthersStay
    <3>5. CASE out[w] = cached /\ pos[w] < b
      <4>1. pos[w] < 2 /\ pos[w] \in 0..2
        BY <2>2, <3>5
      <4>2. /\ pos'[w] = pos[w] + 1 /\ out'[w] = out[w]
            /\ blocks'[cached] = blocks[cached] \cup {pos[w] + 1}
        BY <2>1, <2>4, <3>1, <3>5, <4>1 DEF Copy, Files
      <4>3. b = pos[w] + 1 \/ pos[w] + 1 < b
        BY <2>2, <3>5, <4>1
      <4>4. QED BY <3>1, <3>5, <4>2, <4>3
    <3>6. QED BY <3>2, <3>3, <3>4, <3>5
  <2>5. CASE ~Copy(w) /\ ~(Create(w) /\ pc'[w] = "copy")
    <3>1. cached' = cached /\ blocks' = blocks /\ out' = out /\ pos' = pos
      BY <1>2, <2>1, <2>5, BinaryAssumption
         DEF Run, Check, Gives, Remove, Fetch, Create, Verify, StartConvert,
             EndConvert, Goto
    <3>2. QED BY <1>3, <2>1, <3>1 DEF MissingIsWritten
  <2>6. QED BY <2>3, <2>4, <2>5
<1>7. QED BY <1>4, <1>5, <1>6

\* The last worker that could convert does not give up: it would find that the
\* cached scip works.
LEMMA SomeoneStep ==
  ASSUME QuietInv, NEW w \in Workers, Run(w) \/ Die(w)
  PROVE  SomeoneWill'
<1> USE DEF QuietInv, TypeOK
<1>1. SUFFICES ASSUME ~trouble',
                      \A v \in Workers : ~converted'[v] /\ pc'[v] \in {"run", "end"}
               PROVE  FALSE
  BY DEF SomeoneWill
<1>2. ~trouble /\ ~Die(w) /\ ~CopyFails(w)
  BY <1>1 DEF Run, Check, Remove, Fetch, Create, Copy, CopyFails, Verify,
     StartConvert, EndConvert, Die
<1>3. \A v \in Workers \ {w} : ~converted[v] /\ pc[v] = "end" /\ exe[v] = NoFile
  BY <1>1, OthersStay DEF RunsConvert
<1>4. ~converted[w] /\ pc[w] \notin {"run", "end"}
  <2>1. PICK v \in Workers : converted[v] \/ pc[v] \notin {"run", "end"}
    BY <1>2 DEF SomeoneWill
  <2>2. v = w
    BY <1>3, <2>1
  <2>3. converted[w] => converted'[w]
    BY <1>2 DEF Run, Check, Remove, Fetch, Create, Copy, Verify, StartConvert, EndConvert
  <2>4. QED BY <1>1, <2>1, <2>2, <2>3
<1>5. exe[w] = NoFile
  BY <1>4 DEF RunsConvert
<1>6. CASE Create(w)
  <2>1. ~Executing(IF cached = NoFile THEN w ELSE cached)
    BY <1>3, <1>5, BinaryAssumption DEF Executing, Files
  <2>2. pc'[w] = "copy"
    BY <1>3, <1>6, <2>1 DEF Create, Goto, BeingChecked
  <2>3. QED BY <1>1, <2>2
<1>7. CASE ~Create(w)
  <2>1. /\ pc[w] \in {"verify", "use"}
        /\ pc[w] = "verify" => ~Works(cached)
        /\ pc[w] = "use" => bin[w] = "cached" /\ ~Runs(cached)
    BY <1>1, <1>2, <1>4, <1>7
       DEF Run, Check, Gives, Remove, Fetch, Copy, Verify, StartConvert, EndConvert, Goto
  <2>2. CASE onPath
    BY <2>1, <2>2 DEF PathSuffices
  <2>3. CASE ~onPath
    <3>1. \A v \in Workers : pc[v] \notin Before \cup {"copy"}
      BY <1>3, <2>1 DEF Before
    <3>2. Works(cached)
      BY <1>2, <2>3, <3>1, QuietWorks
    <3>3. QED BY <2>1, <3>2 DEF Works
  <2>4. QED BY <2>2, <2>3
<1>8. QED BY <1>6, <1>7

\* QuietInv is inductive.
LEMMA NextQuiet == QuietInv /\ [Next]_vars => QuietInv'
<1> SUFFICES ASSUME QuietInv, [Next]_vars PROVE QuietInv'
  OBVIOUS
<1>1. CASE UNCHANGED vars
  BY <1>1 DEF vars, QuietInv, TypeOK, Unmade, WritersCopy, RunsConvert, PathSuffices,
     MadeAgain, GoneIsMade, OldStays, MissingIsWritten, SomeoneWill, Works, Runs
<1>2. ASSUME NEW w \in Workers, Run(w) \/ Die(w) PROVE QuietInv'
  <2>1. TypeOK'
    BY <1>2, StepType DEF QuietInv
  <2>2. QED
    BY <1>2, <2>1, UnmadeStep, WritersStep, PathStep, MadeStep, SomeoneStep DEF QuietInv
<1>3. QED BY <1>1, <1>2 DEF Next

LEMMA QuietInvHolds == Spec => []QuietInv
BY InitQuiet, NextQuiet, PTL DEF Spec

\* However many workers removed, emptied and overwrote each other's downloads,
\* the scip that is left works, unless a download failed or a process died.
THEOREM QuietLeavesWorking == Spec => []QuietMeansWorking
<1>1. QuietInv => QuietMeansWorking
  BY QuietWorks DEF QuietMeansWorking, AllEnded, Before
<1>2. QED BY QuietInvHolds, <1>1, PTL

\* Whatever the workers do to each other's files, one of them converts, unless
\* a download failed or a process died.
THEOREM SomeoneAlwaysConverts == Spec => []SomeoneConverts
<1>1. QuietInv => SomeoneConverts
  BY DEF QuietInv, SomeoneWill, SomeoneConverts, AllEnded
<1>2. QED BY QuietInvHolds, <1>1, PTL
=============================================================================
