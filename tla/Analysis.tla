------------------------------- MODULE Analysis -------------------------------
(***************************************************************************)
(* The parts of analyze that have modules of their own, one at a time: the *)
(* sections and their budget (Analyze), the pages of one check             *)
(* (RowCollector), the cycles of one check (FileGraph).                    *)
(***************************************************************************)
EXTENDS Analyze, FileGraph, RowCollector

\* There is something for each part, which an idle one holds too.
ASSUME PartsAssumption == Databases # {} /\ Options # {} /\ Requests # {}

Init == \/ CycleInit /\ CollectIdle /\ AnalyzeIdle
        \/ CycleIdle /\ CollectInit /\ AnalyzeIdle
        \/ CycleIdle /\ CollectIdle /\ AnalyzeInit

Next == \/ CycleNext /\ UNCHANGED <<collectVars, analyzeVars>>
        \/ CollectNext /\ UNCHANGED <<cycleVars, analyzeVars>>
        \/ AnalyzeNext /\ UNCHANGED <<cycleVars, collectVars>>

Spec == Init /\ [][Next]_<<cycleVars, collectVars, analyzeVars>>

\* The state of all parts has its type.
AnalysisTypeOK == CycleTypeOK /\ CollectTypeOK /\ AnalyzeTypeOK
=============================================================================
