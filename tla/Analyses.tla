------------------------------ MODULE Analyses ------------------------------
(***************************************************************************)
(* The analyses of the paragraphs (orchestrator_service.rs): a pause of    *)
(* the writer asks the sidecar about the paragraph under the cursor, at    *)
(* most once per debounce and paragraph; the answer, or the timeout of the *)
(* client, comes back into the loop later, in any order, and patches the   *)
(* analysis the triggers read.                                             *)
(*                                                                         *)
(* An analysis is the number of its request, counted for each paragraph.   *)
(* Time is counted in ticks, as countdowns.  Without a sidecar nothing of  *)
(* this happens.                                                           *)
(***************************************************************************)
EXTENDS Naturals, Sequences, FiniteSets

CONSTANTS
    OpenScene,          \* the scenes the writer may open
    NoneOpen,
    ParagraphId,        \* the blocks of the editor
    NoText,             \* a paragraph of white space
    WrittenText,        \* and one of words
    Debounce,           \* BLOCK_ANALYZE_DEBOUNCE
    ClientTimeout,      \* of the HTTP client of the sidecar
    HistoryCap,         \* VALENCE_HISTORY_CAP
    MaxAsks             \* bound on the requests of one paragraph

ASSUME AnalysesAssumption ==
    /\ NoneOpen \notin OpenScene /\ NoText # WrittenText
    /\ Debounce \in Nat \ {0} /\ ClientTimeout \in Nat \ {0}
    /\ HistoryCap \in Nat \ {0} /\ MaxAsks \in Nat

VARIABLES
    opened,             \* the scene of the last SceneState
    sinceAsk,           \* block_analyze_throttle: ticks since, up to Debounce
    asks,               \* requests made so far, per paragraph
    flying,             \* the requests the sidecar has not answered
    blockMetrics,       \* block_metrics: the answer applied, 0 for none
    sceneMetrics,       \* flow, coherence, ...: whose answer they are
    valenceHistory,
    newest              \* history: the newest answer that was applied

analysisVars == <<opened, sinceAsk, asks, flying, blockMetrics, sceneMetrics,
                  valenceHistory, newest>>
analysis == <<blockMetrics, sceneMetrics, valenceHistory, newest>>

BlockAnswer == [block : ParagraphId, no : 1..MaxAsks]
NoAnswer == [block |-> "none", no |-> 0]

AnalysesTypeOK ==
    /\ opened \in OpenScene \cup {NoneOpen}
    /\ sinceAsk \in [ParagraphId -> 0..Debounce]
    /\ asks \in [ParagraphId -> 0..MaxAsks] /\ newest \in [ParagraphId -> 0..MaxAsks]
    /\ flying \subseteq [block : ParagraphId, no : 1..MaxAsks, scene : OpenScene,
                         left : 0..ClientTimeout]
    /\ blockMetrics \in [ParagraphId -> 0..MaxAsks]
    /\ valenceHistory \in Seq(BlockAnswer) /\ Len(valenceHistory) <= HistoryCap

AnalysesInit ==
    /\ opened = NoneOpen
    /\ sinceAsk = [b \in ParagraphId |-> Debounce]
    /\ asks = [b \in ParagraphId |-> 0] /\ flying = {}
    /\ blockMetrics = [b \in ParagraphId |-> 0]
    /\ sceneMetrics = NoAnswer /\ valenceHistory = <<>>
    /\ newest = [b \in ParagraphId |-> 0]

Flight(b) == [block |-> b, no |-> asks[b] + 1, scene |-> opened, left |-> ClientTimeout]

(* The throttle is set when the paragraph is sent, for a failure as well.  *)
Throttled(b) == sinceAsk' = [sinceAsk EXCEPT ![b] = 0]

MaybeKickAnalyze(b, text) ==
    /\ asks[b] < MaxAsks
    /\ opened # NoneOpen
    /\ sinceAsk[b] = Debounce /\ text # NoText
    /\ Throttled(b)
    /\ asks' = [asks EXCEPT ![b] = @ + 1]
    /\ flying' = flying \cup {Flight(b)}
    /\ UNCHANGED <<opened, analysis>>

Recent(history) ==
    IF Len(history) > HistoryCap
    THEN SubSeq(history, Len(history) - HistoryCap + 1, Len(history)) ELSE history

(* apply_block_analysis *)
Applied(f) ==
    LET answer == [block |-> f.block, no |-> f.no] IN
    /\ blockMetrics' = [blockMetrics EXCEPT ![f.block] = f.no]
    /\ sceneMetrics' = answer
    /\ valenceHistory' = Recent(Append(valenceHistory, answer))
    /\ newest' = [newest EXCEPT ![f.block] = IF f.no > @ THEN f.no ELSE @]

OnBlockAnalysis(f) ==              \* for the scene that asked only
    /\ flying' = flying \ {f}
    /\ IF f.scene = opened THEN Applied(f) ELSE UNCHANGED analysis
    /\ UNCHANGED <<opened, sinceAsk, asks>>

AnalyzeFails(f) ==                 \* an error, or the timeout: it is logged
    /\ flying' = flying \ {f}
    /\ UNCHANGED <<opened, sinceAsk, asks, analysis>>

(* SceneState leaves the analysis of the scene before as it is. *)
OpenTheScene(s) ==
    /\ opened' = s
    /\ UNCHANGED <<sinceAsk, asks, flying, analysis>>

Earlier(n) == IF n = 0 THEN 0 ELSE n - 1
AnalysesTick ==                    \* no request outlives its timeout
    /\ \A f \in flying : f.left > 0
    /\ flying' = {[f EXCEPT !.left = Earlier(@)] : f \in flying}
    /\ sinceAsk' = [b \in ParagraphId |->
                       IF sinceAsk[b] < Debounce THEN sinceAsk[b] + 1 ELSE Debounce]
    /\ UNCHANGED <<opened, asks, analysis>>

AnalysesNext ==
    \/ \E b \in ParagraphId, text \in {NoText, WrittenText} : MaybeKickAnalyze(b, text)
    \/ \E f \in flying : OnBlockAnalysis(f) \/ AnalyzeFails(f)
    \/ \E s \in OpenScene : OpenTheScene(s)
    \/ AnalysesTick

AnalysesSpec == AnalysesInit /\ [][AnalysesNext]_analysisVars

-----------------------------------------------------------------------------
(* Answers may overtake each other, since the debounce is shorter than the *)
(* timeout of the client: the metrics of a paragraph may go back to an     *)
(* older text.  But by no more requests than fit into one timeout          *)
(* (maybe_kick_sidecar_analyze, on_block_analysis).                        *)
MetricsLagIsBounded ==
    \A b \in ParagraphId : newest[b] - blockMetrics[b] <= ClientTimeout \div Debounce
=============================================================================
