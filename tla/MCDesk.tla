------------------------------- MODULE MCDesk -------------------------------
(* An instance of Desk for TLC: two providers, a text with a finding, the  *)
(* words of the diagnostics' rules, three paragraphs, two characters.      *)
EXTENDS Desk, TLC

CONSTANTS near, far,                \* the language model's providers
          weak,                     \* a text with a finding
          slow,                     \* that finding
          page, other, blank,       \* paragraphs of the heat map
          alma, vale                \* characters

MCChain == <<near, far>>
MCOffer == {"anthropic", "kimi", "openrouter", "gemini", "canned"}
MCFindingsOf == [t \in {weak} |-> {slow}]

(* A vocabulary for the rules of the diagnostics. *)
MCVocabulary == {"was", "opened", "softly", "said", "alot"}
MCMistake == {<<"alot">>, <<"said", "was">>}

MCBackoffs == <<1, 2>>
MCCastIn == [p \in {page, other, blank} |-> IF p = page THEN {alma} ELSE {}]
MCPlacesIn == [p \in {page, other, blank} |-> IF p = other THEN {"moor"} ELSE {}]
MCChargeOf == {<<1, 1>>, <<3, 1>>, <<1, 2>>}
MCPersonaList == <<"echo", "cartographer">>

(* Paragraphs for the triggers: the vale is the name of a character and of *)
(* an entry of the world as well.                                          *)
MCToken == {"alma", "vale", "grey", "cold", "the"}
MCPlain == MCToken \ {"the"}
MCNamed == [t \in MCToken |-> IF t = "alma" THEN {alma} ELSE IF t = "vale" THEN {vale} ELSE {}]
MCEntriesOf == [t \in MCToken |-> IF t = "vale" THEN {"the vale"} ELSE {}]
MCTelling == [e \in {"the vale"} |-> {"grey", "cold"}]
MCFields == [c \in {alma} |-> {{"grey"}, {"cold", "alma"}}]

Calm == [midSentence |-> FALSE, idle |-> 3, inflection |-> "none", wordDelta |-> 0,
         sincePill |-> 60, words |-> 15, present |-> {}, hasPov |-> FALSE,
         hasLocation |-> FALSE, emptyUniverse |-> FALSE, paragraph |-> Unknown,
         coherence |-> Unknown, divergence |-> Unknown, flow |-> Unknown, pace |-> Unknown,
         heatPace |-> Unknown, heatCoherence |-> Unknown, valences |-> <<>>,
         blockDivergence |-> Unknown, blockCoherence |-> Unknown]

(* What sets a moment apart from a calm one; a moment has up to two of     *)
(* these, on either side of the bars and of the limits.                    *)
Symptom ==
    {[midSentence |-> TRUE], [idle |-> 6], [idle |-> 8], [words |-> 14],
     [words |-> 201, emptyUniverse |-> TRUE], [present |-> {alma}], [present |-> {vale}],
     [paragraph |-> <<"the", "vale", "cold", "grey">>], [paragraph |-> <<"alma", "grey">>],
     [blockDivergence |-> 600, blockCoherence |-> 350],
     [coherence |-> 340, divergence |-> 510], [heatCoherence |-> 390],
     [pace |-> 299, wordDelta |-> -39], [valences |-> <<0, 800, 900>>],
     [inflection |-> "location_change", hasPov |-> TRUE]}
MCMoment == {(a @@ b) @@ Calm : a, b \in Symptom}
MCFirstMoment == [idle |-> 6] @@ Calm
MCSensitivity == {20, 50, 80}

(* Two wordings, each close to itself only. *)
MCWording == {"dim", "bright"}
MCEcho == {<<t, t>> : t \in MCWording}

(* The callers of the language model are interchangeable. *)
MCSymmetry == Permutations(Caller)
=============================================================================
