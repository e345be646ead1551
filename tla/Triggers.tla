------------------------------ MODULE Triggers ------------------------------
(***************************************************************************)
(* Which of the eleven triggers fire at a moment of the writing, and which *)
(* of them wins (orchestrator/triggers/, pick_best_trigger).  A moment is  *)
(* what TriggerContext holds: the telemetry, the analysis, the scene and   *)
(* the project.  Three triggers compare with bars that follow a learned    *)
(* sensitivity.                                                            *)
(*                                                                         *)
(* Measures are thousandths, sensitivities hundredths, priorities          *)
(* hundredths; Unknown is a measure nobody has made.  A paragraph is a     *)
(* sequence of tokens; which characters and entries of the world a token   *)
(* names is given.  What depends on the prompts is left out: they are      *)
(* built in, and every one renders.                                        *)
(***************************************************************************)
EXTENDS Integers, Sequences, FiniteSets

CONSTANTS
    Moment,             \* the moments considered
    FirstMoment,
    Unknown,
    Token, Plain,       \* the tokens, and those that are no stopwords
    Named,              \* [Token -> the first character of that very name]
    EntriesOf,          \* [Token -> the entries of that name or alias]
    Telling,            \* [entry -> the words of its main section]
    Fields,             \* [character -> values, fears and the lie, as words]
    MinParagraphWords,  \* MIN_PARAGRAPH_WORDS
    MinContextWords,    \* MIN_CONTEXT_OVERLAP_WORDS
    Sensitivity         \* the levels the learning may reach, in hundredths

ASSUME TriggersAssumption ==
    /\ FirstMoment \in Moment /\ Sensitivity \subseteq 20..80 /\ 50 \in Sensitivity
    /\ MinParagraphWords \in Nat /\ MinContextWords \in Nat \ {0}
    /\ \A m \in Moment :
          /\ m.coherence \in Int \cup {Unknown} /\ m.divergence \in Int \cup {Unknown}
          /\ m.blockDivergence # Unknown => m.blockDivergence \in Int /\ m.blockCoherence \in Int
          /\ m.paragraph # Unknown => m.paragraph \in Seq(Token)
    /\ \A c \in DOMAIN Fields : \A field \in Fields[c] : IsFiniteSet(field)

VARIABLES moment, tuned

triggerVars == <<moment, tuned>>

Tuned == {"block_anchored_drift", "topic_drift", "character_dissonance"}

TriggersTypeOK == moment \in Moment /\ tuned \in [Tuned -> Sensitivity]

-----------------------------------------------------------------------------
(* Higher sensitivity: a lower bar to be above, a higher one to be below.  *)
LoosenAbove(default, s) == default - (s - 50) * 4
LoosenBelow(default, s) == default + (s - 50) * 4

Known(x) == x # Unknown
Either(x, y) == IF Known(x) THEN x ELSE y     \* the heat's measure first

BlockAnchoredDrift(m, s) ==
    /\ Known(m.blockDivergence)
    /\ \/ m.blockDivergence > LoosenAbove(600, s)
       \/ m.blockCoherence < LoosenBelow(350, s)

TopicDrift(m, s) ==
    /\ Known(m.coherence) /\ m.coherence < LoosenBelow(350, s)
    /\ Known(m.divergence) /\ m.divergence > LoosenAbove(500, s)

SceneFlowDip(m) ==
    LET flow == Either(m.heatCoherence, m.flow) IN
    Known(flow) /\ flow < 400 /\ m.sincePill >= 30

PaceFloor(m) ==
    LET pace == Either(m.heatPace, m.pace) IN
    Known(pace) /\ pace < 300 /\ m.wordDelta \in -39..39

Total(xs) ==
    LET sum[i \in 0..Len(xs)] == IF i = 0 THEN 0 ELSE sum[i - 1] + xs[i] IN sum[Len(xs)]
ValenceSpike(m) ==
    LET n == Len(m.valences)
        away == n * m.valences[n] - Total(m.valences) IN
    n >= 3 /\ (away > 400 * n \/ -away > 400 * n)

StructuralInflection(m) == m.inflection # "none"

(* collision.rs: a character that is present keeps its name to itself. *)
CharacterOnly(t, m) == Named[t] \cap m.present # {}
ContextWords(m, e) == {m.paragraph[i] : i \in DOMAIN m.paragraph} \cap Plain \cap Telling[e]

WorldDrift(m) ==
    /\ Known(m.paragraph) /\ Len(m.paragraph) >= MinParagraphWords
    /\ \E i \in DOMAIN m.paragraph :
          LET t == m.paragraph[i] IN
          /\ ~CharacterOnly(t, m)
          /\ \E e \in EntriesOf[t] : Cardinality(ContextWords(m, e)) >= MinContextWords

NoUniverseYet(m) == m.emptyUniverse /\ m.words > 200

(* lemma_overlap: the words two texts share, of all the words of both. *)
Overlap(m, field, gate) ==
    LET words == {m.paragraph[i] : i \in DOMAIN m.paragraph} \cap Plain IN
    /\ words \cup field # {}
    /\ 1000 * Cardinality(words \cap field) >= gate * Cardinality(words \cup field)

CharacterDissonance(m, s) ==
    /\ Known(m.paragraph)
    /\ \E c \in m.present \cap DOMAIN Fields :
          \E field \in Fields[c] \ {{}} : Overlap(m, field, LoosenAbove(300, s))

IdlePauseWithPresentCharacter(m) == m.idle >= 8 /\ m.present # {} /\ m.sincePill >= 60

IdlePause(m) == m.idle >= 6 /\ m.sincePill >= 60 /\ m.words >= 15

-----------------------------------------------------------------------------
(* builtin_triggers, in their order, and the priority of each candidate.   *)
Builtin == <<"block_anchored_drift", "scene_flow_dip", "topic_drift", "valence_spike",
             "structural_inflection", "pace_floor", "world_drift", "no_universe_yet",
             "character_dissonance", "idle_pause_with_present_character", "idle_pause">>
TriggerIds == {Builtin[i] : i \in DOMAIN Builtin}

InflectionPriority(m) ==
    CASE m.inflection = "pov_change"      -> IF m.hasPov THEN 825 ELSE 330
      [] m.inflection = "location_change" -> IF m.hasLocation THEN 825 ELSE 330
      [] OTHER                            -> 550

Priority(t, m) ==
    CASE t = "block_anchored_drift"  -> 800
      [] t = "topic_drift"           -> 700
      [] t = "valence_spike"         -> 650
      [] t = "scene_flow_dip"        -> 600
      [] t = "structural_inflection" -> InflectionPriority(m)
      [] t \in {"world_drift", "character_dissonance"} -> 550
      [] t = "pace_floor"            -> 500
      [] t = "no_universe_yet"       -> 450
      [] OTHER                       -> 400

Gate(t, m, s) ==
    CASE t = "block_anchored_drift"  -> BlockAnchoredDrift(m, s[t])
      [] t = "scene_flow_dip"        -> SceneFlowDip(m)
      [] t = "topic_drift"           -> TopicDrift(m, s[t])
      [] t = "valence_spike"         -> ValenceSpike(m)
      [] t = "structural_inflection" -> StructuralInflection(m)
      [] t = "pace_floor"            -> PaceFloor(m)
      [] t = "world_drift"           -> WorldDrift(m)
      [] t = "no_universe_yet"       -> NoUniverseYet(m)
      [] t = "character_dissonance"  -> CharacterDissonance(m, s[t])
      [] t = "idle_pause_with_present_character" -> IdlePauseWithPresentCharacter(m)
      [] OTHER                       -> IdlePause(m)

(* No trigger speaks into the middle of a sentence. *)
Fires(t) == ~moment.midSentence /\ Gate(t, moment, tuned)
Fired == {i \in DOMAIN Builtin : Fires(Builtin[i])}

(* max_by: of the strongest candidates the last one. *)
Wins(i) ==
    /\ i \in Fired
    /\ \A j \in Fired : \/ Priority(Builtin[j], moment) < Priority(Builtin[i], moment)
                        \/ /\ Priority(Builtin[j], moment) = Priority(Builtin[i], moment)
                           /\ j <= i
Winner == {Builtin[i] : i \in {k \in DOMAIN Builtin : Wins(k)}}

-----------------------------------------------------------------------------
TriggersInit == moment = FirstMoment /\ tuned = [t \in Tuned |-> 50]

NextMoment(m) == moment' = m /\ UNCHANGED tuned      \* the next telemetry tick

Learn(t, level) ==                \* a reward, or the reset of the learning
    /\ tuned' = [tuned EXCEPT ![t] = level]
    /\ UNCHANGED moment

TriggersNext ==
    \/ \E m \in Moment : NextMoment(m)
    \/ \E t \in Tuned, level \in Sensitivity : Learn(t, level)

TriggersSpec == TriggersInit /\ [][TriggersNext]_triggerVars

-----------------------------------------------------------------------------
(* At the same moment a rise of a sensitivity silences nothing that fires  *)
(* and never lets a weaker candidate win: every bar moves towards firing,  *)
(* whichever side of it the trigger compares with (loosen_above,           *)
(* loosen_below).                                                          *)
Raised == tuned' # tuned /\ moment' = moment /\ \A t \in Tuned : tuned'[t] >= tuned[t]
SensitivityOnlyAdds ==
    [][Raised => /\ Fired \subseteq Fired'
                 /\ \A t \in Winner, u \in Winner' :
                       Priority(u, moment) >= Priority(t, moment)]_triggerVars

-----------------------------------------------------------------------------
(* Documented, and not what the code does: from fifteen words on the       *)
(* ambient voice wins the tie.                                             *)
(* "when both gates open pick_best_trigger keeps the character pick": the  *)
(* ambient voice never takes the pause from a character (idle_pause.rs).   *)
CharacterKeepsThePause ==
    "idle_pause" \in Winner => ~Fires("idle_pause_with_present_character")
=============================================================================
