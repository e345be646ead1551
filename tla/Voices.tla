------------------------------- MODULE Voices -------------------------------
(***************************************************************************)
(* Who speaks for a candidate (voice/router.rs, pick_lru_present): the     *)
(* point of view, the character that has been silent for longest, or one   *)
(* of the personas; and nobody before its rest is over (CooldownState).    *)
(* Who was registered when the project was opened is fixed; who is present *)
(* in the scene is the writer's.                                           *)
(*                                                                         *)
(* A rest is counted down in ticks; which of two spoke later is the order  *)
(* of `turns`, where everyone who spoke is once.                           *)
(***************************************************************************)
EXTENDS Naturals, Sequences, FiniteSets, SequencesExt

CONSTANTS
    PersonaList,        \* the personas, in their built-in order
    CastMember,         \* the registered characters
    Absentee,           \* an id the registry does not know
    Nobody,
    RestOfPersona, RestOfCharacter,      \* cooldown_ms
    MintEvery,          \* MIN_PILL_INTERVAL_MS
    MaxPresent          \* bound: how many a scene names as present

ASSUME VoicesAssumption ==
    /\ PersonaList \in Seq(STRING) /\ IsInjective(PersonaList)
    /\ ToSet(PersonaList) \cap (CastMember \cup {Absentee, Nobody}) = {}
    /\ Absentee \notin CastMember /\ Nobody \notin CastMember
    /\ RestOfPersona \in Nat /\ RestOfCharacter \in Nat /\ MintEvery \in Nat
    /\ MaxPresent \in Nat

VARIABLES
    cast,               \* characters_present, in the scene's order
    pov,                \* pov_character_id
    resting,            \* what is left of each rest
    turns,              \* last_emit, from the oldest to the newest
    quiet,              \* what is left of the emission interval
    spokenSince         \* history: who spoke since one's own last turn

voiceVars == <<cast, pov, resting, turns, quiet, spokenSince>>

Personas == ToSet(PersonaList)
Voice == Personas \cup CastMember
CharTrack == {"block_anchored_drift", "topic_drift", "valence_spike",
              "idle_pause_with_present_character", "character_dissonance"}
CandidateIds == CharTrack \cup {"scene_flow_dip", "structural_inflection", "pace_floor",
                                "world_drift", "no_universe_yet", "idle_pause"}
Casts == {c \in SeqOf(CastMember \cup {Absentee}, MaxPresent) : IsInjective(c)}
RestOf(v) == IF v \in CastMember THEN RestOfCharacter ELSE RestOfPersona

VoicesTypeOK ==
    /\ cast \in Casts /\ pov \in CastMember \cup {Absentee, Nobody}
    /\ \A v \in Voice : resting[v] \in 0..RestOf(v) /\ spokenSince[v] \subseteq Voice
    /\ IsInjective(turns) /\ ToSet(turns) \subseteq Voice
    /\ quiet \in 0..MintEvery

-----------------------------------------------------------------------------
Spoke(v) == v \in ToSet(turns)
TurnOf(v) == IF Spoke(v) THEN CHOOSE i \in DOMAIN turns : turns[i] = v ELSE 0

(* The turns of the others, in their order. *)
Before(v) == IF Spoke(v) THEN RemoveAt(turns, TurnOf(v)) ELSE turns

HasRested(v) == resting[v] = 0
Present == ToSet(cast)
Ready == {c \in CastMember \cap Present : HasRested(c)}
ReadyPersonas == {p \in Personas : HasRested(p)}

PickLatestPresent == {c \in Ready : \A d \in Ready : TurnOf(d) <= TurnOf(c)}

(* The oldest turn; who never spoke comes first, then the scene's order.   *)
PickLruPresent ==
    {c \in Ready : \A d \in Ready :
        \/ TurnOf(c) < TurnOf(d)
        \/ /\ TurnOf(c) = TurnOf(d)
           /\ \A i, j \in DOMAIN cast : cast[i] = c /\ cast[j] = d => i <= j}

DefaultPersona(t) ==
    CASE t = "block_anchored_drift"                      -> "editor"
      [] t \in {"topic_drift", "pace_floor"}             -> "architect"
      [] t \in {"structural_inflection", "world_drift"}  -> "cartographer"
      [] t = "no_universe_yet"                           -> "chorus"
      [] OTHER                                           -> "echo"

(* Least recently used, but who never spoke counts as having spoken now.   *)
LruPersona ==
    LET spoke == {p \in ReadyPersonas : Spoke(p)}
        First(ps) == {p \in ps : \A i, j \in DOMAIN PersonaList :
                          PersonaList[i] = p /\ PersonaList[j] \in ps => i <= j} IN
    IF spoke # {} THEN {p \in spoke : \A q \in spoke : TurnOf(p) <= TurnOf(q)}
                  ELSE First(ReadyPersonas)

(* route: the cartographer for the world, else the trigger's own persona.  *)
RoutePersona(t) ==
    IF ReadyPersonas \cap {DefaultPersona(t)} # {}
    THEN {DefaultPersona(t)}
    ELSE LruPersona

PovReady == pov \in Ready

RouteWithChars(t) ==
    IF t \in CharTrack /\ PovReady THEN {pov}
    ELSE IF t \in CharTrack /\ Ready # {} THEN PickLruPresent
    ELSE RoutePersona(t)

-----------------------------------------------------------------------------
VoicesInit ==
    /\ cast = <<>> /\ pov = Nobody
    /\ resting = [v \in Voice |-> 0]
    /\ turns = <<>> /\ quiet = 0
    /\ spokenSince = [v \in Voice |-> {}]

(* on_telemetry mints a pill: note_emit and last_pill_emit_at. *)
Speak(t, v) ==
    /\ quiet = 0
    /\ v \in RouteWithChars(t)
    /\ resting' = [resting EXCEPT ![v] = RestOf(v)]
    /\ turns' = Append(Before(v), v)
    /\ quiet' = MintEvery
    /\ spokenSince' = [u \in Voice |-> IF u = v THEN {} ELSE spokenSince[u] \cup {v}]
    /\ UNCHANGED <<cast, pov>>

NobodySpeaks(t) ==              \* the tick is skipped
    /\ quiet = 0 /\ RouteWithChars(t) = {}
    /\ UNCHANGED voiceVars

SetTheScene(c, p) ==            \* SceneState: rests and turns carry over
    /\ cast' = c /\ pov' = p
    /\ UNCHANGED <<resting, turns, quiet, spokenSince>>

OneLess(n) == IF n = 0 THEN 0 ELSE n - 1
VoicesRest ==
    /\ resting' = [v \in Voice |-> OneLess(resting[v])] /\ quiet' = OneLess(quiet)
    /\ UNCHANGED <<cast, pov, turns, spokenSince>>

VoicesNext ==
    \/ \E t \in CandidateIds : NobodySpeaks(t) \/ \E v \in Voice : Speak(t, v)
    \/ \E c \in Casts, p \in CastMember \cup {Absentee, Nobody} : SetTheScene(c, p)
    \/ VoicesRest

VoicesSpec == VoicesInit /\ [][VoicesNext]_voiceVars

-----------------------------------------------------------------------------
(* No character is passed over for good: one that is not the point of view *)
(* never speaks a second time while another is present and rested that has *)
(* not spoken since its first, through changes of scene and of the point   *)
(* of view (pick_lru_present).                                             *)
CharactersTakeTurns ==
    [][\A c \in Ready \ {pov}, d \in Ready :
          resting'[c] > resting[c] => c \notin spokenSince[d]]_voiceVars
=============================================================================
