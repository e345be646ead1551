---------------------------- MODULE MCPillService ---------------------------
(***************************************************************************)
(* PillService on small instances.  Two of them are enough, each with the  *)
(* requests its question is about: the minting of three pills over time,   *)
(* and the learning from every outcome of two pills.                       *)
(***************************************************************************)
EXTENDS PillServiceProperties, TLC

CONSTANTS p1, p2, p3, echo, editor, s1

ThreePills == {p1, p2, p3}
TwoPills   == {p1, p2}
OneScene   == {s1}

TwoTriggers == {"drift", "dissonance"}
Dissonance  == {"dissonance"}
NoTriggers  == {}

(* echo rests longer than the interval between two pills.                  *)
TwoSpeakers == {echo, editor}
Resting     == [s \in TwoSpeakers |-> IF s = echo THEN 3 ELSE 2]
OneSpeaker  == {echo}
Tireless    == [s \in OneSpeaker |-> 0]

NothingLearned == {NoObservations}

(* A session that finds an empty table, or one with an observation in it.  *)
SomethingLearned == {NoObservations, [NoObservations EXCEPT !["drift"]["pour"] = 1]}

Ticks(modes) == [kind: {"telemetry"}, atBoundary: {TRUE}, mode: modes]

MintingRequests ==
    Ticks({"pour"}) \cup SceneRequest \cup [kind: {"shutdown"}]
      \cup [kind: {"telemetry"}, atBoundary: {FALSE}, mode: {"pour"}]

(* A pin takes the path of a dismissal.                                    *)
LearningRequests ==
    Ticks(Mode) \cup SceneRequest \cup [kind: {"reset"}]
      \cup [kind: {"outcome"}, pill: Pill, signal: {"click", "dismiss", "evict"}]

LiveRequests ==
    Ticks({"pour"}) \cup [kind: {"outcome"}, pill: Pill, signal: {"evict"}]
      \cup SceneRequest \cup [kind: {"shutdown"}]

(* Pills are interchangeable in every property of these runs.              *)
PillSymmetry == Permutations(Pill)
=============================================================================
