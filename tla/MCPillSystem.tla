---------------------------- MODULE MCPillSystem ----------------------------
(***************************************************************************)
(* Three pills on a panel with room for one and a stash with room for one: *)
(* every eviction, recall and overflow of the stash happens.               *)
(***************************************************************************)
EXTENDS PillSystem, TLC

CONSTANTS p1, p2, p3, echo, s1

ThreePills  == {p1, p2, p3}
TwoPills    == {p1, p2}
OneScene    == {s1}
OneTrigger  == {"drift"}
NoTriggers  == {}
OneSpeaker  == {echo}
Tireless    == [s \in OneSpeaker |-> 0]

NothingLearned == {NoObservations}

PanelRequests ==
    [kind: {"telemetry"}, atBoundary: {TRUE}, mode: {"pour"}]
      \cup [kind: {"outcome"}, pill: Pill, signal: {"evict"}]
      \cup SceneRequest

WindowRequests == PanelRequests \cup [kind: {"reset", "shutdown"}]

PillSymmetry == Permutations(Pill)
=============================================================================
