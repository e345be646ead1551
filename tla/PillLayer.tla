------------------------------ MODULE PillLayer -----------------------------
(***************************************************************************)
(* The nudge panel of the renderer (PillLayer.tsx): the pills on screen in *)
(* order of arrival, the stash of engaged pills the panel ran out of room  *)
(* for, and what it reports to the core.                                   *)
(*                                                                         *)
(* Handlers run one at a time on the window's thread.  The panel mounts    *)
(* with the editor canvas of a scene and hears the core's events only once *)
(* its subscription is set up; what is emitted before is lost to it.       *)
(*                                                                         *)
(* Bouquets are left out: nothing but an open bouquet asks for one.  So is *)
(* pill:evicted, which the core never emits.                               *)
(***************************************************************************)
EXTENDS PillChannels, SequencesExt

CONSTANTS
    MaxOnScreen,    \* MAX_ON_SCREEN
    MaxStashed      \* MAX_STASHED

ASSUME LayerAssumption == {MaxOnScreen, MaxStashed} \subseteq Nat \ {0}

VARIABLES
    read,           \* events of the bus that were delivered to the window
    listening,      \* the panel's subscription is live
    visible,        \* pills on screen, oldest first
    stash,          \* stashed pills, newest first
    engaged,        \* pills whose eviction would stash them
    opened,         \* deepenedIds: pills whose deepen panel is open
    hovered,        \* pills with a pending hover timer
    shown           \* history: pills shown since the panel mounted

panelVars == <<visible, stash, engaged, opened, hovered, shown>>
layerVars == <<read, listening, panelVars>>

OnScreen == ToSet(visible)

LayerInit ==
    /\ read = 0
    /\ listening = FALSE
    /\ visible = <<>>
    /\ stash = <<>>
    /\ engaged = {}
    /\ opened = {}
    /\ hovered = {}
    /\ shown = {}

(* prev.filter(x => x.pill_id !== p).  No pill is in a list twice (see     *)
(* ShownInOnePlace), so the filter takes out the one place that holds p.   *)
Without(list, p) ==
    IF p \in ToSet(list)
    THEN RemoveAt(list, CHOOSE i \in DOMAIN list : list[i] = p)
    ELSE list

(* ipc.pillEvicted: without an open project the command does nothing.      *)
Report(p) == \/ Invoke(Outcome(p, "evict"))
             \/ ~ProjectOpen /\ UNCHANGED channels

(* Mutant: the stash gives up its newest pill.                             *)
TopOfStashFirstCome(p, kept) ==
    SubSeq(kept \o <<p>>, 1, Min({MaxStashed, Len(kept) + 1}))

(* A stashed pill goes on top; the stash gives up its oldest.              *)
TopOfStash(p, kept) ==
    SubSeq(<<p>> \o kept, 1, Min({MaxStashed, Len(kept) + 1}))

(* Mutant: only pills that are really lost are reported.                   *)
EvictSilently(p, kept) ==
    \/ /\ p \in engaged
       /\ stash' = TopOfStash(p, kept)
       /\ engaged' = engaged \ {p}
       /\ UNCHANGED channels
    \/ /\ p \notin engaged
       /\ stash' = kept
       /\ Report(p)
       /\ UNCHANGED engaged

(* p has to make room.  Its eviction is reported in any case; if it was    *)
(* engaged it is kept in the stash.                                        *)
Evict(p, kept) ==
    /\ Report(p)
    /\ \/ /\ p \in engaged
          /\ stash' = TopOfStash(p, kept)
          /\ engaged' = engaged \ {p}
       \/ /\ p \notin engaged
          /\ stash' = kept
          /\ UNCHANGED engaged

(* p appears at the end of the panel, where the oldest pill makes room.    *)
Appear(p, kept) ==
    /\ shown' = shown \cup {p}
    /\ \/ /\ Len(visible) < MaxOnScreen
          /\ visible' = Append(visible, p)
          /\ stash' = kept
          /\ UNCHANGED <<channels, engaged>>
       \/ /\ Len(visible) >= MaxOnScreen
          /\ visible' = Append(Tail(visible), p)
          /\ Evict(Head(visible), kept)

-----------------------------------------------------------------------------
(* Events of the core.                                                     *)
Delivered == bus[read + 1]

HearEmerged ==
    /\ listening
    /\ read < Len(bus)
    /\ Delivered.kind = "emerged"
    /\ read' = read + 1
    /\ Appear(Delivered.pill, stash)
    /\ UNCHANGED <<listening, opened, hovered>>

(* Mutant: a dismissed pill is reported as evicted.                        *)
HearDismissedReporting ==
    /\ listening
    /\ read < Len(bus)
    /\ Delivered.kind = "dismissed"
    /\ read' = read + 1
    /\ visible' = Without(visible, Delivered.pill)
    /\ Report(Delivered.pill)
    /\ UNCHANGED <<listening, stash, engaged, opened, hovered, shown>>

HearDismissed ==
    /\ listening
    /\ read < Len(bus)
    /\ Delivered.kind = "dismissed"
    /\ read' = read + 1
    /\ visible' = Without(visible, Delivered.pill)
    /\ UNCHANGED <<channels, listening, stash, engaged, opened, hovered, shown>>

(* No subscription: the event is lost.                                     *)
MissEvent ==
    /\ ~listening
    /\ read < Len(bus)
    /\ read' = read + 1
    /\ UNCHANGED <<channels, listening, panelVars>>

(* The asynchronous subscription of the mounted panel is set up.           *)
Listen ==
    /\ ~listening
    /\ listening' = TRUE
    /\ UNCHANGED <<channels, read, panelVars>>

-----------------------------------------------------------------------------
(* The writer.                                                             *)

(* A click opens the deepen panel in place of the capsule.                 *)
ClickCapsule(p) ==
    /\ p \in OnScreen \ opened
    /\ engaged' = engaged \cup {p}
    /\ opened' = opened \cup {p}
    /\ UNCHANGED <<channels, read, listening, visible, stash, hovered, shown>>

ClosePanel(p) ==
    /\ p \in OnScreen \cap opened
    /\ opened' = opened \ {p}
    /\ UNCHANGED <<channels, read, listening, visible, stash, engaged, hovered,
                   shown>>

(* handlePillHoverEnter is wired to the deepen panel alone.                *)
EnterPanel(p) ==
    /\ p \in (OnScreen \cap opened) \ engaged
    /\ hovered' = hovered \cup {p}
    /\ UNCHANGED <<channels, read, listening, visible, stash, engaged, opened,
                   shown>>

LeavePanel(p) ==
    /\ p \in OnScreen \cap opened \cap hovered
    /\ hovered' = hovered \ {p}
    /\ UNCHANGED <<channels, read, listening, visible, stash, engaged, opened,
                   shown>>

(* A pill that leaves the screen under the pointer fires no leave event,   *)
(* so its timer still engages it.                                          *)
HoverTimer(p) ==
    /\ p \in hovered
    /\ hovered' = hovered \ {p}
    /\ engaged' = engaged \cup {p}
    /\ UNCHANGED <<channels, read, listening, visible, stash, opened, shown>>

(* A restored pill is a fresh arrival: another one may have to make room.  *)
RestoreStashed(p) ==
    /\ p \in ToSet(stash)
    /\ Appear(p, Without(stash, p))
    /\ UNCHANGED <<read, listening, opened, hovered>>

(* Another scene, another panel: the canvas is keyed by the scene, and     *)
(* unmounting reports nothing.                                             *)
SwitchScene ==
    /\ listening' = FALSE
    /\ visible' = <<>>
    /\ stash' = <<>>
    /\ engaged' = {}
    /\ opened' = {}
    /\ hovered' = {}
    /\ shown' = {}
    /\ UNCHANGED <<channels, read>>

LayerNext ==
    \/ HearEmerged
    \/ HearDismissed
    \/ MissEvent
    \/ Listen
    \/ \E p \in Pill : \/ ClickCapsule(p)
                       \/ ClosePanel(p)
                       \/ EnterPanel(p)
                       \/ LeavePanel(p)
                       \/ HoverTimer(p)
                       \/ RestoreStashed(p)
    \/ SwitchScene
=============================================================================
