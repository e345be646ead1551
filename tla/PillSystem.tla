----------------------------- MODULE PillSystem -----------------------------
(***************************************************************************)
(* The orchestrator service composed with the window that really talks to  *)
(* it: the nudge panel, the typing telemetry, the scene updates of the     *)
(* editor, the settings and the project switcher.                          *)
(*                                                                         *)
(* Of the outcome commands only pill_evicted is reachable for a pill that  *)
(* is attributed.  pill_expand and pill_pin are invoked from inside a      *)
(* bouquet, and bouquets are opened by pill_expand alone; pill_dismiss     *)
(* outside of a bouquet is for pins of earlier sessions.                   *)
(***************************************************************************)
EXTENDS PillServiceProperties, PillLayer

systemVars == <<vars, layerVars>>

SystemInit == Init /\ LayerInit

ServiceStep == ServiceNext /\ UNCHANGED layerVars

WindowStep ==
    /\ InvokeTelemetry \/ InvokeSceneState \/ InvokeReset \/ CloseProject
    /\ UNCHANGED layerVars

PanelStep == LayerNext /\ UNCHANGED serviceVars

SystemNext == ServiceStep \/ WindowStep \/ PanelStep

SystemSpec == SystemInit /\ [][SystemNext]_systemVars

-----------------------------------------------------------------------------
InFlight(r) == r \in invoked \/ \E i \in DOMAIN inbox : inbox[i] = r

(* The panel's variables hold values of their types, and the panel has     *)
(* room for what it shows.                                                 *)
LayerTypeOK ==
    /\ read \in 0 .. Len(bus)
    /\ listening \in BOOLEAN
    /\ visible \in Seq(Pill) /\ Len(visible) <= MaxOnScreen
    /\ stash \in Seq(Pill) /\ Len(stash) <= MaxStashed
    /\ {engaged, opened, hovered, shown} \subseteq SUBSET Pill

(* A pill is shown once: never twice on the panel, never on the panel and  *)
(* in the stash at a time, across evictions and recalls.                   *)
ShownInOnePlace == IsInjective(visible \o stash)

(* No pill the panel showed keeps an open attribution once it left the     *)
(* screen: its eviction is on the way, or was served.  The evicted pill,   *)
(* the channel and the learning loop agree.                                *)
LeftPillsAreReported ==
    ProjectOpen => \A p \in shown \ OnScreen :
        attribution[p] # NoAttribution => InFlight(Outcome(p, "evict"))

(* An engaged pill never vanishes from the panel: it leaves the screen     *)
(* only for the stash, or with the whole panel.                            *)
EngagedPillsAreKept ==
    [][ \A p \in OnScreen \cap engaged :
            p \in OnScreen' \cup ToSet(stash') \/ shown' = {} ]_systemVars

(* The panel loses none of the pills it holds and shows none twice.        *)
PanelKeepsItsPills == [](LayerTypeOK /\ ShownInOnePlace) /\ EngagedPillsAreKept

(* To the service, the window is one of those PillService allows for: what *)
(* holds of the service with any window holds here.                        *)
IsAService == Spec

-----------------------------------------------------------------------------
(* Documented, and not what the code does.                                 *)

(* on_outcome: "A clicked-but-not-pinned eviction counts as engagement     *)
(* (writer opened it, didn't dismiss)."                                    *)
OpeningCountsAsEngagement ==
    [][ \A e \in ledger' \ ledger : e.pill \in opened => e.outcome # "evict" ]_systemVars
=============================================================================
