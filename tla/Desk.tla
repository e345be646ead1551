-------------------------------- MODULE Desk --------------------------------
(***************************************************************************)
(* What runs beside the pills, the rabbit hole, the records and the        *)
(* manuscript: the calls of the language model, the settings of its        *)
(* providers, the editor's own pills with the rules that find them, the    *)
(* snapshots, the heat map and its budget, the sidecar's presence, the     *)
(* analyses it answers, the triggers, the voice a candidate is given and   *)
(* the bouquets of a pill, and the making of a project.                    *)
(* As far as their properties tell these share neither state nor locks, so *)
(* that every behaviour of all of them is an interleaving of one behaviour *)
(* of each.  A behaviour of Desk is one of a single part, the one in       *)
(* `focus`, while the others rest in their initial states: what holds of   *)
(* each part in all of these holds of all of them together.                *)
(***************************************************************************)
EXTENDS LlmRouter, Providers, EditorPills, Snapshots, Diagnostics, Sidecar, Heat,
        Triggers, Voices, Analyses, Bouquets, Projects

VARIABLE focus

deskVars == <<focus, routerVars, providerVars, editorVars, snapVars, prose, sideVars,
              heatVars, triggerVars, voiceVars, analysisVars, bouquetVars, projectVars>>

HeatParts == {"scores", "settings", "budget"}
Part == HeatParts \cup {"router", "providers", "editor", "snapshots", "diagnostics",
                        "sidecar", "triggers", "voices", "analyses", "bouquets",
                        "projects"}

DeskInit ==
    /\ focus \in Part
    /\ RouterInit /\ ProvidersInit /\ EditorInit /\ SnapInit /\ ProseInit
    /\ SideInit /\ HeatInit /\ TriggersInit /\ VoicesInit /\ AnalysesInit
    /\ BouquetsInit /\ ProjectsInit

(* The three parts of the heat map, which share the end of the process.    *)
HeatPart ==
    \/ focus = "scores" /\ (ScoresNext \/ HeatCrash)
    \/ focus = "settings" /\ (SettingsNext \/ HeatCrash)
    \/ focus = "budget" /\ (BudgetNext \/ HeatCrash)
    \/ focus \notin HeatParts /\ UNCHANGED heatVars

DeskNext ==
    /\ UNCHANGED focus
    /\ IF focus = "router" THEN RouterNext ELSE UNCHANGED routerVars
    /\ IF focus = "providers" THEN ProvidersNext ELSE UNCHANGED providerVars
    /\ IF focus = "editor" THEN EditorNext ELSE UNCHANGED editorVars
    /\ IF focus = "snapshots" THEN SnapNext ELSE UNCHANGED snapVars
    /\ IF focus = "diagnostics" THEN ProseNext ELSE UNCHANGED prose
    /\ IF focus = "sidecar" THEN SideNext ELSE UNCHANGED sideVars
    /\ IF focus = "triggers" THEN TriggersNext ELSE UNCHANGED triggerVars
    /\ IF focus = "voices" THEN VoicesNext ELSE UNCHANGED voiceVars
    /\ IF focus = "analyses" THEN AnalysesNext ELSE UNCHANGED analysisVars
    /\ IF focus = "bouquets" THEN BouquetsNext ELSE UNCHANGED bouquetVars
    /\ IF focus = "projects" THEN ProjectsNext ELSE UNCHANGED projectVars
    /\ HeatPart

DeskSpec == DeskInit /\ [][DeskNext]_deskVars

-----------------------------------------------------------------------------
(* What is measured of a text is of that text, or of one lately written:   *)
(* the rows of the heat map and the metrics of the sidecar's answers.      *)
ReadingsAreCurrent == HeatIsSound /\ AnalysesTypeOK /\ MetricsLagIsBounded

(* Who speaks, when and what: a raised sensitivity takes no trigger away,  *)
(* a present character is not passed over, a bouquet repeats none the      *)
(* writer has seen.                                                        *)
WhispersAreFair ==
    /\ [](TriggersTypeOK /\ VoicesTypeOK /\ BouquetsTypeOK /\ BouquetsAreNew)
    /\ SensitivityOnlyAdds
    /\ CharactersTakeTurns
=============================================================================
