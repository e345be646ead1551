-------------------------------- MODULE Heat --------------------------------
(***************************************************************************)
(* The heatmap of the scenes: recompute_heat_local scores the paragraphs   *)
(* of every SceneState and spawns a task that writes the scores under the  *)
(* lock of the database, one transaction per metric (heat/compute.rs,      *)
(* heat/store.rs); the writer's choice of metrics is a file that every     *)
(* toggle reads and writes as a whole (commands/heat.rs); and the language *)
(* model's share of the metrics has a budget of its own (heat/budget.rs),  *)
(* which nothing in the application draws on yet.                          *)
(*                                                                         *)
(* Which names a paragraph mentions is given; pacing has no rows, since    *)
(* nothing writes the typing history it is scored from.  The tasks reach   *)
(* the lock in any order.                                                  *)
(***************************************************************************)
EXTENDS Integers, Sequences, FiniteSets, Positions

CONSTANTS Manuscript,   \* the scenes
          Passage,      \* the paragraphs that may stand in them
          Blank,        \* a paragraph of white space
          CastIn,       \* the characters each passage names
          PlacesIn,     \* the locations each passage names
          Person,       \* the characters of the registry
          MaxStates,    \* bound on the SceneStates
          InputCap, OutputCap, TopToken,   \* of the budget: u32
          ChargeOf      \* what the calls may cost: input, output

Metric == {"presence", "world_refs"}        \* and pacing, always empty
Toggle == {"pacing", "presence"}            \* the metrics the writer switches

ASSUME HeatAssumption ==
    /\ Blank \in Passage
    /\ IsFiniteSet(Person)
    /\ CastIn \in [Passage -> SUBSET Person]
    /\ \A p \in Passage : IsFiniteSet(PlacesIn[p])
    /\ CastIn[Blank] = {} /\ PlacesIn[Blank] = {}
    /\ MaxStates \in Nat
    /\ InputCap \in Nat /\ OutputCap \in Nat /\ TopToken \in Nat
    /\ InputCap < TopToken /\ OutputCap < TopToken
    /\ ChargeOf \subseteq (1..TopToken) \X (1..TopToken)

VARIABLES scored,       \* SceneStates so far
          task,         \* the spawned tasks that have not written yet
          heat,         \* the rows of heat_metric
          settings,     \* the settings file, as it was last written
          toggling,     \* toggles that have read it and not written it
          used,         \* the tokens charged
          sent,         \* history: what was scored, for each scene
          unwritten,    \* history: scenes of which a batch was lost
          wanted,       \* history: the choices of the writer that no failure took
          overlapped,   \* history: two toggles were under way at once
          granted       \* history: the tokens granted since the last reset

heatVars == <<scored, task, heat, settings, toggling, used, sent, unwritten, wanted,
              overlapped, granted>>
rowsOfHeat == <<scored, task, heat, sent, unwritten>>
toggles    == <<settings, toggling, wanted, overlapped>>
budget     == <<used, granted>>

-----------------------------------------------------------------------------
(* partition, and the scores: entities named, over the most in any of the  *)
(* paragraphs.                                                             *)
Partition(body) == Picked(body, {i \in DOMAIN body : body[i] # Blank})

MostOf(hits) == CHOOSE n \in {hits[i] : i \in DOMAIN hits} : \A i \in DOMAIN hits : hits[i] <= n
Scores(hits) ==
    IF hits = <<>> \/ MostOf(hits) = 0
    THEN [i \in DOMAIN hits |-> <<0, 1>>]
    ELSE [i \in DOMAIN hits |-> <<hits[i], MostOf(hits)>>]

Mentions(metric, passage, present) ==
    IF metric = "presence" THEN CastIn[passage] \cap present ELSE PlacesIn[passage]
Track(metric, body, present) ==
    Scores([i \in DOMAIN body |-> Cardinality(Mentions(metric, body[i], present))])

HeatRow(body, track) == [i \in DOMAIN body |-> [text |-> body[i], score |-> track[i]]]
Batches(body, present) == [m \in Metric |-> HeatRow(body, Track(m, body, present))]

DefaultMap == [t \in Toggle |-> "default"]
Legible == IF toggling = {} THEN {settings} ELSE {settings, DefaultMap}

TooManyPassages == 2     \* bound on the paragraphs of a scene
Body == UNION {[1..n -> Passage] : n \in 0..TooManyPassages}
HeatTask == [no : 1..MaxStates, scene : Manuscript, body : Body, present : SUBSET Person]

HeatTypeOK ==
    /\ scored \in 0..MaxStates
    /\ task \subseteq HeatTask
    /\ \A s \in Manuscript, m \in Metric : \A i \in DOMAIN heat[s][m] :
          heat[s][m][i].text \in Passage \ {Blank} /\ heat[s][m][i].score \in Nat \X (Nat \ {0})
    /\ settings \in [Toggle -> {"on", "off", "default"}]
    /\ \A t \in toggling : t.kind \in Toggle /\ t.to \in {"on", "off"}
    /\ used \in [input : 0..InputCap, output : 0..OutputCap]
    /\ unwritten \subseteq Manuscript /\ overlapped \in BOOLEAN

HeatInit ==
    /\ scored = 0 /\ task = {}
    /\ heat = [s \in Manuscript |-> [m \in Metric |-> <<>>]]
    /\ settings = DefaultMap /\ toggling = {}
    /\ used = [input |-> 0, output |-> 0] /\ granted = used
    /\ sent = [s \in Manuscript |-> {}]
    /\ unwritten = {}
    /\ wanted = settings /\ overlapped = FALSE

(* recompute_heat_local: an empty scene ends it, and its rows stay. *)
Recompute(s, text, present) ==
    LET body == Partition(text) IN
    /\ scored < MaxStates
    /\ scored' = scored + 1
    /\ IF body = <<>>
       THEN UNCHANGED <<task, sent>>
       ELSE /\ task' = task \cup {[no |-> scored + 1, scene |-> s, body |-> body,
                                   present |-> present]}
            /\ sent' = [sent EXCEPT ![s] = @ \cup {Batches(body, present)}]
    /\ UNCHANGED <<heat, unwritten, toggles, budget>>

(* write_batch: INSERT OR REPLACE, so that the rows of paragraphs the      *)
(* scene no longer has stay behind.                                        *)
Written(rows, batch) == batch \o SubSeq(rows, Len(batch) + 1, Len(rows))

TargetOldest(t) == (CHOOSE u \in task : \A v \in task : u.no <= v.no).scene
Target(t) == t.scene     \* the scene the task was spawned for

HeatAfter(t, landed) ==
    [heat EXCEPT ![Target(t)] =
        [m \in Metric |->
            IF m \in landed THEN Written(@[m], Batches(t.body, t.present)[m]) ELSE @[m]]]

WriteScores(t) ==
    /\ task' = task \ {t}
    /\ heat' = HeatAfter(t, Metric)
    /\ UNCHANGED <<scored, sent, unwritten, toggles, budget>>

(* An error of one batch is dropped, and so is what was still to be        *)
(* written when the process ends.                                          *)
WriteSomeScores(t, landed) ==
    /\ task' = task \ {t}
    /\ heat' = HeatAfter(t, landed)
    /\ unwritten' = unwritten \cup {t.scene}
    /\ UNCHANGED <<scored, sent, toggles, budget>>

HeatCrash ==
    /\ task # {} \/ toggling # {}
    /\ task' = {} /\ toggling' = {}
    /\ used' = [input |-> 0, output |-> 0] /\ granted' = used'
    /\ settings' \in Legible
    /\ wanted' = settings' /\ overlapped' = FALSE
    /\ UNCHANGED <<scored, heat, sent, unwritten>>

-----------------------------------------------------------------------------
(* heat_set_metric_enabled: the map is read, the kind set, the file        *)
(* written anew.  A file that is being written reads as the default map.   *)
ReadSettings(kind, to) ==
    /\ \A t \in toggling : t.kind # kind
    /\ \E map \in Legible :
          toggling' = toggling \cup {[kind |-> kind, to |-> to, map |-> map]}
    /\ overlapped' = (overlapped \/ toggling # {})
    /\ wanted' = [wanted EXCEPT ![kind] = to]
    /\ UNCHANGED <<rowsOfHeat, settings, budget>>

Inserted(t) == [t.map EXCEPT ![t.kind] = t.to]

WriteSettings(t) ==
    /\ settings' = Inserted(t)
    /\ toggling' = toggling \ {t}
    /\ UNCHANGED <<rowsOfHeat, budget, wanted, overlapped>>

(* A write that fails does so before the file is emptied or after; what it *)
(* emptied is lost to the writer, who goes on from what the file holds.    *)
WriteSettingsFails(t) ==
    /\ settings' \in {settings, DefaultMap}
    /\ wanted' = settings'
    /\ toggling' = toggling \ {t}
    /\ UNCHANGED <<rowsOfHeat, budget, overlapped>>

-----------------------------------------------------------------------------
(* LlmBudget: both sides must fit, and the sums saturate. *)
SaturatingAdd(a, b) == IF a + b > TopToken THEN TopToken ELSE a + b

Fits(input, output) ==
    /\ SaturatingAdd(used.input, input) <= InputCap
    /\ SaturatingAdd(used.output, output) <= OutputCap

Charge(input, output) ==
    /\ Fits(input, output)
    /\ used' = [input |-> SaturatingAdd(used.input, input),
                output |-> SaturatingAdd(used.output, output)]
    /\ granted' = [input |-> granted.input + input, output |-> granted.output + output]
    /\ UNCHANGED <<rowsOfHeat, toggles>>

Refuse(input, output) ==
    /\ ~Fits(input, output)
    /\ UNCHANGED heatVars

ResetBudget ==
    /\ used' = [input |-> 0, output |-> 0] /\ granted' = used'
    /\ UNCHANGED <<rowsOfHeat, toggles>>

ScoresNext ==
    \/ \E s \in Manuscript, text \in Body, present \in SUBSET Person : Recompute(s, text, present)
    \/ \E t \in task : WriteScores(t) \/ \E landed \in SUBSET Metric : WriteSomeScores(t, landed)

SettingsNext ==
    \/ \E kind \in Toggle, to \in {"on", "off"} : ReadSettings(kind, to)
    \/ \E t \in toggling : WriteSettings(t) \/ WriteSettingsFails(t)

BudgetNext ==
    \/ \E c \in ChargeOf : Charge(c[1], c[2]) \/ Refuse(c[1], c[2])
    \/ ResetBudget

HeatNext == ScoresNext \/ SettingsNext \/ BudgetNext \/ HeatCrash

HeatSpec == HeatInit /\ [][HeatNext]_heatVars

-----------------------------------------------------------------------------
(* Every row is one that was scored for its scene, at its place, with the  *)
(* other paragraphs of that moment, whichever scene is open when the task  *)
(* comes to write it.                                                      *)
HeatIsOfItsScene ==
    \A s \in Manuscript, m \in Metric : \A i \in DOMAIN heat[s][m] :
       \E b \in sent[s] : i \in DOMAIN b[m] /\ b[m][i] = heat[s][m][i]

(* The metrics of a scene speak of the same paragraphs, row by row, as     *)
(* long as no batch was lost: they are written under one lock, whatever    *)
(* the tasks overtake (recompute_heat_local).                              *)
MetricsAgree ==
    \A s \in Manuscript \ unwritten :
       /\ Len(heat[s]["presence"]) = Len(heat[s]["world_refs"])
       /\ \A i \in DOMAIN heat[s]["presence"] :
             heat[s]["presence"][i].text = heat[s]["world_refs"][i].text

(* Toggles that do not overlap keep each other's choices (read_settings_map*)
(* and the rewrite of the whole file), but for those that a write which    *)
(* failed, or a crash in the middle of one, took from the file: the        *)
(* choices that count are those made since.                                *)
TogglesAreKept == ~overlapped /\ toggling = {} => settings = wanted

(* Neither side of the budget is ever overdrawn by what was granted: no    *)
(* sum wraps round to make room, and a refusal takes from neither side     *)
(* (try_charge).                                                           *)
BudgetHolds == granted = used /\ granted.input <= InputCap /\ granted.output <= OutputCap

(* The heat map, its switches and its budget, whichever tasks overtake.    *)
HeatIsSound ==
    HeatTypeOK /\ HeatIsOfItsScene /\ MetricsAgree /\ TogglesAreKept /\ BudgetHolds
=============================================================================
