---------------------------- MODULE PillService -----------------------------
(***************************************************************************)
(* The orchestrator service of one open project (orchestrator_service.rs): *)
(* a loop that takes one request at a time from its inbox, decides when a  *)
(* pill is minted, and learns from what the writer does with it.           *)
(*                                                                         *)
(* One LLM task per minted pill runs outside the loop, as do the tasks and *)
(* commands that use the project's database.  The learning handlers only   *)
(* ever try the database lock, so whether somebody holds it decides        *)
(* whether a reward is written.                                            *)
(*                                                                         *)
(* Time is counted in abstract units; sensitivities (a moving average of   *)
(* rewards) are abstracted to the observation counters they are computed   *)
(* from, which is what makes a lost or a doubled reward visible.           *)
(***************************************************************************)
EXTENDS PillChannels

CONSTANTS
    Trigger,            \* ids of the built-in triggers
    TwoStage,           \* triggers whose candidate asks for a confirmation
    Speaker,            \* personas and characters of the project
    Cooldown,           \* [Speaker -> Nat]: Speaker::cooldown_ms
    MinPillInterval,    \* MIN_PILL_INTERVAL_MS
    Remembered,         \* tables earlier sessions may have left
    MaxTime,            \* bound: the clock of a behaviour
    MaxSqlErrors,       \* bound: statements that fail on the learning table
    NoScene, Never, Unminted, NoAttribution, NoTick     \* "absent" values

ASSUME ServiceAssumption ==
    /\ TwoStage \subseteq Trigger
    /\ Offered \subseteq Request
    /\ Cooldown \in [Speaker -> Nat]
    /\ Remembered \subseteq [Trigger -> [Mode -> Nat]]
    /\ {MinPillInterval, MaxTime, MaxSqlErrors} \subseteq Nat
    /\ NoScene \notin Scene
    /\ Never \notin Nat
    /\ Unminted \notin [trigger: Trigger, mode: Mode, speaker: Speaker, at: Nat]
    /\ NoAttribution \notin [trigger: Trigger, mode: Mode, clicked: BOOLEAN]
    /\ {NoTick, NoAttribution, Unminted} \cap [trigger: Trigger, mode: Mode] = {}
    /\ Unminted # NoAttribution

VARIABLES
    clock,
    scene,          \* the scene of the last SceneState request
    confirming,     \* the tick whose Stage-2 call the loop is awaiting
    pills,          \* what was minted: speaker, trigger, mode and time
    lastMint,       \* last_pill_emit_at
    spoke,          \* CooldownState::last_emit
    attribution,    \* per-pill bookkeeping of the learning loop
    thinking,       \* pills whose LLM task has not finished
    rows,           \* table trigger_feedback: observations per writer mode
    tuning,         \* the loop's snapshot of that table
    stale,          \* history: the table holds what no load brought in
    inherited,      \* history: the rows earlier sessions left
    dbHeld,         \* a task or a command holds the database lock
    sqlErrors,
    ledger,         \* history: the rewards the table holds, one by one
    skipped,        \* history: pills whose reward met a held database
    forgotten       \* history: pills minted before the last reset

learning == <<attribution, rows, tuning, stale, inherited, sqlErrors, ledger,
              skipped, forgotten>>
minting  == <<pills, lastMint, spoke, thinking>>
serviceVars == <<clock, scene, confirming, pills, lastMint, spoke, attribution,
                 thinking, rows, tuning, stale, inherited, dbHeld, sqlErrors,
                 ledger, skipped, forgotten>>
vars == <<channels, serviceVars>>

Minted == {p \in Pill : pills[p] # Unminted}

NoObservations == [t \in Trigger |-> [m \in Mode |-> 0]]

(* The outcomes the learning loop distinguishes (PillOutcome).             *)
PillOutcome == {"pin", "click", "dismiss", "evict"}

Entry == [pill: Pill, trigger: Trigger, mode: Mode, outcome: PillOutcome]

-----------------------------------------------------------------------------
(* The start tries the database once.  While somebody holds it, or when    *)
(* the load fails, the session starts with the default tuning, which is    *)
(* the one of an empty table.                                              *)
TuningPrimed ==
    \/ /\ ~dbHeld
       /\ tuning = rows
       /\ stale = FALSE
    \/ /\ tuning = NoObservations
       /\ stale = (rows # NoObservations)

ServiceInit ==
    /\ clock = 0
    /\ scene = NoScene
    /\ confirming = NoTick
    /\ pills = [p \in Pill |-> Unminted]
    /\ lastMint = Never
    /\ spoke = [s \in Speaker |-> Never]
    /\ attribution = [p \in Pill |-> NoAttribution]
    /\ thinking = {}
    /\ rows \in Remembered
    /\ inherited = rows
    /\ dbHeld \in BOOLEAN
    /\ TuningPrimed
    /\ sqlErrors = 0
    /\ ledger = {}
    /\ skipped = {}
    /\ forgotten = {}

(* The loop is awaiting rx.recv() and the next request is of kind k.       *)
Take(k) ==
    /\ running
    /\ confirming = NoTick
    /\ inbox # <<>>
    /\ Head(inbox).kind = k
    /\ inbox' = Tail(inbox)
    /\ UNCHANGED invoked

-----------------------------------------------------------------------------
(* Telemetry ticks.                                                        *)

(* Mutant: no global emission interval.                                    *)
GatesOpenAnyTime(tick) == tick.atBoundary /\ scene # NoScene

(* Gates 1 to 3 of on_telemetry: not in mid-sentence, a scene is loaded,   *)
(* and the last pill was minted at least the interval ago.                 *)
GatesOpen(tick) ==
    /\ tick.atBoundary
    /\ scene # NoScene
    /\ lastMint # Never => clock - lastMint >= MinPillInterval

(* Mutant: every speaker rests for the emission interval.                  *)
CooledDownTogether(s) == spoke[s] # Never => clock - spoke[s] >= MinPillInterval

(* The speakers route_with_chars may return.                               *)
CooledDown(s) == spoke[s] # Never => clock - spoke[s] >= Cooldown[s]

(* The tick mints nothing: a gate is shut, or no trigger fires, no router  *)
(* is configured, no speaker is free, or the prompt cannot be assembled.   *)
TickPasses ==
    /\ Take("telemetry")
    /\ UNCHANGED <<bus, running, serviceVars>>

(* The candidate asks for a Stage-2 confirmation: the loop awaits it and   *)
(* serves no other request meanwhile.                                      *)
TickAsks(t) ==
    LET tick == Head(inbox) IN
    /\ Take("telemetry")
    /\ GatesOpen(tick)
    /\ t \in TwoStage
    /\ confirming' = [trigger |-> t, mode |-> tick.mode]
    /\ UNCHANGED <<bus, running, clock, scene, minting, learning, dbHeld>>

(* Mutant: the writer's mode at the mint is not recorded.                  *)
OpenAttributionPouring(p, t, m) ==
    attribution' = [attribution EXCEPT ![p] =
                      [trigger |-> t, mode |-> "pour", clicked |-> FALSE]]

(* The bookkeeping that makes later outcomes of the pill attributable.     *)
OpenAttribution(p, t, m) ==
    attribution' = [attribution EXCEPT ![p] =
                      [trigger |-> t, mode |-> m, clicked |-> FALSE]]

(* A pill is minted: speaker cooldown, emission time and attribution are   *)
(* recorded before the LLM task starts.                                    *)
Mint(p, t, m, s) ==
    /\ pills[p] = Unminted
    /\ CooledDown(s)
    /\ pills' = [pills EXCEPT ![p] = [trigger |-> t, mode |-> m,
                                      speaker |-> s, at |-> clock]]
    /\ lastMint' = clock
    /\ spoke' = [spoke EXCEPT ![s] = clock]
    /\ OpenAttribution(p, t, m)
    /\ thinking' = thinking \cup {p}
    /\ UNCHANGED <<bus, running, clock, scene, rows, tuning, stale, inherited,
                   sqlErrors, ledger, skipped, forgotten, dbHeld>>

TickMints(p, t, s) ==
    LET tick == Head(inbox) IN
    /\ Take("telemetry")
    /\ GatesOpen(tick)
    /\ t \notin TwoStage
    /\ Mint(p, t, tick.mode, s)
    /\ UNCHANGED confirming

(* The confirmation arrives: anything but "yes", an error included, drops  *)
(* the candidate; so does a "yes" with no free speaker.                    *)
ConfirmationDrops ==
    /\ confirming # NoTick
    /\ confirming' = NoTick
    /\ UNCHANGED <<channels, clock, scene, minting, learning, dbHeld>>

ConfirmationMints(p, s) ==
    /\ confirming # NoTick
    /\ confirming' = NoTick
    /\ Mint(p, confirming.trigger, confirming.mode, s)
    /\ UNCHANGED <<invoked, inbox>>

(* The LLM task of a pill ends.  It is not tied to the loop and outlives   *)
(* it.                                                                     *)
Answer(p, k) ==
    /\ p \in thinking
    /\ thinking' = thinking \ {p}
    /\ Emit(k, p)
    /\ UNCHANGED <<invoked, inbox, running, clock, scene, confirming, pills,
                   lastMint, spoke, learning, dbHeld>>

(* The model answered, and the text passed every post-filter.              *)
PillSpeaks(p) == Answer(p, "emerged")

(* Mutant: the failure paths report the pill but do not end the task.      *)
PillFallsSilentAndGoesOn(p) ==
    /\ p \in thinking
    /\ Emit("dismissed", p)
    /\ UNCHANGED <<invoked, inbox, running, serviceVars>>

(* Mutant: the failure paths end the task and report nothing.              *)
PillFallsSilentUnreported(p) ==
    /\ p \in thinking
    /\ thinking' = thinking \ {p}
    /\ UNCHANGED <<channels, clock, scene, confirming, pills, lastMint, spoke,
                   learning, dbHeld>>

(* The call failed, the model said PASS, or a post-filter dropped the text.*)
PillFallsSilent(p) == Answer(p, "dismissed")

-----------------------------------------------------------------------------
(* Outcomes (on_outcome, record_reward).                                   *)

(* A clicked pill that is evicted counts as a click.                       *)
Resolve(signal, clicked) ==
    IF signal = "evict" /\ clicked THEN "click" ELSE signal

(* Mutant: every observation is booked as one of a pouring writer.         *)
ObservedPouring(t, m) == [rows EXCEPT ![t]["pour"] = @ + 1]

(* record_outcome: one more observation in the cell of trigger and mode.   *)
Observed(t, m) == [rows EXCEPT ![t][m] = @ + 1]

(* Mutant: the snapshot is not refreshed.                                  *)
KeepTuning == stale' = FALSE /\ UNCHANGED tuning

(* load_sensitivities: the next tick's triggers see the new sensitivity.   *)
ReloadTuning == tuning' = rows' /\ stale' = FALSE

(* One reward for pill p: the table is written and the snapshot reloaded   *)
(* from it, unless somebody holds the database or a statement fails.       *)
RecordReward(p, a, outcome) ==
    LET entry == [pill |-> p, trigger |-> a.trigger, mode |-> a.mode,
                  outcome |-> outcome]
    IN
    \/ /\ dbHeld
       /\ skipped' = skipped \cup {p}
       /\ UNCHANGED <<rows, tuning, stale, ledger, sqlErrors>>
    \/ /\ ~dbHeld
       /\ rows' = Observed(a.trigger, a.mode)
       /\ ledger' = ledger \cup {entry}
       /\ UNCHANGED skipped
       /\ \/ /\ ReloadTuning
             /\ UNCHANGED sqlErrors
          \/ /\ sqlErrors < MaxSqlErrors
             /\ sqlErrors' = sqlErrors + 1
             /\ stale' = TRUE
             /\ UNCHANGED tuning
    \/ /\ ~dbHeld
       /\ sqlErrors < MaxSqlErrors
       /\ sqlErrors' = sqlErrors + 1
       /\ UNCHANGED <<rows, tuning, stale, ledger, skipped>>

(* Click is not terminal: it only marks the attribution.                   *)
OutcomeClick ==
    LET p == Head(inbox).pill IN
    /\ Take("outcome")
    /\ Head(inbox).signal = "click"
    /\ attribution[p] # NoAttribution
    /\ attribution' = [attribution EXCEPT ![p].clicked = TRUE]
    /\ UNCHANGED <<bus, running, clock, scene, confirming, minting, dbHeld,
                   rows, tuning, stale, inherited, sqlErrors, ledger, skipped,
                   forgotten>>

(* Mutant: the attribution outlives a terminal outcome.                    *)
KeepAttribution(p) == UNCHANGED attribution

(* Mutant: the attribution is dropped only when the reward can be written. *)
CloseUnlessHeld(p) ==
    attribution' = IF dbHeld THEN attribution
                             ELSE [attribution EXCEPT ![p] = NoAttribution]

CloseAttribution(p) ==
    attribution' = [attribution EXCEPT ![p] = NoAttribution]

(* A terminal outcome drops the attribution, then records the reward.      *)
OutcomeTerminal ==
    LET r == Head(inbox)
        a == attribution[r.pill]
    IN
    /\ Take("outcome")
    /\ r.signal # "click"
    /\ a # NoAttribution
    /\ CloseAttribution(r.pill)
    /\ RecordReward(r.pill, a, Resolve(r.signal, a.clicked))
    /\ UNCHANGED <<bus, running, clock, scene, confirming, minting, dbHeld,
                   inherited, forgotten>>

(* An outcome for a pill with no attribution is ignored.                   *)
OutcomeUnknown ==
    /\ Take("outcome")
    /\ attribution[Head(inbox).pill] = NoAttribution
    /\ UNCHANGED <<bus, running, serviceVars>>

(* Mutant: pills already on screen keep their attribution.                 *)
KeepAttributions == UNCHANGED attribution

ClearAttributions == attribution' = [p \in Pill |-> NoAttribution]

(* on_reset_learning: empty the table, the snapshot and every attribution. *)
ResetLearning ==
    /\ Take("reset")
    /\ ~dbHeld
    /\ rows' = NoObservations
    /\ tuning' = NoObservations
    /\ stale' = FALSE
    /\ inherited' = NoObservations
    /\ ClearAttributions
    /\ ledger' = {}
    /\ skipped' = {}
    /\ forgotten' = Minted
    /\ UNCHANGED <<bus, running, clock, scene, confirming, minting, dbHeld,
                   sqlErrors>>

(* The database is held, or the DELETE fails: the request is given up.     *)
ResetGivenUp ==
    /\ Take("reset")
    /\ \/ /\ dbHeld
          /\ UNCHANGED sqlErrors
       \/ /\ ~dbHeld
          /\ sqlErrors < MaxSqlErrors
          /\ sqlErrors' = sqlErrors + 1
    /\ UNCHANGED <<bus, running, clock, scene, confirming, minting, dbHeld,
                   attribution, rows, tuning, stale, inherited, ledger, skipped,
                   forgotten>>

-----------------------------------------------------------------------------
(* Scene updates, the database, shutdown, time.                            *)

(* The scene, its project snapshot and its text are replaced; cooldowns    *)
(* and the emission interval carry over.                                   *)
SceneState ==
    /\ Take("scene")
    /\ scene' = Head(inbox).scene
    /\ UNCHANGED <<bus, running, clock, confirming, minting, learning, dbHeld>>

(* Whoever works on the project's database holds its lock meanwhile: the   *)
(* heat task a scene update spawns, a fan or polish task, a command.       *)
LockDatabase ==
    /\ ~dbHeld
    /\ dbHeld' = TRUE
    /\ UNCHANGED <<channels, clock, scene, confirming, minting, learning>>

UnlockDatabase ==
    /\ dbHeld
    /\ dbHeld' = FALSE
    /\ UNCHANGED <<channels, clock, scene, confirming, minting, learning>>

(* Mutant: the loop is aborted while a handler awaits.                     *)
ShutdownAborts ==
    /\ running
    /\ inbox # <<>>
    /\ Head(inbox).kind = "shutdown"
    /\ running' = FALSE
    /\ inbox' = <<>>
    /\ UNCHANGED <<invoked, bus, serviceVars>>

(* The loop ends; requests still queued are dropped with the receiver.     *)
Shutdown ==
    /\ running
    /\ confirming = NoTick
    /\ inbox # <<>>
    /\ Head(inbox).kind = "shutdown"
    /\ running' = FALSE
    /\ inbox' = <<>>
    /\ UNCHANGED <<invoked, bus, serviceVars>>

Elapse ==
    /\ clock < MaxTime
    /\ clock' = clock + 1
    /\ UNCHANGED <<channels, scene, confirming, minting, learning, dbHeld>>

-----------------------------------------------------------------------------
(* The loop serves a request or finishes the one it is serving.            *)
Serve ==
    \/ TickPasses
    \/ \E t \in Trigger : TickAsks(t)
    \/ \E p \in Pill, t \in Trigger, s \in Speaker : TickMints(p, t, s)
    \/ OutcomeClick
    \/ OutcomeTerminal
    \/ OutcomeUnknown
    \/ ResetLearning
    \/ ResetGivenUp
    \/ SceneState
    \/ Shutdown

Confirmed ==
    \/ ConfirmationDrops
    \/ \E p \in Pill, s \in Speaker : ConfirmationMints(p, s)

Answered(p) == PillSpeaks(p) \/ PillFallsSilent(p)

DeliverRequest(r) == Deliver(r) /\ UNCHANGED serviceVars

ServiceNext ==
    \/ \E r \in Offered : DeliverRequest(r)
    \/ Serve
    \/ Confirmed
    \/ \E p \in Pill : Answered(p)
    \/ LockDatabase
    \/ UnlockDatabase
    \/ Elapse

-----------------------------------------------------------------------------
(* The commands of the window, any of them at any time.                    *)
InvokeTelemetry ==
    /\ \E r \in TelemetryRequest : Invoke(r)
    /\ UNCHANGED serviceVars

InvokeSceneState ==
    /\ \E r \in SceneRequest : Invoke(r)
    /\ UNCHANGED serviceVars

InvokeReset ==
    /\ Invoke([kind |-> "reset"])
    /\ UNCHANGED serviceVars

CloseProject ==
    /\ Invoke([kind |-> "shutdown"])
    /\ UNCHANGED serviceVars

(* pill_expand, pill_pin, pill_dismiss and pill_evicted, for a pill the    *)
(* window was told of.                                                     *)
Emerged == {p \in Pill : \E i \in DOMAIN bus :
                            bus[i] = [kind |-> "emerged", pill |-> p]}

InvokeOutcome ==
    /\ \E p \in Emerged, s \in Signal : Invoke(Outcome(p, s))
    /\ UNCHANGED serviceVars

WindowCommands ==
    \/ InvokeTelemetry
    \/ InvokeSceneState
    \/ InvokeReset
    \/ CloseProject
    \/ InvokeOutcome

-----------------------------------------------------------------------------
(* The service with any window: every command may be invoked at any time   *)
(* and the events are never taken off the bus.                             *)
Init == ChannelsInit /\ ServiceInit

Next == ServiceNext \/ WindowCommands

Spec == Init /\ [][Next]_vars

(* The runtime polls every task; the channel admits waiting senders in     *)
(* turn; every provider call has a timeout, so the confirmation and the    *)
(* LLM tasks end; nobody keeps the database.  The window owes nothing.     *)
Fairness ==
    /\ \A r \in Offered : SF_vars(DeliverRequest(r))
    /\ WF_vars(Serve)
    /\ WF_vars(Confirmed)
    /\ \A p \in Pill : WF_vars(Answered(p))
    /\ WF_vars(UnlockDatabase)

FairSpec == Spec /\ Fairness
=============================================================================
