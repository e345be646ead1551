----------------------- MODULE PillServiceProperties ------------------------
(***************************************************************************)
(* What the orchestrator service promises, stated over PillService.        *)
(***************************************************************************)
EXTENDS PillService

Moment == Nat \cup {Never}

PillInfo == [trigger: Trigger, mode: Mode, speaker: Speaker, at: Nat]

Attribution == [trigger: Trigger, mode: Mode, clicked: BOOLEAN]

(* Every variable holds a value of its type (OrchestratorService's fields, *)
(* the channels, the table and the history).                               *)
TypeOK ==
    /\ ChannelsTypeOK
    /\ clock \in Nat
    /\ scene \in Scene \cup {NoScene}
    /\ confirming \in [trigger: Trigger, mode: Mode] \cup {NoTick}
    /\ pills \in [Pill -> PillInfo \cup {Unminted}]
    /\ lastMint \in Moment
    /\ spoke \in [Speaker -> Moment]
    /\ attribution \in [Pill -> Attribution \cup {NoAttribution}]
    /\ thinking \in SUBSET Pill
    /\ rows \in [Trigger -> [Mode -> Nat]]
    /\ tuning \in [Trigger -> [Mode -> Nat]]
    /\ stale \in BOOLEAN
    /\ inherited \in [Trigger -> [Mode -> Nat]]
    /\ dbHeld \in BOOLEAN
    /\ sqlErrors \in Nat
    /\ ledger \in SUBSET Entry
    /\ skipped \in SUBSET Pill
    /\ forgotten \in SUBSET Pill

-----------------------------------------------------------------------------
(* Two pills are never minted closer together than MIN_PILL_INTERVAL_MS,   *)
(* whichever ticks, confirmations and scene updates come between.          *)
MintsAreSpaced ==
    \A p, q \in Minted :
        p # q => \/ pills[p].at - pills[q].at >= MinPillInterval
                 \/ pills[q].at - pills[p].at >= MinPillInterval

(* A speaker who spoke rests for its cooldown (route_with_chars never      *)
(* returns one that is still cooling down).                                *)
SpeakersRest ==
    \A p, q \in Minted :
        p # q /\ pills[p].speaker = pills[q].speaker =>
            \/ pills[p].at - pills[q].at >= Cooldown[pills[p].speaker]
            \/ pills[q].at - pills[p].at >= Cooldown[pills[p].speaker]

(* The learning table counts what earlier sessions left in it and exactly  *)
(* the rewards written since the last reset, each pill at most once: no    *)
(* outcome is counted twice although outcomes are reported again, late and *)
(* in any order.                                                           *)
TableCountsEachPillOnce ==
    /\ \A t \in Trigger, m \in Mode :
          rows[t][m] = inherited[t][m]
                         + Cardinality({e \in ledger : e.trigger = t /\ e.mode = m})
    /\ \A e, f \in ledger : e.pill = f.pill => e = f

(* A reward is attributed to the trigger and the writer mode of the moment *)
(* the pill was minted, not of the moment of the interaction.              *)
RewardsMatchTheMint ==
    \A e \in ledger :
        /\ pills[e.pill] # Unminted
        /\ pills[e.pill].trigger = e.trigger
        /\ pills[e.pill].mode = e.mode

(* After "reset trigger learning" no pill minted before it can write to    *)
(* the cleared table (on_reset_learning clears the attributions too).      *)
ResetForgets ==
    \A p \in forgotten :
        /\ attribution[p] = NoAttribution
        /\ \A e \in ledger : e.pill # p

(* The triggers' sensitivities are those of the table, the rows earlier    *)
(* sessions left included, unless the last load of a changed table failed: *)
(* the one at the start, which a held database makes fail too, or the one  *)
(* after a reward.  The next reward, or a reset, makes up for either.      *)
TuningFollowsTable == ~stale => tuning = rows

(* An attribution is settled once: it is opened by the mint alone, keeps   *)
(* its trigger and mode while open, never loses a click, and is not opened *)
(* again after a terminal outcome or a reset.                              *)
AttributionIsClosedOnce ==
    [][ \A p \in Pill :
            /\ pills[p] # Unminted /\ attribution[p] = NoAttribution
                  => attribution'[p] = NoAttribution
            /\ attribution[p] # NoAttribution /\ attribution'[p] # NoAttribution
                  => /\ attribution'[p].trigger = attribution[p].trigger
                     /\ attribution'[p].mode = attribution[p].mode
                     /\ attribution[p].clicked => attribution'[p].clicked
      ]_vars

(* Once the loop has ended nothing is minted and nothing is learned; only  *)
(* LLM tasks that were under way still speak.                              *)
ClosedProjectIsQuiet ==
    [][ ~running => UNCHANGED <<pills, rows, tuning, attribution>> ]_vars

(* A terminal outcome the window reports reaches the learning loop while   *)
(* the project stays open: neither a full channel nor a confirmation the   *)
(* loop is waiting for keeps a pill's attribution open for ever.           *)
TerminalOutcomesSettle ==
    \A p \in Pill :
        (\E s \in Signal \ {"click"} : Outcome(p, s) \in invoked)
            ~> (attribution[p] = NoAttribution \/ ~running)

(* Every minted pill is answered by one event, shutdown or not: the slot   *)
(* the mint reserved never stays silent for ever.                          *)
EveryPillIsAnswered ==
    \A p \in Pill :
        pills[p] # Unminted ~> (\E i \in DOMAIN bus : bus[i].pill = p)

(* No pill is announced twice, or before it is minted.                     *)
AnnouncedOnce ==
    /\ \A i, j \in DOMAIN bus : bus[i].pill = bus[j].pill => i = j
    /\ \A i \in DOMAIN bus : bus[i].pill \in Minted \ thinking

-----------------------------------------------------------------------------
(* Seen from the learning table, a pill is its attribution.                *)
CellOf(p) ==
    IF pills[p] = Unminted THEN Unminted
    ELSE IF attribution[p] = NoAttribution THEN NoAttribution
    ELSE [trigger |-> attribution[p].trigger, mode |-> attribution[p].mode]

Cells == [p \in Pill |-> CellOf(p)]

Ledger == INSTANCE PillLedger WITH
    Unborn <- Unminted, Settled <- NoAttribution,
    cell <- Cells, table <- rows

(* The service implements the ledger: whatever the window reports, a pill  *)
(* moves the cell it was minted for by at most one observation, once.      *)
KeepsTheLedger == Ledger!LedgerSpec

-----------------------------------------------------------------------------
(* Documented, and not what the code does.                                 *)

(* record_reward: "If contention hits, skip this tick; the writer's next   *)
(* outcome event will re-attempt."  A reward written after a skipped one   *)
(* would then come with, or after, the skipped one.                        *)
SkippedRewardIsReattempted ==
    [][ \A e \in ledger' \ ledger :
            \A p \in skipped : \E f \in ledger' : f.pill = p ]_vars
=============================================================================
