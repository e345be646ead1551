------------------------- MODULE PillService_proofs -------------------------
(***************************************************************************)
(* Theorems about the orchestrator service, for any number of pills,       *)
(* scenes, triggers and speakers, any interval and cooldowns, and channels *)
(* of any depth.  First what the loop does to the pills, then what it      *)
(* learns: an outcome is counted at most once, for the trigger and the     *)
(* mode of the mint, and never after a reset.                              *)
(***************************************************************************)
EXTENDS PillServiceProperties, FiniteSetTheorems, TLAPS

(* The empty sequence is a sequence over any set.                          *)
LEMMA EmptySeq == ASSUME NEW S PROVE <<>> \in Seq(S)
  OBVIOUS

(* Taking a request off the channel leaves a channel of requests, and what *)
(* was taken is a request of one of the four shapes (rx.recv()).           *)
LEMMA TakeType ==
  ASSUME TypeOK, NEW k, Take(k)
  PROVE  /\ Head(inbox) \in Request
         /\ inbox' \in Seq(Request)
         /\ Len(inbox') <= InboxCap
         /\ invoked' \in SUBSET Request
         /\ k = "telemetry" => Head(inbox) \in TelemetryRequest
         /\ k = "scene" => Head(inbox) \in SceneRequest
         /\ k = "outcome" => Head(inbox) \in OutcomeRequest
<1>1. /\ inbox \in Seq(Request) /\ Len(inbox) <= InboxCap
      /\ invoked \in SUBSET Request /\ invoked' = invoked
      /\ inbox # <<>> /\ Head(inbox).kind = k /\ inbox' = Tail(inbox)
  BY DEF TypeOK, ChannelsTypeOK, Take
<1>2. /\ Head(inbox) \in Request
      /\ Tail(inbox) \in Seq(Request)
      /\ Len(Tail(inbox)) <= InboxCap
  BY <1>1, InboxCapAssumption
<1>3. /\ k = "telemetry" => Head(inbox) \in TelemetryRequest
      /\ k = "scene" => Head(inbox) \in SceneRequest
      /\ k = "outcome" => Head(inbox) \in OutcomeRequest
  BY <1>1, <1>2 DEF Request, TelemetryRequest, SceneRequest, OutcomeRequest,
                    PlainRequest
<1> QED  BY <1>1, <1>2, <1>3

(* A mint fills the bookkeeping with values of its type.                   *)
LEMMA MintType ==
  ASSUME TypeOK, NEW p \in Pill, NEW t \in Trigger, NEW m \in Mode,
         NEW s \in Speaker, Mint(p, t, m, s)
  PROVE  /\ pills' \in [Pill -> PillInfo \cup {Unminted}]
         /\ lastMint' \in Moment
         /\ spoke' \in [Speaker -> Moment]
         /\ attribution' \in [Pill -> Attribution \cup {NoAttribution}]
         /\ thinking' \in SUBSET Pill
<1>1. [trigger |-> t, mode |-> m, speaker |-> s, at |-> clock] \in PillInfo
  BY DEF TypeOK, PillInfo
<1>2. [trigger |-> t, mode |-> m, clicked |-> FALSE] \in Attribution
  BY DEF Attribution
<1>3. clock \in Moment
  BY DEF TypeOK, Moment
<1> QED  BY <1>1, <1>2, <1>3 DEF TypeOK, Mint, OpenAttribution

(* A reward leaves the table, its snapshot and the history well typed.     *)
LEMMA RewardType ==
  ASSUME TypeOK, NEW p \in Pill, NEW a \in Attribution,
         NEW o \in PillOutcome, RecordReward(p, a, o)
  PROVE  /\ rows' \in [Trigger -> [Mode -> Nat]]
         /\ tuning' \in [Trigger -> [Mode -> Nat]]
         /\ stale' \in BOOLEAN
         /\ ledger' \in SUBSET Entry
         /\ sqlErrors' \in Nat
         /\ skipped' \in SUBSET Pill
<1>1. /\ a.trigger \in Trigger /\ a.mode \in Mode
      /\ [pill |-> p, trigger |-> a.trigger, mode |-> a.mode, outcome |-> o]
            \in Entry
  BY DEF Attribution, Entry
<1>2. skipped' \in SUBSET Pill
  BY DEF RecordReward, TypeOK
<1>3. Observed(a.trigger, a.mode) \in [Trigger -> [Mode -> Nat]]
  BY <1>1 DEF TypeOK, Observed
<1>4. CASE dbHeld
  BY <1>2, <1>4 DEF RecordReward, TypeOK
<1>5. CASE ~dbHeld /\ rows' = Observed(a.trigger, a.mode)
  <2>1. /\ rows' \in [Trigger -> [Mode -> Nat]]
        /\ tuning' \in [Trigger -> [Mode -> Nat]]
        /\ stale' \in BOOLEAN
        /\ sqlErrors' \in Nat
    <3>1. stale' \in BOOLEAN
      BY DEF RecordReward, ReloadTuning, TypeOK
    <3> QED  BY <1>3, <1>5, <3>1 DEF RecordReward, ReloadTuning, TypeOK
  <2>2. ledger' \in SUBSET Entry
    BY <1>1, <1>5 DEF RecordReward, TypeOK
  <2> QED  BY <1>2, <2>1, <2>2
<1>6. CASE ~dbHeld /\ rows' = rows
  <2>1. /\ rows' \in [Trigger -> [Mode -> Nat]]
        /\ tuning' \in [Trigger -> [Mode -> Nat]]
        /\ stale' \in BOOLEAN
        /\ sqlErrors' \in Nat
    <3>1. stale' \in BOOLEAN
      BY DEF RecordReward, ReloadTuning, TypeOK
    <3> QED  BY <1>6, <3>1 DEF RecordReward, ReloadTuning, TypeOK
  <2>2. ledger' \in SUBSET Entry
    BY <1>1, <1>6 DEF RecordReward, TypeOK
  <2> QED  BY <1>2, <2>1, <2>2
<1> QED  BY <1>4, <1>5, <1>6 DEF RecordReward

(* Every step of the service or of its window leaves it well typed.        *)
LEMMA TypeStep == TypeOK /\ [Next]_vars => TypeOK'
<1> SUFFICES ASSUME TypeOK, [Next]_vars PROVE TypeOK'
  OBVIOUS
<1>1. CASE UNCHANGED vars
  BY <1>1 DEF TypeOK, ChannelsTypeOK, vars, channels, serviceVars
<1>2. ASSUME NEW r \in Offered, DeliverRequest(r) PROVE TypeOK'
  <2>1. r \in Request /\ invoked' \in SUBSET Request
    BY <1>2 DEF DeliverRequest, Deliver, TypeOK, ChannelsTypeOK
  <2>2. inbox' \in Seq(Request) /\ Len(inbox') <= InboxCap
    <3>1. CASE inbox' = inbox
      BY <3>1 DEF TypeOK, ChannelsTypeOK
    <3>2. CASE Len(inbox) < InboxCap /\ inbox' = Append(inbox, r)
      BY <2>1, <3>2, InboxCapAssumption DEF TypeOK, ChannelsTypeOK
    <3> QED  BY <1>2, <3>1, <3>2 DEF DeliverRequest, Deliver
  <2> QED  BY <1>2, <2>1, <2>2
           DEF TypeOK, ChannelsTypeOK, DeliverRequest, Deliver, serviceVars
<1>3. CASE TickPasses
  BY <1>3, TakeType DEF TickPasses, TypeOK, ChannelsTypeOK, serviceVars
<1>4. ASSUME NEW t \in Trigger, TickAsks(t) PROVE TypeOK'
  <2>1. confirming' \in [trigger: Trigger, mode: Mode]
    BY <1>4, TakeType DEF TickAsks, TelemetryRequest
  <2> QED  BY <1>4, <2>1, TakeType
           DEF TickAsks, TypeOK, ChannelsTypeOK, minting, learning
<1>5. ASSUME NEW p \in Pill, NEW t \in Trigger, NEW s \in Speaker,
             TickMints(p, t, s)
      PROVE  TypeOK'
  <2>1. Head(inbox).mode \in Mode
    BY <1>5, TakeType DEF TickMints, TelemetryRequest
  <2>2. Mint(p, t, Head(inbox).mode, s) /\ UNCHANGED confirming
    BY <1>5 DEF TickMints
  <2> QED  BY <1>5, <2>1, <2>2, TakeType, MintType
           DEF TickMints, Mint, TypeOK, ChannelsTypeOK
<1>6. CASE OutcomeClick
  <2>1. Head(inbox).pill \in Pill
    BY <1>6, TakeType DEF OutcomeClick, OutcomeRequest
  <2>2. attribution' \in [Pill -> Attribution \cup {NoAttribution}]
    BY <1>6, <2>1 DEF OutcomeClick, TypeOK, Attribution
  <2> QED  BY <1>6, <2>2, TakeType
           DEF OutcomeClick, TypeOK, ChannelsTypeOK, minting
<1>7. CASE OutcomeTerminal
  <2> DEFINE p == Head(inbox).pill
             a == attribution[p]
             o == Resolve(Head(inbox).signal, a.clicked)
  <2>1. /\ p \in Pill /\ Head(inbox).signal \in Signal
        /\ Head(inbox).signal # "click"
    BY <1>7, TakeType DEF OutcomeTerminal, OutcomeRequest
  <2>2. a \in Attribution
    BY <1>7, <2>1 DEF OutcomeTerminal, TypeOK
  <2>3. o \in PillOutcome
    BY <2>1 DEF Resolve, Signal, PillOutcome
  <2>4. RecordReward(p, a, o)
    BY <1>7 DEF OutcomeTerminal
  <2>5. attribution' \in [Pill -> Attribution \cup {NoAttribution}]
    BY <1>7, <2>1 DEF OutcomeTerminal, CloseAttribution, TypeOK
  <2> HIDE DEF p, a, o
  <2> QED  BY <1>7, <2>1, <2>2, <2>3, <2>4, <2>5, TakeType, RewardType
           DEF OutcomeTerminal, TypeOK, ChannelsTypeOK, minting
<1>8. CASE OutcomeUnknown
  BY <1>8, TakeType DEF OutcomeUnknown, TypeOK, ChannelsTypeOK, serviceVars
<1>9. CASE ResetLearning
  <2>1. forgotten' \in SUBSET Pill /\ NoObservations \in [Trigger -> [Mode -> Nat]]
    BY <1>9 DEF ResetLearning, Minted, NoObservations
  <2> QED  BY <1>9, <2>1, TakeType
           DEF ResetLearning, ClearAttributions, TypeOK, ChannelsTypeOK, minting
<1>10. CASE ResetGivenUp
  BY <1>10, TakeType DEF ResetGivenUp, TypeOK, ChannelsTypeOK, minting
<1>11. CASE SceneState
  <2>1. Head(inbox).scene \in Scene
    BY <1>11, TakeType DEF SceneState, SceneRequest
  <2> QED  BY <1>11, <2>1, TakeType
           DEF SceneState, TypeOK, ChannelsTypeOK, minting, learning
<1>12. CASE Shutdown
  <2>1. inbox' \in Seq(Request) /\ Len(inbox') <= InboxCap
    BY <1>12, InboxCapAssumption, EmptySeq DEF Shutdown
  <2> QED  BY <1>12, <2>1
  DEF Shutdown, TypeOK, ChannelsTypeOK, serviceVars
<1>13. CASE ConfirmationDrops
  BY <1>13 DEF ConfirmationDrops, TypeOK, ChannelsTypeOK, channels, minting,
               learning
<1>14. ASSUME NEW p \in Pill, NEW s \in Speaker, ConfirmationMints(p, s)
       PROVE  TypeOK'
  <2>1. confirming.trigger \in Trigger /\ confirming.mode \in Mode
    BY <1>14 DEF ConfirmationMints, TypeOK
  <2>2. Mint(p, confirming.trigger, confirming.mode, s)
    BY <1>14 DEF ConfirmationMints
  <2> QED  BY <1>14, <2>1, <2>2, MintType
           DEF ConfirmationMints, Mint, TypeOK, ChannelsTypeOK
<1>15. ASSUME NEW p \in Pill, NEW k \in {"emerged", "dismissed"}, Answer(p, k)
       PROVE  TypeOK'
  <2>1. bus' \in Seq(Event)
    <3>1. [kind |-> k, pill |-> p] \in Event
      BY DEF Event
    <3> QED  BY <1>15, <3>1 DEF Answer, Emit, TypeOK, ChannelsTypeOK
  <2> QED  BY <1>15, <2>1 DEF Answer, TypeOK, ChannelsTypeOK, learning
<1>16. CASE LockDatabase \/ UnlockDatabase
  BY <1>16 DEF LockDatabase, UnlockDatabase, TypeOK, ChannelsTypeOK, channels,
               minting, learning
<1>17. CASE Elapse
  BY <1>17 DEF Elapse, TypeOK, ChannelsTypeOK, channels, minting, learning
<1>18. CASE WindowCommands
  BY <1>18, ServiceAssumption
  DEF WindowCommands, InvokeTelemetry, InvokeSceneState, InvokeReset,
      CloseProject, InvokeOutcome, Invoke, TypeOK, ChannelsTypeOK, serviceVars
<1> QED
  BY <1>1, <1>2, <1>3, <1>4, <1>5, <1>6, <1>7, <1>8, <1>9, <1>10, <1>11,
     <1>12, <1>13, <1>14, <1>15, <1>16, <1>17, <1>18
  DEF Next, ServiceNext, Serve, Confirmed, Answered, PillSpeaks,
      PillFallsSilent

(* The service starts well typed.                                          *)
LEMMA InitType == Init => TypeOK
<1> SUFFICES ASSUME Init PROVE TypeOK
  OBVIOUS
<1>1. ChannelsTypeOK
  <2>1. Len(<<>>) <= InboxCap
    BY InboxCapAssumption
  <2> QED  BY <2>1, EmptySeq DEF Init, ChannelsInit, ChannelsTypeOK
<1>2. /\ rows \in [Trigger -> [Mode -> Nat]]
      /\ NoObservations \in [Trigger -> [Mode -> Nat]]
  BY ServiceAssumption DEF Init, ServiceInit, NoObservations
<1>3. tuning \in [Trigger -> [Mode -> Nat]] /\ stale \in BOOLEAN
  BY <1>2 DEF Init, ServiceInit, TuningPrimed
<1> QED  BY <1>1, <1>2, <1>3
         DEF Init, ServiceInit, TypeOK, Moment

(* Every reachable state is well typed: the fields of the service, the     *)
(* channels around it, the learning table and its history.                 *)
THEOREM TypeCorrect == Spec => []TypeOK
BY InitType, TypeStep, PTL DEF Spec

-----------------------------------------------------------------------------
(* Why mints are spaced although the decision to mint is taken before a    *)
(* confirmation is awaited: the last mint bounds every mint, and while the *)
(* loop awaits, nothing is minted and the time since the last mint only    *)
(* grows.  The same argument, speaker by speaker, gives the cooldowns.     *)
LastMintIsLatest ==
    /\ lastMint # Never => lastMint <= clock
    /\ \A p \in Minted : lastMint # Never /\ pills[p].at <= lastMint

GatesStayOpen ==
    confirming # NoTick =>
        (lastMint # Never => clock - lastMint >= MinPillInterval)

SpokeIsLatest ==
    /\ \A s \in Speaker : spoke[s] # Never => spoke[s] <= clock
    /\ \A p \in Minted : /\ spoke[pills[p].speaker] # Never
                          /\ pills[p].at <= spoke[pills[p].speaker]

SpacingInv ==
    /\ LastMintIsLatest
    /\ GatesStayOpen
    /\ SpokeIsLatest
    /\ MintsAreSpaced
    /\ SpeakersRest

(* A mint that the gates allow keeps the spacing.                          *)
LEMMA MintSpacing ==
  ASSUME TypeOK, SpacingInv,
         NEW p \in Pill, NEW t \in Trigger, NEW m \in Mode, NEW s \in Speaker,
         Mint(p, t, m, s),
         lastMint # Never => clock - lastMint >= MinPillInterval,
         confirming' = NoTick
  PROVE  SpacingInv'
<1> DEFINE new == [trigger |-> t, mode |-> m, speaker |-> s, at |-> clock]
<1>1. /\ clock \in Nat /\ clock' = clock
      /\ MinPillInterval \in Nat /\ Cooldown \in [Speaker -> Nat]
      /\ Never \notin Nat /\ lastMint \in Moment /\ spoke \in [Speaker -> Moment]
  BY ServiceAssumption DEF TypeOK, Mint
<1>2. /\ pills[p] = Unminted
      /\ pills' = [pills EXCEPT ![p] = new]
      /\ lastMint' = clock
      /\ spoke' = [spoke EXCEPT ![s] = clock]
      /\ spoke[s] # Never => clock - spoke[s] >= Cooldown[s]
  BY DEF Mint, CooledDown
<1>3. pills \in [Pill -> PillInfo \cup {Unminted}]
  BY DEF TypeOK
<1> new # Unminted
  BY <1>1, ServiceAssumption
<1>4. /\ Minted' = Minted \cup {p} /\ p \notin Minted
      /\ pills'[p] = new
      /\ \A q \in Minted : pills'[q] = pills[q] /\ pills[q] \in PillInfo
  BY <1>1, <1>2, <1>3 DEF Minted
<1>5. \A q \in Minted : /\ pills[q].at \in Nat /\ pills[q].speaker \in Speaker
                         /\ pills[q].at <= clock
  BY <1>1, <1>4 DEF PillInfo, SpacingInv, LastMintIsLatest, Moment
<1>6. \A q \in Minted : clock - pills[q].at >= MinPillInterval
  BY <1>1, <1>5 DEF SpacingInv, LastMintIsLatest, Moment
<1>7. \A q \in Minted : pills[q].speaker = s => clock - pills[q].at >= Cooldown[s]
  BY <1>1, <1>2, <1>5 DEF SpacingInv, SpokeIsLatest, Moment
<1>8. new.at = clock /\ new.speaker = s
  OBVIOUS
<1> HIDE DEF new
<1>9. LastMintIsLatest'
  BY <1>1, <1>2, <1>4, <1>5, <1>8 DEF LastMintIsLatest
<1>10. GatesStayOpen'
  BY DEF GatesStayOpen
<1>11. SpokeIsLatest'
  <2>1. \A z \in Speaker : spoke'[z] = IF z = s THEN clock ELSE spoke[z]
    BY <1>1, <1>2
  <2>2. \A z \in Speaker : spoke'[z] # Never => spoke'[z] <= clock'
    BY <1>1, <2>1 DEF SpacingInv, SpokeIsLatest
  <2>3. \A q \in Minted' : /\ spoke'[pills'[q].speaker] # Never
                           /\ pills'[q].at <= spoke'[pills'[q].speaker]
    BY <1>1, <1>4, <1>5, <1>8, <2>1 DEF SpacingInv, SpokeIsLatest
  <2> QED  BY <2>2, <2>3 DEF SpokeIsLatest
<1>12. MintsAreSpaced'
  BY <1>4, <1>6, <1>8 DEF SpacingInv, MintsAreSpaced
<1>13. SpeakersRest'
  BY <1>4, <1>7, <1>8 DEF SpacingInv, SpeakersRest
<1> QED  BY <1>9, <1>10, <1>11, <1>12, <1>13 DEF SpacingInv

(* The invariant holds at first and every step keeps it.                   *)
LEMMA SpacingInductive == Spec => []SpacingInv
<1>1. Init => SpacingInv
  BY DEF Init, ServiceInit, SpacingInv, LastMintIsLatest, GatesStayOpen,
         SpokeIsLatest, MintsAreSpaced, SpeakersRest, Minted
<1>2. TypeOK /\ SpacingInv /\ [Next]_vars => SpacingInv'
  <2> SUFFICES ASSUME TypeOK, SpacingInv, [Next]_vars PROVE SpacingInv'
    OBVIOUS
  <2> USE DEF SpacingInv, LastMintIsLatest, GatesStayOpen, SpokeIsLatest,
              MintsAreSpaced, SpeakersRest, Minted
  <2>1. ASSUME UNCHANGED <<clock, pills, lastMint, spoke>>,
               confirming' \in {NoTick, confirming}
        PROVE  SpacingInv'
    BY <2>1
  <2>2. CASE UNCHANGED vars
    BY <2>1, <2>2 DEF vars, serviceVars
  <2>3. ASSUME NEW t \in Trigger, TickAsks(t) PROVE SpacingInv'
    BY <2>3 DEF TickAsks, GatesOpen, minting
  <2>4. ASSUME NEW p \in Pill, NEW t \in Trigger, NEW s \in Speaker,
               TickMints(p, t, s)
        PROVE  SpacingInv'
    <3>1. Head(inbox).mode \in Mode
      BY <2>4, TakeType DEF TickMints, TelemetryRequest
    <3>2. /\ Mint(p, t, Head(inbox).mode, s)
          /\ lastMint # Never => clock - lastMint >= MinPillInterval
          /\ confirming' = NoTick
      BY <2>4 DEF TickMints, GatesOpen, Take
    <3> QED  BY <3>1, <3>2, MintSpacing
  <2>5. ASSUME NEW p \in Pill, NEW s \in Speaker, ConfirmationMints(p, s)
        PROVE  SpacingInv'
    <3> DEFINE t == confirming.trigger
               m == confirming.mode
    <3>1. t \in Trigger /\ m \in Mode
      BY <2>5 DEF ConfirmationMints, TypeOK
    <3>2. /\ Mint(p, t, m, s)
          /\ lastMint # Never => clock - lastMint >= MinPillInterval
          /\ confirming' = NoTick
      BY <2>5 DEF ConfirmationMints
    <3> HIDE DEF t, m, SpacingInv
    <3> QED  BY <3>1, <3>2, MintSpacing
  <2>6. CASE Elapse
    <3>1. /\ clock \in Nat /\ clock' = clock + 1
          /\ UNCHANGED <<pills, lastMint, spoke, confirming>>
          /\ MinPillInterval \in Nat /\ lastMint \in Moment
          /\ spoke \in [Speaker -> Moment]
      BY <2>6, ServiceAssumption DEF Elapse, minting, TypeOK
    <3>2. LastMintIsLatest'
      BY <3>1 DEF Moment
    <3>3. GatesStayOpen'
      BY <3>1 DEF Moment
    <3>4. SpokeIsLatest'
      BY <3>1 DEF Moment
    <3>5. MintsAreSpaced' /\ SpeakersRest'
      BY <3>1
    <3> QED  BY <3>2, <3>3, <3>4, <3>5
  <2>7. CASE \E r \in Offered : DeliverRequest(r)
    BY <2>1, <2>7 DEF DeliverRequest, serviceVars
  <2>8. CASE \/ TickPasses \/ OutcomeClick \/ OutcomeTerminal \/ OutcomeUnknown
             \/ ResetLearning \/ ResetGivenUp \/ SceneState \/ Shutdown
    BY <2>1, <2>8
    DEF TickPasses, OutcomeClick, OutcomeTerminal, OutcomeUnknown,
        ResetLearning, ResetGivenUp, SceneState, Shutdown, minting, serviceVars
  <2>9. CASE ConfirmationDrops
    BY <2>1, <2>9 DEF ConfirmationDrops, minting
  <2>10. CASE \E p \in Pill : Answered(p)
    BY <2>1, <2>10 DEF Answered, PillSpeaks, PillFallsSilent, Answer
  <2>11. CASE LockDatabase \/ UnlockDatabase
    BY <2>1, <2>11 DEF LockDatabase, UnlockDatabase, minting
  <2>12. CASE WindowCommands
    BY <2>1, <2>12
    DEF WindowCommands, InvokeTelemetry, InvokeSceneState, InvokeReset,
        CloseProject, InvokeOutcome, serviceVars
  <2> QED
    BY <2>2, <2>3, <2>4, <2>5, <2>6, <2>7, <2>8, <2>9, <2>10, <2>11, <2>12
    DEF Next, ServiceNext, Serve, Confirmed
<1> QED  BY <1>1, <1>2, TypeCorrect, PTL DEF Spec

(* MIN_PILL_INTERVAL_MS separates any two mints of any behaviour.          *)
THEOREM PillsAreSpaced == Spec => []MintsAreSpaced
<1>1. SpacingInv => MintsAreSpaced
  BY DEF SpacingInv
<1> QED  BY <1>1, SpacingInductive, PTL

(* A speaker's own cooldown separates any two of its pills.                *)
THEOREM SpeakersAreRested == Spec => []SpeakersRest
<1>1. SpacingInv => SpeakersRest
  BY DEF SpacingInv
<1> QED  BY <1>1, SpacingInductive, PTL

-----------------------------------------------------------------------------
(* The rewards of the table for one trigger and one mode.                  *)
Counted(t, m) == {e \in ledger : e.trigger = t /\ e.mode = m}

(* A pill is unminted, then attributed, then at most once in the table;    *)
(* a reset takes every minted pill out of this cycle.                      *)
OpenAttributionsAreNew ==
    \A p \in Pill : attribution[p] # NoAttribution =>
        /\ p \in Minted \ forgotten
        /\ attribution[p].trigger = pills[p].trigger
        /\ attribution[p].mode = pills[p].mode
        /\ \A e \in ledger : e.pill # p

LedgerIsOfTheMinted ==
    \A e \in ledger :
        /\ e.pill \in Minted \ forgotten
        /\ pills[e.pill].trigger = e.trigger
        /\ pills[e.pill].mode = e.mode

LearningInv ==
    /\ OpenAttributionsAreNew
    /\ LedgerIsOfTheMinted
    /\ forgotten \subseteq Minted
    /\ IsFiniteSet(ledger)
    /\ TableCountsEachPillOnce

(* A step of the minting side that opens attributions only for pills it    *)
(* mints keeps the invariant.                                              *)
LEMMA MintLearning ==
  ASSUME TypeOK, LearningInv,
         NEW p \in Pill, NEW t \in Trigger, NEW m \in Mode, NEW s \in Speaker,
         Mint(p, t, m, s)
  PROVE  LearningInv'
<1> DEFINE new == [trigger |-> t, mode |-> m, speaker |-> s, at |-> clock]
           a == [trigger |-> t, mode |-> m, clicked |-> FALSE]
<1>1. /\ pills[p] = Unminted /\ pills' = [pills EXCEPT ![p] = new]
      /\ attribution' = [attribution EXCEPT ![p] = a]
      /\ UNCHANGED <<rows, inherited, ledger, forgotten>>
  BY DEF Mint, OpenAttribution
<1>2. /\ pills \in [Pill -> PillInfo \cup {Unminted}]
      /\ attribution \in [Pill -> Attribution \cup {NoAttribution}]
      /\ ledger \subseteq Entry /\ new \in PillInfo
  BY DEF TypeOK, PillInfo
<1>3. new # Unminted
  BY <1>2, ServiceAssumption DEF PillInfo
<1>4. /\ new.trigger = a.trigger /\ new.mode = a.mode
  OBVIOUS
<1> HIDE DEF new, a
<1>5. /\ Minted' = Minted \cup {p} /\ p \notin Minted
      /\ pills'[p] = new /\ attribution'[p] = a
      /\ \A q \in Pill : q # p => pills'[q] = pills[q] /\ attribution'[q] = attribution[q]
  BY <1>1, <1>2, <1>3 DEF Minted
<1>6. p \notin forgotten /\ \A e \in ledger : e.pill # p
  BY <1>5 DEF LearningInv, LedgerIsOfTheMinted
<1>7. OpenAttributionsAreNew'
  BY <1>1, <1>4, <1>5, <1>6 DEF LearningInv, OpenAttributionsAreNew
<1>8. LedgerIsOfTheMinted'
  BY <1>1, <1>2, <1>5, <1>6 DEF LearningInv, LedgerIsOfTheMinted, Minted
<1>9. /\ (forgotten \subseteq Minted)' /\ IsFiniteSet(ledger)'
      /\ TableCountsEachPillOnce'
  BY <1>1, <1>5 DEF LearningInv, TableCountsEachPillOnce
<1> QED  BY <1>7, <1>8, <1>9 DEF LearningInv

(* A terminal outcome of an attributed pill keeps it: at most one entry is *)
(* added, for a pill the table does not know yet.                          *)
LEMMA OutcomeLearning ==
  ASSUME TypeOK, LearningInv, OutcomeTerminal
  PROVE  LearningInv'
<1> DEFINE p == Head(inbox).pill
           a == attribution[p]
           o == Resolve(Head(inbox).signal, a.clicked)
           entry == [pill |-> p, trigger |-> a.trigger, mode |-> a.mode,
                     outcome |-> o]
<1>1. p \in Pill
  BY TakeType DEF OutcomeTerminal, OutcomeRequest
<1>2. /\ a # NoAttribution /\ CloseAttribution(p) /\ RecordReward(p, a, o)
      /\ UNCHANGED <<pills, inherited, forgotten>>
  BY DEF OutcomeTerminal, minting
<1>3. /\ attribution \in [Pill -> Attribution \cup {NoAttribution}]
      /\ rows \in [Trigger -> [Mode -> Nat]]
      /\ inherited \in [Trigger -> [Mode -> Nat]]
      /\ a \in Attribution /\ a.trigger \in Trigger /\ a.mode \in Mode
  BY <1>1, <1>2 DEF TypeOK, Attribution
<1>4. /\ p \in Minted \ forgotten
      /\ a.trigger = pills[p].trigger /\ a.mode = pills[p].mode
      /\ \A e \in ledger : e.pill # p
  BY <1>1, <1>2 DEF LearningInv, OpenAttributionsAreNew
<1>5. /\ entry.pill = p /\ entry.trigger = a.trigger /\ entry.mode = a.mode
  OBVIOUS
<1>6. \/ ledger' = ledger /\ rows' = rows
      \/ ledger' = ledger \cup {entry} /\ rows' = Observed(a.trigger, a.mode)
  BY <1>2 DEF RecordReward
<1> HIDE DEF p, a, o, entry
<1>7. /\ attribution'[p] = NoAttribution
      /\ \A q \in Pill : q # p => attribution'[q] = attribution[q]
  BY <1>1, <1>2, <1>3 DEF CloseAttribution
<1>8. OpenAttributionsAreNew'
  BY <1>2, <1>5, <1>6, <1>7 DEF LearningInv, OpenAttributionsAreNew, Minted
<1>9. LedgerIsOfTheMinted' /\ (forgotten \subseteq Minted)'
  BY <1>2, <1>4, <1>5, <1>6 DEF LearningInv, LedgerIsOfTheMinted, Minted
<1>10. IsFiniteSet(ledger')
  BY <1>6, FS_AddElement DEF LearningInv
<1>11. TableCountsEachPillOnce'
  <2>1. CASE ledger' = ledger /\ rows' = rows
    BY <1>2, <2>1 DEF LearningInv, TableCountsEachPillOnce
  <2>2. CASE ledger' = ledger \cup {entry} /\ rows' = Observed(a.trigger, a.mode)
    <3>1. \A e, f \in ledger' : e.pill = f.pill => e = f
      BY <1>4, <1>5, <2>2 DEF LearningInv, TableCountsEachPillOnce
    <3>2. ASSUME NEW t \in Trigger, NEW m \in Mode
          PROVE  rows'[t][m] = inherited'[t][m] + Cardinality(Counted(t, m)')
      <4>0. IsFiniteSet(Counted(t, m))
        BY FS_Subset DEF Counted, LearningInv
      <4>1. /\ rows[t][m] = inherited[t][m] + Cardinality(Counted(t, m))
            /\ rows[t][m] \in Nat /\ inherited[t][m] \in Nat
            /\ inherited'[t][m] = inherited[t][m]
            /\ Cardinality(Counted(t, m)) \in Nat
        BY <1>2, <1>3, <4>0, FS_CardinalityType
        DEF LearningInv, TableCountsEachPillOnce, Counted
      <4>2. CASE t = a.trigger /\ m = a.mode
        <5>1. rows'[t][m] = rows[t][m] + 1
          BY <1>3, <2>2, <4>2 DEF Observed
        <5>2. Counted(t, m)' = Counted(t, m) \cup {entry}
          BY <1>5, <2>2, <4>2 DEF Counted
        <5>3. entry \notin Counted(t, m)
          BY <1>4, <1>5 DEF Counted
        <5>4. Cardinality(Counted(t, m)') = Cardinality(Counted(t, m)) + 1
          BY <4>0, <5>2, <5>3, FS_AddElement
        <5> HIDE DEF Counted
        <5> QED  BY <4>1, <5>1, <5>4
      <4>3. CASE ~(t = a.trigger /\ m = a.mode)
        <5>1. rows'[t][m] = rows[t][m]
          BY <1>3, <2>2, <4>3 DEF Observed
        <5>2. Counted(t, m)' = Counted(t, m)
          BY <1>5, <2>2, <4>3 DEF Counted
        <5> QED  BY <4>1, <5>1, <5>2
      <4> QED  BY <4>2, <4>3
    <3> QED  BY <3>1, <3>2 DEF TableCountsEachPillOnce, Counted
  <2> QED  BY <1>6, <2>1, <2>2
<1> QED  BY <1>8, <1>9, <1>10, <1>11 DEF LearningInv

(* A reset empties the table and forgets every pill minted so far.         *)
LEMMA ResetLearns ==
  ASSUME TypeOK, ResetLearning
  PROVE  LearningInv'
<1>1. /\ rows' = NoObservations /\ inherited' = NoObservations
      /\ ledger' = {} /\ forgotten' = Minted
      /\ attribution' = [q \in Pill |-> NoAttribution] /\ pills' = pills
  BY DEF ResetLearning, ClearAttributions, minting
<1>2. IsFiniteSet(ledger') /\ Cardinality({}) = 0
  BY <1>1, FS_EmptySet
<1>3. TableCountsEachPillOnce'
  <2>1. ASSUME NEW t \in Trigger, NEW m \in Mode
        PROVE  rows'[t][m] = inherited'[t][m]
                 + Cardinality({e \in ledger' : e.trigger = t /\ e.mode = m})
    <3>1. {e \in ledger' : e.trigger = t /\ e.mode = m} = {}
      BY <1>1
    <3>2. rows'[t][m] = 0 /\ inherited'[t][m] = 0
      BY <1>1 DEF NoObservations
    <3> QED  BY <1>2, <3>1, <3>2
  <2> QED  BY <1>1, <2>1 DEF TableCountsEachPillOnce
<1> QED  BY <1>1, <1>2, <1>3
         DEF LearningInv, OpenAttributionsAreNew, LedgerIsOfTheMinted, Minted

(* The invariant holds at first and every step keeps it.                   *)
LEMMA LearningInductive == Spec => []LearningInv
<1>1. Init => LearningInv
  <2> SUFFICES ASSUME Init PROVE LearningInv
    OBVIOUS
  <2>1. /\ rows \in [Trigger -> [Mode -> Nat]] /\ inherited = rows
        /\ ledger = {} /\ forgotten = {}
        /\ attribution = [q \in Pill |-> NoAttribution]
    BY ServiceAssumption DEF Init, ServiceInit
  <2>2. IsFiniteSet(ledger) /\ Cardinality({}) = 0
    BY <2>1, FS_EmptySet
  <2>3. ASSUME NEW t \in Trigger, NEW m \in Mode
        PROVE  rows[t][m] = inherited[t][m]
                 + Cardinality({e \in ledger : e.trigger = t /\ e.mode = m})
    <3>1. {e \in ledger : e.trigger = t /\ e.mode = m} = {} /\ rows[t][m] \in Nat
      BY <2>1
    <3> QED  BY <2>1, <2>2, <3>1
  <2> QED  BY <2>1, <2>2, <2>3
           DEF LearningInv, OpenAttributionsAreNew, LedgerIsOfTheMinted,
               TableCountsEachPillOnce
<1>2. TypeOK /\ LearningInv /\ [Next]_vars => LearningInv'
  <2> SUFFICES ASSUME TypeOK, LearningInv, [Next]_vars PROVE LearningInv'
    OBVIOUS
  <2>1. ASSUME UNCHANGED <<pills, attribution, rows, inherited, ledger, forgotten>>
        PROVE  LearningInv'
    BY <2>1 DEF LearningInv, OpenAttributionsAreNew, LedgerIsOfTheMinted,
                TableCountsEachPillOnce, Minted
  <2>2. CASE UNCHANGED vars
    BY <2>1, <2>2 DEF vars, serviceVars
  <2>3. ASSUME NEW p \in Pill, NEW t \in Trigger, NEW s \in Speaker,
               TickMints(p, t, s)
        PROVE  LearningInv'
    <3>1. Head(inbox).mode \in Mode
      BY <2>3, TakeType DEF TickMints, TelemetryRequest
    <3>2. Mint(p, t, Head(inbox).mode, s)
      BY <2>3 DEF TickMints
    <3> QED  BY <3>1, <3>2, MintLearning
  <2>4. ASSUME NEW p \in Pill, NEW s \in Speaker, ConfirmationMints(p, s)
        PROVE  LearningInv'
    <3>1. confirming.trigger \in Trigger /\ confirming.mode \in Mode
      BY <2>4 DEF ConfirmationMints, TypeOK
    <3>2. Mint(p, confirming.trigger, confirming.mode, s)
      BY <2>4 DEF ConfirmationMints
    <3> QED  BY <3>1, <3>2, MintLearning
  <2>5. CASE OutcomeClick
    <3> DEFINE p == Head(inbox).pill
    <3>1. /\ p \in Pill /\ attribution[p] # NoAttribution
          /\ attribution' = [attribution EXCEPT ![p].clicked = TRUE]
          /\ UNCHANGED <<pills, rows, inherited, ledger, forgotten>>
      BY <2>5, TakeType DEF OutcomeClick, OutcomeRequest, minting
    <3>2. /\ attribution \in [Pill -> Attribution \cup {NoAttribution}]
          /\ attribution[p] \in Attribution
      BY <3>1 DEF TypeOK
    <3> HIDE DEF p
    <3>3. \A q \in Pill :
            /\ attribution'[q] # NoAttribution => attribution[q] # NoAttribution
            /\ attribution'[q].trigger = attribution[q].trigger
            /\ attribution'[q].mode = attribution[q].mode
      BY <3>1, <3>2 DEF Attribution
    <3> QED  BY <3>1, <3>3
             DEF LearningInv, OpenAttributionsAreNew, LedgerIsOfTheMinted,
                 TableCountsEachPillOnce, Minted
  <2>6. CASE OutcomeTerminal
    BY <2>6, OutcomeLearning
  <2>7. CASE ResetLearning
    BY <2>7, ResetLearns
  <2>8. CASE \/ TickPasses \/ \E t \in Trigger : TickAsks(t)
             \/ OutcomeUnknown \/ ResetGivenUp \/ SceneState \/ Shutdown
    BY <2>1, <2>8 DEF TickPasses, TickAsks, OutcomeUnknown, ResetGivenUp,
                      SceneState, Shutdown, minting, learning, serviceVars
  <2>9. CASE ConfirmationDrops \/ LockDatabase \/ UnlockDatabase \/ Elapse
    BY <2>1, <2>9 DEF ConfirmationDrops, LockDatabase, UnlockDatabase, Elapse,
                      minting, learning
  <2>10. CASE \E p \in Pill : Answered(p)
    BY <2>1, <2>10 DEF Answered, PillSpeaks, PillFallsSilent, Answer, learning
  <2>11. CASE (\E r \in Offered : DeliverRequest(r)) \/ WindowCommands
    BY <2>1, <2>11
    DEF DeliverRequest, WindowCommands, InvokeTelemetry, InvokeSceneState,
        InvokeReset, CloseProject, InvokeOutcome, serviceVars
  <2> QED
    BY <2>2, <2>3, <2>4, <2>5, <2>6, <2>7, <2>8, <2>9, <2>10, <2>11
    DEF Next, ServiceNext, Serve, Confirmed
<1> QED  BY <1>1, <1>2, TypeCorrect, PTL DEF Spec

(* The table counts every pill at most once, whatever outcomes the window  *)
(* reports, how often and in which order.                                  *)
THEOREM NothingIsCountedTwice == Spec => []TableCountsEachPillOnce
<1>1. LearningInv => TableCountsEachPillOnce
  BY DEF LearningInv
<1> QED  BY <1>1, LearningInductive, PTL

(* A reward is credited to the trigger and the mode of the pill's mint.    *)
THEOREM RewardsAreWellAttributed == Spec => []RewardsMatchTheMint
<1>1. LearningInv => RewardsMatchTheMint
  BY DEF LearningInv, LedgerIsOfTheMinted, RewardsMatchTheMint, Minted
<1> QED  BY <1>1, LearningInductive, PTL

(* A pill minted before a reset never writes to the cleared table.         *)
THEOREM ResetForgetsThePast == Spec => []ResetForgets
<1>1. LearningInv /\ TypeOK => ResetForgets
  BY DEF LearningInv, OpenAttributionsAreNew, LedgerIsOfTheMinted, TypeOK,
         ResetForgets
<1> QED  BY <1>1, LearningInductive, TypeCorrect, PTL

-----------------------------------------------------------------------------
(* The learning loop seen from the table.                                  *)

(* A mint bears one pill.                                                  *)
LEMMA MintBears ==
  ASSUME TypeOK,
         NEW p \in Pill, NEW t \in Trigger, NEW m \in Mode, NEW s \in Speaker,
         Mint(p, t, m, s)
  PROVE  Ledger!LedgerNext
<1> DEFINE new == [trigger |-> t, mode |-> m, speaker |-> s, at |-> clock]
           a == [trigger |-> t, mode |-> m, clicked |-> FALSE]
           c == [trigger |-> t, mode |-> m]
<1>1. /\ pills[p] = Unminted /\ pills' = [pills EXCEPT ![p] = new]
      /\ attribution' = [attribution EXCEPT ![p] = a]
      /\ rows' = rows
  BY DEF Mint, OpenAttribution
<1>2. /\ pills \in [Pill -> PillInfo \cup {Unminted}]
      /\ attribution \in [Pill -> Attribution \cup {NoAttribution}]
      /\ new \in PillInfo /\ a \in Attribution /\ c \in Ledger!Cell
  BY DEF TypeOK, PillInfo, Attribution, Ledger!Cell
<1>3. new # Unminted /\ a # NoAttribution
  BY <1>2, ServiceAssumption DEF PillInfo, Attribution
<1>4. c = [trigger |-> a.trigger, mode |-> a.mode]
  OBVIOUS
<1> HIDE DEF new, a, c
<1>5. pills'[p] = new /\ attribution'[p] = a
  BY <1>1, <1>2
<1>6. CellOf(p) = Unminted /\ CellOf(p)' = c
  BY <1>1, <1>3, <1>4, <1>5 DEF CellOf
<1>7. \A q \in Pill : q # p => CellOf(q)' = CellOf(q)
  BY <1>1, <1>2 DEF CellOf
<1>8. Cells[p] = Unminted /\ Cells' = [Cells EXCEPT ![p] = c]
  BY <1>6, <1>7 DEF Cells
<1>9. Ledger!Bear(p, c)
  BY <1>1, <1>8 DEF Ledger!Bear
<1> QED  BY <1>2, <1>9 DEF Ledger!LedgerNext

(* A terminal outcome settles one pill, with or without an observation.    *)
LEMMA OutcomeSettles ==
  ASSUME TypeOK, LearningInv, OutcomeTerminal
  PROVE  Ledger!LedgerNext
<1>1. PICK p \in Pill : p = Head(inbox).pill
  BY TakeType DEF OutcomeTerminal, OutcomeRequest
<1> DEFINE a == attribution[p]
           c == [trigger |-> a.trigger, mode |-> a.mode]
<1>2. /\ a # NoAttribution /\ pills' = pills
      /\ attribution' = [attribution EXCEPT ![p] = NoAttribution]
      /\ rows' \in {rows, Observed(a.trigger, a.mode)}
  BY <1>1 DEF OutcomeTerminal, CloseAttribution, RecordReward, minting
<1>3. /\ attribution \in [Pill -> Attribution \cup {NoAttribution}]
      /\ a \in Attribution /\ pills[p] # Unminted
  BY <1>1, <1>2 DEF TypeOK, LearningInv, OpenAttributionsAreNew, Minted
<1>4. /\ c \notin {Unminted, NoAttribution}
      /\ c.trigger = a.trigger /\ c.mode = a.mode
  BY <1>3, ServiceAssumption DEF Attribution
<1>5. c = [trigger |-> attribution[p].trigger, mode |-> attribution[p].mode]
  OBVIOUS
<1> HIDE DEF c
<1>6. CellOf(p) = c /\ CellOf(p)' = NoAttribution
  BY <1>1, <1>2, <1>3, <1>5 DEF CellOf
<1>7. \A q \in Pill : q # p => CellOf(q)' = CellOf(q)
  BY <1>1, <1>2, <1>3 DEF CellOf
<1>8. Cells[p] = c /\ Cells' = [Cells EXCEPT ![p] = NoAttribution]
  BY <1>1, <1>6, <1>7 DEF Cells
<1>9. Ledger!Live(p)
  BY <1>4, <1>8 DEF Ledger!Live
<1>10. Ledger!Learn(p) \/ Ledger!Forgo(p)
  BY <1>2, <1>4, <1>8, <1>9 DEF Ledger!Learn, Ledger!Forgo, Observed
<1> QED  BY <1>1, <1>10 DEF Ledger!LedgerNext

(* The learning loop implements the ledger.                                *)
THEOREM ServiceKeepsTheLedger == Spec => KeepsTheLedger
<1>1. Init => Ledger!LedgerInit
  BY ServiceAssumption DEF Init, ServiceInit, Ledger!LedgerInit, Cells, CellOf
<1>2. TypeOK /\ LearningInv /\ [Next]_vars => [Ledger!LedgerNext]_(Ledger!ledgerVars)
  <2> SUFFICES ASSUME TypeOK, LearningInv, [Next]_vars
               PROVE  Ledger!LedgerNext \/ UNCHANGED <<Cells, rows>>
    BY DEF Ledger!ledgerVars
  <2>1. ASSUME UNCHANGED <<pills, attribution, rows>>
        PROVE  UNCHANGED <<Cells, rows>>
    BY <2>1 DEF Cells, CellOf
  <2>2. CASE UNCHANGED vars
    BY <2>1, <2>2 DEF vars, serviceVars
  <2>3. ASSUME NEW p \in Pill, NEW t \in Trigger, NEW s \in Speaker,
               TickMints(p, t, s)
        PROVE  Ledger!LedgerNext
    <3>1. Head(inbox).mode \in Mode
      BY <2>3, TakeType DEF TickMints, TelemetryRequest
    <3>2. Mint(p, t, Head(inbox).mode, s)
      BY <2>3 DEF TickMints
    <3> QED  BY <3>1, <3>2, MintBears
  <2>4. ASSUME NEW p \in Pill, NEW s \in Speaker, ConfirmationMints(p, s)
        PROVE  Ledger!LedgerNext
    <3>1. confirming.trigger \in Trigger /\ confirming.mode \in Mode
      BY <2>4 DEF ConfirmationMints, TypeOK
    <3>2. Mint(p, confirming.trigger, confirming.mode, s)
      BY <2>4 DEF ConfirmationMints
    <3> QED  BY <3>1, <3>2, MintBears
  <2>5. CASE OutcomeClick
    <3> DEFINE p == Head(inbox).pill
    <3>1. /\ p \in Pill /\ attribution[p] # NoAttribution
          /\ attribution' = [attribution EXCEPT ![p].clicked = TRUE]
          /\ UNCHANGED <<pills, rows>>
      BY <2>5, TakeType DEF OutcomeClick, OutcomeRequest, minting
    <3>2. /\ attribution \in [Pill -> Attribution \cup {NoAttribution}]
          /\ attribution[p] \in Attribution
      BY <3>1 DEF TypeOK
    <3> HIDE DEF p
    <3>3. attribution'[p] \in Attribution
      BY <3>1, <3>2 DEF Attribution
    <3>4. \A q \in Pill :
            /\ attribution'[q] = NoAttribution <=> attribution[q] = NoAttribution
            /\ attribution'[q].trigger = attribution[q].trigger
            /\ attribution'[q].mode = attribution[q].mode
      BY <3>1, <3>2, <3>3, ServiceAssumption DEF Attribution
    <3> QED  BY <3>1, <3>4 DEF Cells, CellOf
  <2>6. CASE OutcomeTerminal
    BY <2>6, OutcomeSettles
  <2>7. CASE ResetLearning
    <3>1. /\ pills' = pills /\ rows' = NoObservations
          /\ \A q \in Pill : attribution'[q] = NoAttribution
      BY <2>7 DEF ResetLearning, ClearAttributions, minting
    <3>2. \A q \in Pill : CellOf(q)' = IF Ledger!Live(q) THEN NoAttribution
                                       ELSE Cells[q]
      <4> TAKE q \in Pill
      <4>1. Cells[q] = CellOf(q)
        BY DEF Cells
      <4>2. attribution[q] \in Attribution \cup {NoAttribution}
        BY DEF TypeOK
      <4>3. attribution[q] \in Attribution =>
                [trigger |-> attribution[q].trigger, mode |-> attribution[q].mode]
                    \notin {Unminted, NoAttribution}
        BY ServiceAssumption DEF Attribution
      <4> QED  BY <3>1, <4>1, <4>2, <4>3, ServiceAssumption DEF CellOf, Ledger!Live
    <3>3. Ledger!Reset
      BY <3>1, <3>2 DEF Ledger!Reset, Ledger!Blank, NoObservations, Cells
    <3> QED  BY <3>3 DEF Ledger!LedgerNext
  <2>8. CASE \/ TickPasses \/ \E t \in Trigger : TickAsks(t)
             \/ OutcomeUnknown \/ ResetGivenUp \/ SceneState \/ Shutdown
    BY <2>1, <2>8 DEF TickPasses, TickAsks, OutcomeUnknown, ResetGivenUp,
                      SceneState, Shutdown, minting, learning, serviceVars
  <2>9. CASE ConfirmationDrops \/ LockDatabase \/ UnlockDatabase \/ Elapse
    BY <2>1, <2>9 DEF ConfirmationDrops, LockDatabase, UnlockDatabase, Elapse,
                      minting, learning
  <2>10. CASE \E p \in Pill : Answered(p)
    BY <2>1, <2>10 DEF Answered, PillSpeaks, PillFallsSilent, Answer, learning
  <2>11. CASE (\E r \in Offered : DeliverRequest(r)) \/ WindowCommands
    BY <2>1, <2>11
    DEF DeliverRequest, WindowCommands, InvokeTelemetry, InvokeSceneState,
        InvokeReset, CloseProject, InvokeOutcome, serviceVars
  <2> QED
    BY <2>2, <2>3, <2>4, <2>5, <2>6, <2>7, <2>8, <2>9, <2>10, <2>11
    DEF Next, ServiceNext, Serve, Confirmed
<1> QED  BY <1>1, <1>2, LearningInductive, TypeCorrect, PTL
         DEF Spec, KeepsTheLedger, Ledger!LedgerSpec

(* What a step may do to the attribution of pill p.                        *)
AttributionStep(p) ==
    /\ pills[p] # Unminted /\ attribution[p] = NoAttribution
          => attribution'[p] = NoAttribution
    /\ attribution[p] # NoAttribution /\ attribution'[p] # NoAttribution
          => /\ attribution'[p].trigger = attribution[p].trigger
             /\ attribution'[p].mode = attribution[p].mode
             /\ attribution[p].clicked => attribution'[p].clicked

(* Every step keeps an attribution open, settles it, or mints.             *)
LEMMA AttributionsStay ==
  ASSUME TypeOK, LearningInv, [Next]_vars, NEW p \in Pill
  PROVE  AttributionStep(p)
<1>1. CASE UNCHANGED attribution
  BY <1>1 DEF AttributionStep
<1>2. ASSUME NEW q \in Pill, NEW t, NEW m, NEW s, Mint(q, t, m, s)
      PROVE  AttributionStep(p)
  <2>1. /\ pills[q] = Unminted /\ attribution[q] = NoAttribution
        /\ q # p => attribution'[p] = attribution[p]
    BY <1>2 DEF Mint, OpenAttribution, TypeOK, LearningInv,
                      OpenAttributionsAreNew, Minted
  <2> QED  BY <2>1 DEF AttributionStep
<1>3. CASE OutcomeClick
  <2> DEFINE q == Head(inbox).pill
  <2>1. /\ q \in Pill /\ attribution[q] # NoAttribution
        /\ attribution' = [attribution EXCEPT ![q].clicked = TRUE]
    BY <1>3, TakeType DEF OutcomeClick, OutcomeRequest
  <2>2. /\ attribution \in [Pill -> Attribution \cup {NoAttribution}]
        /\ attribution[q] \in Attribution
    BY <2>1 DEF TypeOK
  <2> HIDE DEF q
  <2> QED  BY <2>1, <2>2 DEF AttributionStep, Attribution
<1>4. CASE OutcomeTerminal \/ ResetLearning
  BY <1>4 DEF OutcomeTerminal, CloseAttribution, ResetLearning,
                    ClearAttributions, TypeOK, AttributionStep
<1> QED
  BY <1>1, <1>2, <1>3, <1>4
  DEF vars, serviceVars, Next, ServiceNext, Serve, Confirmed, DeliverRequest,
      TickPasses, TickAsks, TickMints, OutcomeUnknown, ResetGivenUp,
      SceneState, Shutdown, ConfirmationDrops, ConfirmationMints, Answered,
      PillSpeaks, PillFallsSilent, Answer, LockDatabase, UnlockDatabase,
      Elapse, WindowCommands, InvokeTelemetry, InvokeSceneState, InvokeReset,
      CloseProject, InvokeOutcome, minting, learning

(* An attribution is opened by the mint alone, never changes what it is    *)
(* for, never loses a click, and once settled stays settled.               *)
THEOREM AttributionsCloseOnce == Spec => AttributionIsClosedOnce
<1>1. TypeOK /\ LearningInv /\ [Next]_vars
        => [\A p \in Pill : AttributionStep(p)]_vars
  BY AttributionsStay
<1> QED  BY <1>1, LearningInductive, TypeCorrect, PTL
         DEF Spec, AttributionIsClosedOnce, AttributionStep

(* The loop ends between two requests, so never while a mint is pending.   *)
ShutdownInv == ~running => confirming = NoTick

(* After the loop has ended nothing is minted and nothing is learned.      *)
THEOREM ClosedProjectsAreQuiet == Spec => ClosedProjectIsQuiet
<1>1. Init => ShutdownInv
  BY DEF Init, ServiceInit, ShutdownInv
<1>2. ASSUME ShutdownInv, [Next]_vars
      PROVE  /\ ShutdownInv'
             /\ ~running => UNCHANGED <<pills, rows, tuning, attribution>>
  BY <1>2
  DEF ShutdownInv, vars, serviceVars, Next, ServiceNext, Serve, Confirmed, Take,
      DeliverRequest, Deliver, TickPasses, TickAsks, TickMints, OutcomeClick,
      OutcomeTerminal, OutcomeUnknown, ResetLearning, ResetGivenUp,
      SceneState, Shutdown, ConfirmationDrops, ConfirmationMints, Answered,
      PillSpeaks, PillFallsSilent, Answer, LockDatabase, UnlockDatabase,
      Elapse, WindowCommands, InvokeTelemetry, InvokeSceneState, InvokeReset,
      CloseProject, InvokeOutcome, Invoke, Mint, channels, minting, learning
<1>3. ShutdownInv /\ [Next]_vars => ShutdownInv'
  BY <1>2
<1>4. ShutdownInv /\ [Next]_vars
        => [~running => UNCHANGED <<pills, rows, tuning, attribution>>]_vars
  BY <1>2
<1> QED  BY <1>1, <1>3, <1>4, PTL DEF Spec, ClosedProjectIsQuiet

-----------------------------------------------------------------------------
(* The snapshot follows the table.                                         *)

(* A reward leaves the snapshot on the table, or the table marked stale.   *)
LEMMA RewardTunes ==
  ASSUME TuningFollowsTable, NEW p, NEW a, NEW o, RecordReward(p, a, o)
  PROVE  TuningFollowsTable'
<1>1. \/ UNCHANGED <<rows, tuning, stale>>
      \/ tuning' = rows' \/ stale' = TRUE
  BY DEF RecordReward, ReloadTuning
<1> QED  BY <1>1 DEF TuningFollowsTable

(* The triggers' sensitivities are those of the table, which an earlier    *)
(* session may have filled, unless the last load of it failed; a reward    *)
(* that is loaded makes up for a start that met a held database.           *)
THEOREM TuningIsTheTable == Spec => []TuningFollowsTable
<1>1. Init => TuningFollowsTable
  BY DEF Init, ServiceInit, TuningPrimed, TuningFollowsTable
<1>2. TuningFollowsTable /\ [Next]_vars => TuningFollowsTable'
  <2> SUFFICES ASSUME TuningFollowsTable, [Next]_vars
               PROVE  TuningFollowsTable'
    OBVIOUS
  <2>1. ASSUME UNCHANGED <<rows, tuning, stale>> PROVE TuningFollowsTable'
    BY <2>1 DEF TuningFollowsTable
  <2>2. CASE OutcomeTerminal
    BY <2>2, RewardTunes DEF OutcomeTerminal
  <2>3. CASE ResetLearning
    BY <2>3 DEF ResetLearning, TuningFollowsTable
  <2> QED
    BY <2>1, <2>2, <2>3
    DEF vars, serviceVars, Next, ServiceNext, Serve, Confirmed, DeliverRequest,
        TickPasses, TickAsks, TickMints, OutcomeClick, OutcomeUnknown,
        ResetGivenUp, SceneState, Shutdown, ConfirmationDrops, ConfirmationMints, Answered,
        PillSpeaks, PillFallsSilent, Answer, LockDatabase, UnlockDatabase,
        Elapse, WindowCommands, InvokeTelemetry, InvokeSceneState, InvokeReset,
        CloseProject, InvokeOutcome, Mint, minting, learning
<1> QED  BY <1>1, <1>2, PTL DEF Spec

-----------------------------------------------------------------------------
(* A pill is announced when its LLM task ends, and the task ends once.     *)
AnnounceInv ==
    /\ thinking \subseteq Minted
    /\ AnnouncedOnce

(* An answer puts one event on the bus, for a pill that has none there.    *)
LEMMA AnswerAnnounces ==
  ASSUME TypeOK, AnnounceInv, NEW p \in Pill, NEW k, Answer(p, k)
  PROVE  AnnounceInv'
<1> DEFINE e == [kind |-> k, pill |-> p]
<1>1. /\ p \in thinking /\ thinking' = thinking \ {p}
      /\ bus' = Append(bus, e) /\ Minted' = Minted
  BY DEF Answer, Emit, Minted
<1>2. bus \in Seq(Event) /\ e.pill = p
  BY DEF TypeOK, ChannelsTypeOK
<1> HIDE DEF e
<1>3. /\ Len(bus) \in Nat /\ DOMAIN bus = 1 .. Len(bus)
      /\ DOMAIN bus' = 1 .. Len(bus) + 1
      /\ bus'[Len(bus) + 1] = e
      /\ \A i \in 1 .. Len(bus) : bus'[i] = bus[i]
  BY <1>1, <1>2
<1>4. /\ p \in Minted /\ \A i \in 1 .. Len(bus) : bus[i].pill # p
      /\ \A i \in 1 .. Len(bus) : bus[i].pill \in Minted \ thinking
      /\ \A i, j \in 1 .. Len(bus) : bus[i].pill = bus[j].pill => i = j
  BY <1>1, <1>3 DEF AnnounceInv, AnnouncedOnce
<1>5. \A i \in 1 .. Len(bus) + 1 : i \in 1 .. Len(bus) \/ i = Len(bus) + 1
  BY <1>3
<1>6. \A i, j \in DOMAIN bus' : bus'[i].pill = bus'[j].pill => i = j
  BY <1>2, <1>3, <1>4, <1>5
<1>7. \A i \in DOMAIN bus' : bus'[i].pill \in Minted' \ thinking'
  BY <1>1, <1>2, <1>3, <1>4, <1>5
<1> QED  BY <1>1, <1>6, <1>7 DEF AnnounceInv, AnnouncedOnce

(* A mint starts the task of a pill nobody was told of.                    *)
LEMMA MintAnnouncesNothing ==
  ASSUME TypeOK, AnnounceInv,
         NEW p \in Pill, NEW t \in Trigger, NEW m \in Mode, NEW s \in Speaker,
         Mint(p, t, m, s)
  PROVE  AnnounceInv'
<1> DEFINE new == [trigger |-> t, mode |-> m, speaker |-> s, at |-> clock]
<1>1. /\ pills[p] = Unminted /\ pills' = [pills EXCEPT ![p] = new]
      /\ thinking' = thinking \cup {p} /\ bus' = bus
  BY DEF Mint
<1>2. new # Unminted /\ pills \in [Pill -> PillInfo \cup {Unminted}]
  BY ServiceAssumption DEF TypeOK, PillInfo
<1> HIDE DEF new
<1>3. p \notin Minted /\ Minted' = Minted \cup {p}
  BY <1>1, <1>2 DEF Minted
<1> QED  BY <1>1, <1>3 DEF AnnounceInv, AnnouncedOnce

(* No pill is announced twice, or before it is minted: one event for every *)
(* LLM task, whichever way it ends (spawn_pill_llm_task).                  *)
THEOREM NothingIsAnnouncedTwice == Spec => []AnnouncedOnce
<1>1. Init => AnnounceInv
  BY DEF Init, ServiceInit, ChannelsInit, AnnounceInv, AnnouncedOnce
<1>2. TypeOK /\ AnnounceInv /\ [Next]_vars => AnnounceInv'
  <2> SUFFICES ASSUME TypeOK, AnnounceInv, [Next]_vars PROVE AnnounceInv'
    OBVIOUS
  <2>1. ASSUME UNCHANGED <<pills, thinking, bus>> PROVE AnnounceInv'
    BY <2>1 DEF AnnounceInv, AnnouncedOnce, Minted
  <2>2. ASSUME NEW p \in Pill, Answered(p) PROVE AnnounceInv'
    BY <2>2, AnswerAnnounces DEF Answered, PillSpeaks, PillFallsSilent
  <2>3. ASSUME NEW p \in Pill, NEW t \in Trigger, NEW s \in Speaker,
               TickMints(p, t, s)
        PROVE  AnnounceInv'
    <3>1. Head(inbox).mode \in Mode
      BY <2>3, TakeType DEF TickMints, TelemetryRequest
    <3> QED  BY <2>3, <3>1, MintAnnouncesNothing DEF TickMints
  <2>4. ASSUME NEW p \in Pill, NEW s \in Speaker, ConfirmationMints(p, s)
        PROVE  AnnounceInv'
    <3>1. confirming.trigger \in Trigger /\ confirming.mode \in Mode
      BY <2>4 DEF ConfirmationMints, TypeOK
    <3> QED  BY <2>4, <3>1, MintAnnouncesNothing DEF ConfirmationMints
  <2> QED
    BY <2>1, <2>2, <2>3, <2>4
    DEF vars, channels, serviceVars, Next, ServiceNext, Serve, Confirmed, Take,
        DeliverRequest, Deliver, TickPasses, TickAsks, OutcomeClick,
        OutcomeTerminal, OutcomeUnknown, ResetLearning, ResetGivenUp,
        SceneState, Shutdown, ConfirmationDrops,
        LockDatabase, UnlockDatabase, Elapse, WindowCommands, InvokeTelemetry,
        InvokeSceneState, InvokeReset, CloseProject, InvokeOutcome, Invoke,
        minting, learning
<1>3. AnnounceInv => AnnouncedOnce
  BY DEF AnnounceInv
<1> QED  BY <1>1, <1>2, <1>3, TypeCorrect, PTL DEF Spec
=============================================================================
