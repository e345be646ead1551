------------------------------ MODULE Bouquets ------------------------------
(***************************************************************************)
(* The bouquet of a pill (on_expand): the writer expands a pill or asks    *)
(* for another bouquet; a task asks the model, drops what is too close to  *)
(* the bouquets the pill has had (max_overlap), adds the rest to the       *)
(* pill's history and shows it.  The history is locked twice, once to be   *)
(* read and once to be extended, and several tasks of one pill may run.    *)
(*                                                                         *)
(* Two texts are in Echo when their overlap reaches the threshold of the   *)
(* pill's speaker; a text without words overlaps nothing, itself included. *)
(***************************************************************************)
EXTENDS Naturals, Sequences, FiniteSets, SequencesExt, Positions

CONSTANTS
    Bud,                \* pills
    OfCharacter,        \* those a character speaks: no persona has their id
    Wording, Echo,
    BouquetSize,        \* how many items are accepted (3)
    MaxBouquets         \* bound: tasks of one session

ASSUME BouquetsAssumption ==
    /\ OfCharacter \subseteq Bud
    /\ Echo \subseteq Wording \X Wording
    /\ \A e \in Echo : <<e[2], e[1]>> \in Echo
    /\ BouquetSize \in Nat /\ MaxBouquets \in Nat

VARIABLES
    listed,             \* self.pills; a dismissed pill stays in it
    bouquets,           \* the tasks, in the order they were spawned
    hadBefore           \* bouquet_history

bouquetVars == <<listed, bouquets, hadBefore>>

Items(n) == SeqOf(Wording, n)
Blooms == [bud : Bud, stage : {"asking", "filtered", "remembered", "shown", "failed"},
           accepted : Items(BouquetSize), seen : SUBSET (1..MaxBouquets)]

BouquetsTypeOK ==
    /\ listed \subseteq Bud
    /\ Len(bouquets) <= MaxBouquets
    /\ \A k \in DOMAIN bouquets : bouquets[k] \in Blooms
    /\ \A p \in Bud : ToSet(hadBefore[p]) \subseteq Wording

BouquetsInit ==
    /\ listed = {} /\ bouquets = <<>>
    /\ hadBefore = [p \in Bud |-> <<>>]

-----------------------------------------------------------------------------
ListPill(p) ==                  \* on_telemetry mints it
    /\ p \notin listed
    /\ listed' = listed \cup {p}
    /\ UNCHANGED <<bouquets, hadBefore>>

Expand(p) ==                    \* also Regenerate: only the prompts differ
    /\ p \in listed \ OfCharacter
    /\ Len(bouquets) < MaxBouquets
    /\ bouquets' = Append(bouquets,
           [bud |-> p, stage |-> "asking", accepted |-> <<>>, seen |-> {}])
    /\ UNCHANGED <<listed, hadBefore>>

ExpandRefused(p) ==             \* not listed, not a persona's, no router: silently
    UNCHANGED bouquetVars

TooClose(p, text) == \E prior \in ToSet(hadBefore[p]) : <<text, prior>> \in Echo
FirstOf(items, n) == SubSeq(items, 1, IF Len(items) < n THEN Len(items) ELSE n)
Distant(p, items) == {i \in DOMAIN items : ~TooClose(p, items[i])}
Accepted(p, items) == FirstOf(Picked(items, Distant(p, items)), BouquetSize)

ShownOf(p) == {k \in DOMAIN bouquets : bouquets[k].bud = p /\ bouquets[k].stage = "shown"}

ModelAnswers(k, items) ==
    LET p == bouquets[k].bud IN
    /\ bouquets[k].stage = "asking"
    /\ bouquets' = [bouquets EXCEPT ![k] =
           [@ EXCEPT !.stage = "filtered", !.accepted = Accepted(p, items), !.seen = ShownOf(p)]]
    /\ UNCHANGED <<listed, hadBefore>>

ModelFails(k) ==                \* pill:dismissed for the parent
    /\ bouquets[k].stage = "asking"
    /\ bouquets' = [bouquets EXCEPT ![k].stage = "failed"]
    /\ UNCHANGED <<listed, hadBefore>>

Remembered(p, items) == hadBefore[p] \o items

Remember(k) ==
    LET p == bouquets[k].bud IN
    /\ bouquets[k].stage = "filtered"
    /\ hadBefore' = [hadBefore EXCEPT ![p] = Remembered(p, bouquets[k].accepted)]
    /\ bouquets' = [bouquets EXCEPT ![k].stage = "remembered"]
    /\ UNCHANGED listed

Show(k) ==                      \* bouquet:ready
    /\ bouquets[k].stage = "remembered"
    /\ bouquets' = [bouquets EXCEPT ![k].stage = "shown"]
    /\ UNCHANGED <<listed, hadBefore>>

BouquetsNext ==
    \/ \E p \in Bud : ListPill(p) \/ Expand(p) \/ ExpandRefused(p)
    \/ \E k \in DOMAIN bouquets :
           \/ \E items \in Items(BouquetSize + 1) : ModelAnswers(k, items)
           \/ ModelFails(k) \/ Remember(k) \/ Show(k)

BouquetsSpec == BouquetsInit /\ [][BouquetsNext]_bouquetVars

-----------------------------------------------------------------------------
(* What a bouquet offers is not close to anything in a bouquet of the same *)
(* pill that the writer had on the screen when the answer arrived, however *)
(* many lie between the two and in whatever order their answers came       *)
(* (on_expand: a bouquet enters the history before it is shown).  Of two   *)
(* answers that arrive together nothing is promised.                       *)
BouquetsAreNew ==
    \A k \in DOMAIN bouquets : \A j \in bouquets[k].seen :
        \A t \in ToSet(bouquets[k].accepted), u \in ToSet(bouquets[j].accepted) :
            <<t, u>> \notin Echo
=============================================================================
