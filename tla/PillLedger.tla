----------------------------- MODULE PillLedger -----------------------------
(***************************************************************************)
(* What the learning loop promises, without channels, clocks, locks or     *)
(* renderer: every pill a session shows can move one cell of the learning  *)
(* table, the one it was minted for, by one observation, and once only.    *)
(* The table starts as earlier sessions left it.                           *)
(*                                                                         *)
(* The promise is deliberately weak where the service is: an observation   *)
(* may be lost (Forgo), it is never invented.                              *)
(***************************************************************************)
EXTENDS Naturals

CONSTANTS Pill, Trigger, Mode,
          Unborn,       \* a pill that is not minted yet
          Settled       \* a pill that can teach nothing any more

VARIABLES
    cell,       \* the cell of the table a live pill was minted for
    table       \* observations by trigger and writer mode

ledgerVars == <<cell, table>>

Cell == [trigger: Trigger, mode: Mode]

Blank == [t \in Trigger |-> [m \in Mode |-> 0]]

Live(p) == cell[p] \notin {Unborn, Settled}

LedgerInit ==
    /\ cell = [p \in Pill |-> Unborn]
    /\ table \in [Trigger -> [Mode -> Nat]]

Bear(p, c) ==
    /\ cell[p] = Unborn
    /\ cell' = [cell EXCEPT ![p] = c]
    /\ UNCHANGED table

(* The writer's verdict on p moves its cell by one...                      *)
Learn(p) ==
    /\ Live(p)
    /\ cell' = [cell EXCEPT ![p] = Settled]
    /\ table' = [table EXCEPT ![cell[p].trigger][cell[p].mode] = @ + 1]

(* ... or is lost.                                                         *)
Forgo(p) ==
    /\ Live(p)
    /\ cell' = [cell EXCEPT ![p] = Settled]
    /\ UNCHANGED table

(* The table is emptied, and no pill on screen may fill it again.          *)
Reset ==
    /\ cell' = [p \in Pill |-> IF Live(p) THEN Settled ELSE cell[p]]
    /\ table' = Blank

LedgerNext ==
    \/ \E p \in Pill, c \in Cell : Bear(p, c)
    \/ \E p \in Pill : Learn(p) \/ Forgo(p)
    \/ Reset

LedgerSpec == LedgerInit /\ [][LedgerNext]_ledgerVars
=============================================================================
