---------------------------- MODULE MCDeepening ----------------------------
(***************************************************************************)
(* Deepening with two pills; a first fan, a second one, and roots that a   *)
(* trim may take.                                                          *)
(***************************************************************************)
EXTENDS Deepening

CONSTANTS p1, p2

Pills   == {p1, p2}
OnePill == {p1}
OneFan  == 1 .. 1
TwoFans == 1 .. 2
EvenBytes == [t \in Thought |-> IF t = 2 THEN 3 ELSE 1]
=============================================================================
