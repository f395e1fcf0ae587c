----------------------------- MODULE MCDefence -----------------------------
(***************************************************************************)
(* Defence with two columns of width 4, two rows, a band of three frames   *)
(* in which a falling missile touches the ship, and a shield that outlasts *)
(* that band and the next missile.                                         *)
(***************************************************************************)
EXTENDS Defence

MCShipPositions == {0, 3, 4}
MCShifts == {0, 2}
MCFleets == { {<<0, 0>>}, {<<0, 1>>, <<1, 0>>} }
=============================================================================
