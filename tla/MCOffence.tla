----------------------------- MODULE MCOffence -----------------------------
(***************************************************************************)
(* Offence with the geometry divided by 8 in width (a column is 8 wide)    *)
(* and two rows of three columns.  As in the game, consecutive waves share *)
(* slots (1 and 2 of the game do), the first wave has two enemies above    *)
(* each other (wave 3 has), and the array is faster in the fourth wave.    *)
(***************************************************************************)
EXTENDS Offence

MCWave == << {<<1, 0>>, <<1, 1>>, <<2, 1>>}, {<<1, 1>>}, {<<0, 0>>},
             {<<0, 0>>, <<1, 1>>} >>
MCThreshold == <<2, 0, 0>>
MCShipPositions == {0, 2, 3, 5, 6, 8, 9, 11, 13, 14, 16}
============================================================================
