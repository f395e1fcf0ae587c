---------------------------- MODULE ColorMapper ----------------------------
(***************************************************************************)
(* Color_Mapper.sv: what the beam paints, as far as the rules of the game  *)
(* depend on it: which scene is shown and which pixels belong to an enemy. *)
(* Colors, fonts and the shapes inside a cell are left out.                *)
(***************************************************************************)
EXTENDS Integers

CONSTANTS
  NumWaves,
  Modulus,      (* 2^10                                    *)
  Pitch,        (* 64                                      *)
  RowHeight,    (* 32, the band of the score is above it   *)
  Rows          (* 6                                       *)

(* The waves each arm of the chain asks for.  4'h10 in the last arm is 0   *)
(* in four bits (output_files/adder2.map.rpt, warning 10229).              *)
Painted == {1, 2, 3, 6} \cup {4, 5, 8} \cup {7, 9, 0}

Scene(state, count) ==
  CASE state = 0            -> "press_fire"
    [] state = NumWaves + 1 -> "you_win"
    [] state = NumWaves + 2 -> "game_over"
    [] OTHER -> IF count \in Painted THEN "battle" ELSE "background"

(* The pixels of a battle that show a living enemy. *)
EnemyAt(DrawX, DrawY, enemy_posX, enemy_status) ==
  LET enemy_x_actual == (DrawX + Modulus - enemy_posX) % Modulus
  IN  /\ enemy_x_actual % Pitch < Pitch \div 2
      /\ DrawY >= RowHeight /\ DrawY < (Rows + 1) * RowHeight
      /\ DrawX >= enemy_posX
      /\ <<enemy_x_actual \div Pitch, (DrawY \div RowHeight) - 1>> \in enemy_status

=============================================================================
