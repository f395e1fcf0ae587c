------------------------- MODULE CollisionDetection -------------------------
(***************************************************************************)
(* collisionDetection.sv: compares the coordinates of the missiles with    *)
(* the enemy array and with the ship.  Neither missile's `exists' flag is  *)
(* an input.  The two comparisons share no register: they are separate     *)
(* operators here and Clock does both.                                     *)
(*                                                                         *)
(* Slices of bits are divisions by powers of two: with Pitch = 64 and      *)
(* RowHeight = 32, [9:6] is \div Pitch, bit [5] tells the right half of a  *)
(* column from the left one, and Y[9:5] is \div RowHeight.                 *)
(***************************************************************************)
EXTENDS Integers

CONSTANTS
  Modulus,                   (* 2^10, the width of a coordinate        *)
  Pitch,                     (* 64, width of a column and of the ship  *)
  RowHeight,                 (* 32                                     *)
  Rows,                      (* 6                                      *)
  PlayerTop, PlayerBottom    (* 452 and 480, where the ship can be hit *)

VARIABLES ecollision, enemy_hit, pcollision

(* enemy_hit has no reset value and is read only after it was written. *)
Init == ecollision = FALSE /\ enemy_hit = <<0, 0>> /\ pcollision = FALSE

Reset == ecollision' = FALSE /\ pcollision' = FALSE /\ UNCHANGED enemy_hit

(* X of the missile relative to the array, ten bits wide. *)
Normalized(pmissileX, enemy_posX) == (pmissileX + Modulus - enemy_posX) % Modulus

(* The slot that the point <<pmissileX, pmissileY>> is in. *)
Target_NextRow(pmissileX, pmissileY, enemy_posX) ==
  <<Normalized(pmissileX, enemy_posX) \div Pitch, pmissileY \div RowHeight>>

Target(pmissileX, pmissileY, enemy_posX) ==
  <<Normalized(pmissileX, enemy_posX) \div Pitch, (pmissileY \div RowHeight) - 1>>

(* An enemy is drawn in the left half of its column. *)
InSprite_WholeColumn(pmissileX, pmissileY, enemy_posX) ==
  pmissileY \div RowHeight \in 1 .. Rows

InSprite(pmissileX, pmissileY, enemy_posX) ==
  /\ pmissileY \div RowHeight \in 1 .. Rows
  /\ Normalized(pmissileX, enemy_posX) % Pitch < Pitch \div 2

DetectEnemyHit_AnyTarget(pmissileX, pmissileY, enemy_posX, enemy_status) ==
  LET target == Target(pmissileX, pmissileY, enemy_posX)
      hit    == InSprite(pmissileX, pmissileY, enemy_posX)
  IN  /\ ecollision' = hit
      /\ enemy_hit' = IF hit THEN target ELSE enemy_hit

(* The flag is lowered first and raised again if the point is still on a   *)
(* living enemy: it stays high then.                                       *)
DetectEnemyHit(pmissileX, pmissileY, enemy_posX, enemy_status) ==
  LET target == Target(pmissileX, pmissileY, enemy_posX)
      hit    == InSprite(pmissileX, pmissileY, enemy_posX) /\ target \in enemy_status
  IN  /\ ecollision' = hit
      /\ enemy_hit' = IF hit THEN target ELSE enemy_hit

DetectPlayerHit(emissileX, emissileY, playerX) ==
  pcollision' = ( /\ emissileY >= PlayerTop /\ emissileY < PlayerBottom
                  /\ emissileX >= playerX /\ emissileX <= playerX + Pitch )

(* posedge vsync *)
Clock(pmissileX, pmissileY, emissileX, emissileY, playerX, enemy_posX, enemy_status) ==
  /\ DetectEnemyHit(pmissileX, pmissileY, enemy_posX, enemy_status)
  /\ DetectPlayerHit(emissileX, emissileY, playerX)

=============================================================================
