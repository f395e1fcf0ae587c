---------------------------- MODULE EnemyMissile ----------------------------
(***************************************************************************)
(* enemy_missle.sv: when the enemies shoot, from where, and how the        *)
(* missile falls.                                                          *)
(***************************************************************************)
EXTENDS Naturals, FiniteSetsExt

CONSTANTS
  NumWaves,        (* the state after it is the victory, 4'hb           *)
  Pitch,           (* 64, width of a column                             *)
  RowHeight,       (* 32                                                *)
  Barrel,          (* 16, from the left of an enemy to its middle       *)
  PlayerBottom,    (* 480, bottom of the screen                         *)
  Delay,           (* 80 frames from the end of a missile to the next   *)
  FallStep         (* 3, pixels a missile falls in a frame              *)

VARIABLES exists, missileX, missileY, missile_timer

(* The coordinates have no reset value; they power up at 0. *)
Init == exists = FALSE /\ missileX = 0 /\ missileY = 0 /\ missile_timer = 0

(* The same registers are cleared by reset and outside of play. *)
Clear ==
  /\ exists' = FALSE
  /\ missile_timer' = 0
  /\ UNCHANGED <<missileX, missileY>>

Reset == Clear

Playing(state) == state >= 1 /\ state <= NumWaves

(* The column above the left side of the ship: its living rows. *)
ColumnAbove(playerX, enemy_status) ==
  {slot[2] : slot \in {s \in enemy_status : s[1] = playerX \div Pitch}}

(* It shoots if anyone is alive in the column, the lowest enemy first; the *)
(* timer starts again in either case.                                      *)
Launch(playerX, enemy_status, enemy_posX) ==
  LET rows == ColumnAbove(playerX, enemy_status)
  IN  /\ missileX' = (playerX \div Pitch) * Pitch + enemy_posX + Barrel
      /\ missile_timer' = 0
      /\ \/ rows = {} /\ UNCHANGED <<exists, missileY>>
         \/ rows # {} /\ exists' = TRUE /\ missileY' = RowHeight * (2 + Max(rows))

Wait ==
  /\ missile_timer' = missile_timer + 1
  /\ UNCHANGED <<exists, missileX, missileY>>

Vanish ==
  /\ exists' = FALSE
  /\ UNCHANGED <<missileX, missileY, missile_timer>>

Fall_StopsInBand ==
  /\ missileY' = IF missileY + FallStep >= PlayerBottom THEN missileY ELSE missileY + FallStep
  /\ UNCHANGED <<exists, missileX, missile_timer>>

Fall ==
  /\ missileY' = missileY + FallStep
  /\ UNCHANGED <<exists, missileX, missile_timer>>

(* posedge vsync *)
Clock(playerX, enemy_status, enemy_posX, state) ==
  \/ ~Playing(state) /\ Clear
  \/ Playing(state) /\ ~exists /\ missile_timer < Delay /\ Wait
  \/ Playing(state) /\ ~exists /\ missile_timer >= Delay
       /\ Launch(playerX, enemy_status, enemy_posX)
  \/ Playing(state) /\ exists /\ missileY >= PlayerBottom /\ Vanish
  \/ Playing(state) /\ exists /\ missileY < PlayerBottom /\ Fall

=============================================================================
