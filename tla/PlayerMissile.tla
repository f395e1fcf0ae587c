--------------------------- MODULE PlayerMissile ---------------------------
(***************************************************************************)
(* player.sv, module player_missile: the one missile of the player.        *)
(* creation_flag is recomputed from create before it is read, so it is not *)
(* a state of its own.                                                     *)
(***************************************************************************)
EXTENDS Integers

CONSTANTS
  Muzzle,        (* 30, from the left side of the ship to its middle *)
  FireY,         (* 448, where a shot starts                         *)
  MissileStep    (* 4, pixels a shot climbs in a frame               *)

VARIABLES exists, playerMissileX, playerMissileY

position == <<playerMissileX, playerMissileY>>

Init == exists = FALSE /\ playerMissileX = 0 /\ playerMissileY = 0

Reset == exists' = FALSE /\ playerMissileX' = 0 /\ playerMissileY' = 0

(* Erasing a missile leaves its coordinates behind. *)
Erase == exists' = FALSE /\ UNCHANGED position

Fire(playerx) ==
  /\ exists' = TRUE
  /\ playerMissileX' = playerx + Muzzle
  /\ playerMissileY' = FireY

Climb_PastTop ==
  /\ playerMissileY' = IF playerMissileY = 0 THEN FireY ELSE playerMissileY - MissileStep
  /\ UNCHANGED <<exists, playerMissileX>>

Climb ==
  /\ playerMissileY' = playerMissileY - MissileStep
  /\ UNCHANGED <<exists, playerMissileX>>

Clock_TopIgnored(playerx, create, has_collided) ==
  \/ has_collided /\ Erase
  \/ ~has_collided /\ ~exists /\ create /\ Fire(playerx)
  \/ ~has_collided /\ ~exists /\ ~create /\ UNCHANGED <<exists, position>>
  \/ ~has_collided /\ exists /\ Climb_PastTop

(* posedge vsync *)
Clock(playerx, create, has_collided) ==
  \/ has_collided /\ Erase
  \/ ~has_collided /\ ~exists /\ create /\ Fire(playerx)
  \/ ~has_collided /\ ~exists /\ ~create /\ UNCHANGED <<exists, position>>
  \/ ~has_collided /\ exists /\ playerMissileY = 0 /\ Erase
  \/ ~has_collided /\ exists /\ playerMissileY # 0 /\ Climb

============================================================================
