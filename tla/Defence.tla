------------------------------ MODULE Defence ------------------------------
(***************************************************************************)
(* The enemies against the player: enemy_missile, the player half of       *)
(* collision_detection, the lives of player, health_map and state_machine  *)
(* wired together as in AstroFighters.sv.                                  *)
(*                                                                         *)
(* In a frame every vsync register is computed from the old registers;     *)
(* health_map is clocked by the rising edge of pcollision.                 *)
(*                                                                         *)
(* Inputs: the position of the ship and of the array, free in every frame, *)
(* and the living enemies, which change freely (kills and new waves) until *)
(* the last one of the last wave is dead.                                  *)
(***************************************************************************)
EXTENDS Integers

CONSTANTS
  NumWaves, Pitch, RowHeight, Barrel, Delay, FallStep,  (* EnemyMissile *)
  Modulus, Rows, PlayerTop, PlayerBottom,       (* CollisionDetection   *)
  MaxLives, Shield,                             (* Player               *)
  ShipPositions,                                (* x of the ship        *)
  Shifts,                                       (* x of the array       *)
  Fleets                                        (* arrays of enemies    *)

VARIABLES
  emissile_exists, missileX, missileY, missile_timer,
  pcollision,
  health, invincible, invincible_counter, player_unkillable,
  health_hundreds, health_tens, check,
  state,
  enemy_status,
  losses         (* history: lives lost since the last missile was launched *)

Missile == INSTANCE EnemyMissile WITH exists <- emissile_exists
Detector == INSTANCE CollisionDetection
              WITH ecollision <- FALSE, enemy_hit <- <<0, 0>>
Ship == INSTANCE Player
          WITH subpixel_position <- 0, pmissile_create <- FALSE,
               Start <- 0, RightEdge <- 0, Overflow <- 0, Pixels <- 0
Display == INSTANCE HealthMap
Machine == INSTANCE StateMachine

vars == <<emissile_exists, missileX, missileY, missile_timer, pcollision,
          health, invincible, invincible_counter, player_unkillable,
          health_hundreds, health_tens, check, state, enemy_status, losses>>

displayVars == <<health_hundreds, health_tens, check>>

(* Fleets fill the rows of the array; the ship is not at the very top of   *)
(* the screen, where missileY powers up; the bar starts at 100, a life is  *)
(* worth 20 of it.                                                         *)
ASSUME DefenceAssumption ==
  /\ NumWaves \in Nat \ {0} /\ Rows \in Nat \ {0} /\ PlayerTop \in Nat \ {0}
  /\ RowHeight \in Nat /\ FallStep \in Nat /\ PlayerBottom \in Nat
  /\ MaxLives \in Nat /\ Shield \in Nat
  /\ \A fleet \in Fleets : fleet \subseteq Nat \X (0 .. Rows - 1)
  /\ 20 * MaxLives >= 100

(* The shield outlasts the fall of a missile across the ship, by far in    *)
(* the source: 242 frames against 10.                                      *)
ASSUME ShieldAssumption == (Shield + 3) * FallStep >= PlayerBottom - PlayerTop

Init ==
  /\ Missile!Init
  /\ pcollision = FALSE
  /\ health = MaxLives /\ invincible = FALSE /\ invincible_counter = 0
  /\ player_unkillable = FALSE
  /\ Display!Init
  /\ Machine!Init
  /\ enemy_status \in Fleets
  /\ losses = 0

(* An empty array stays empty: it is the last wave's. *)
Battle ==
  enemy_status' \in IF enemy_status = {} THEN {{}} ELSE Fleets \cup {{}}

(* posedge VGA_VS; count matters to the state machine only when the array  *)
(* is empty, and then the last wave is being fought.                       *)
Frame ==
  /\ \E playerX \in ShipPositions, enemy_posX \in Shifts :
       /\ Missile!Clock(playerX, enemy_status, enemy_posX, state)
       /\ Detector!DetectPlayerHit(missileX, missileY, playerX)
  /\ Ship!TakeHit(pcollision)
  /\ \/ pcollision' /\ ~pcollision /\ Display!Drop
     \/ ~(pcollision' /\ ~pcollision) /\ UNCHANGED displayVars
  /\ \E key \in {Machine!Enter, "other"} :
       Machine!Clock(key, enemy_status, NumWaves, health)
  /\ Battle
  /\ losses' = IF ~emissile_exists /\ emissile_exists' THEN 0
               ELSE losses + (health - health')

(* KEY[0]; the array starts its first wave. *)
Reset ==
  /\ Missile!Reset
  /\ pcollision' = FALSE
  /\ health' = MaxLives /\ invincible' = FALSE /\ invincible_counter' = 0
  /\ player_unkillable' = FALSE
  /\ Display!Reset
  /\ Machine!Reset
  /\ enemy_status' \in Fleets
  /\ losses' = 0

Next == Frame \/ Reset

Spec == Init /\ [][Next]_vars /\ WF_vars(Frame)

(* The button pressed only while no missile, erased ones included, is at   *)
(* the height of the ship.                                                 *)
CleanReset ==
  ~pcollision /\ missileY \notin PlayerTop .. PlayerBottom - 1 /\ Reset

CleanNext == Frame \/ CleanReset

CleanSpec == Init /\ [][CleanNext]_vars /\ WF_vars(Frame)

----------------------------------------------------------------------------

Level == state \in 1 .. NumWaves

Lives == 20 * health

(* While the game is on, a missile costs at most one life although its     *)
(* flag stays high for many frames, however the ship moves under it.       *)
OneLifePerMissile == Level => losses <= 1

(* The display follows the edges of the flag and the lives its level, the  *)
(* lives a frame later: the player is never shown more health than left.   *)
DisplayNeverFlatters == Level => Display!Shown <= Lives

(* Every missile reaches the end of its way, and the invincibility of a    *)
(* ship that was hit runs out.                                             *)
NothingHangs ==
  /\ emissile_exists ~> ~emissile_exists
  /\ invincible ~> ~invincible

(* health.sv: "choose which health to print": the number printed is the    *)
(* player's health, once the hit being registered has settled.             *)
DisplayShowsLives ==
  Level /\ ~pcollision => Display!Shown = Lives

(* player.sv: "if we're hit by a missile, ... remove a life"; on the start *)
(* screen there are no missiles.                                           *)
StartScreenIsSafe == state = 0 => health = MaxLives

(* enemy_missile.sv: the closest enemy "shoots a missile every 2 seconds". *)
EnemiesShoot ==
  Level /\ enemy_status # {} /\ ~emissile_exists
    ~> emissile_exists \/ ~Level \/ enemy_status = {}

============================================================================
