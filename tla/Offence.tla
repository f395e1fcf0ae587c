------------------------------ MODULE Offence ------------------------------
(***************************************************************************)
(* The player against the enemies: player_missile, the enemy half of       *)
(* collision_detection, enemy_controller and enemy_status wired together   *)
(* as in AstroFighters.sv.                                                 *)
(*                                                                         *)
(* In a frame every vsync register is computed from the old registers.     *)
(* enemy_status is clocked by the rising edge of ecollision and uses the   *)
(* enemy_hit written at the same edge.                                     *)
(*                                                                         *)
(* The ship is an input: it fires, or not, from any of ShipPositions       *)
(* (module Player shows the range of the real ones).                       *)
(***************************************************************************)
EXTENDS Integers, FiniteSets

CONSTANTS
  NumWaves, Wave, Threshold, MaxSig,              (* EnemyStatus        *)
  Modulus, Pitch, RowHeight, Rows, Columns,       (* CollisionDetection *)
  Muzzle, FireY, MissileStep,                     (* PlayerMissile      *)
  MaxShift,                                       (* EnemyController    *)
  ShipPositions                                   (* x of the ship      *)

VARIABLES
  pmissile_exists, playerMissileX, playerMissileY,
  ecollision, enemy_hit,
  x_pos, x_movement,
  enemy_status, count, sig

Array == INSTANCE EnemyStatus
Missile == INSTANCE PlayerMissile WITH exists <- pmissile_exists
Detector == INSTANCE CollisionDetection
              WITH pcollision <- FALSE, PlayerTop <- 0, PlayerBottom <- 0
Controller == INSTANCE EnemyController
                WITH y_pos <- 0, y_movement <- TRUE, MaxDrop <- 1

Painter == INSTANCE ColorMapper

arrayVars == <<enemy_status, count, sig>>
vars == <<pmissile_exists, playerMissileX, playerMissileY, ecollision,
          enemy_hit, x_pos, x_movement, enemy_status, count, sig>>

(* What the numbers of the source have in common with the smaller ones of  *)
(* the runs: columns fill the coordinate and shots come down to 0 exactly; *)
(* the sway fits the twelve bits of x_pos and is more than the width of a  *)
(* sprite, a shot from the leftmost position stays right of the swaying    *)
(* array's gap, and one from the rightmost position is over the last       *)
(* column.                                                                 *)
ASSUME GeometryAssumption ==
  /\ {Modulus, Pitch, RowHeight, Rows, Columns, FireY, MissileStep} \subseteq Nat \ {0}
  /\ Muzzle \in Nat /\ ShipPositions \subseteq Nat
  /\ MaxShift \in 1 .. 1000
  /\ Modulus % Pitch = 0 /\ FireY % MissileStep = 0
  /\ MaxShift + 1 > Pitch \div 2
  /\ MaxShift <= Muzzle + Pitch \div 2
  /\ \A x \in ShipPositions : x + Muzzle < Columns * Pitch
  /\ Columns * Pitch <= Modulus
  /\ FireY \div RowHeight > Rows

Init ==
  /\ Missile!Init
  /\ ecollision = FALSE /\ enemy_hit = <<0, 0>>
  /\ x_pos = 0 /\ x_movement = TRUE
  /\ Array!Init

RisingEdge == ecollision' /\ ~ecollision

(* enemy_status does not see a flag that stays high. *)
ArrayClock ==
  \/ RisingEdge /\ sig < MaxSig /\ Array!Collision(enemy_hit')
  \/ ~RisingEdge /\ UNCHANGED arrayVars

(* posedge VGA_VS *)
Frame ==
  /\ \E playerx \in ShipPositions, create \in BOOLEAN :
       Missile!Clock(playerx, create, ecollision)
  /\ Detector!DetectEnemyHit(playerMissileX, playerMissileY,
                             Controller!enemy_posX, enemy_status)
  /\ Controller!SweepX(count)
  /\ ArrayClock

(* KEY[0] *)
Reset ==
  /\ Missile!Reset
  /\ ecollision' = FALSE /\ UNCHANGED enemy_hit
  /\ x_pos' = 0 /\ x_movement' = TRUE
  /\ Array!Reset

CleanReset == sig = 0 /\ Reset

Next == Frame \/ CleanReset

(* vsync never stops; the array moves in every frame, so that none of them *)
(* is a stutter.                                                           *)
Spec == Init /\ [][Next]_vars /\ WF_vars(Frame)

----------------------------------------------------------------------------

TypeOK ==
  /\ Array!TypeOK
  /\ pmissile_exists \in BOOLEAN /\ ecollision \in BOOLEAN
  /\ playerMissileX \in 0 .. Columns * Pitch - 1
  /\ playerMissileY \in 0 .. FireY
  /\ x_pos \in 0 .. 4 * MaxShift + 3 /\ x_movement \in BOOLEAN

(* enemy_status is never read outside its ten columns: the four-bit column *)
(* index can be 10 .. 15 when the subtraction wraps, but then the missile  *)
(* is not over a sprite (collisionDetection.sv:46, 107).                   *)
ReadsInsideArray ==
  Detector!InSprite(playerMissileX, playerMissileY, Controller!enemy_posX)
    => Detector!Target(playerMissileX, playerMissileY, Controller!enemy_posX)
         \in (0 .. Columns - 1) \X (0 .. Rows - 1)

(* What is hit is what is drawn: the detector's sprite boxes and the       *)
(* painter's cells are the same pixels for a missile in flight, although   *)
(* only the painter guards against the wrap of the subtraction             *)
(* (collisionDetection.sv:107 against Color_Mapper.sv:562).                *)
HitsWhatIsDrawn ==
  ( /\ Detector!InSprite(playerMissileX, playerMissileY, Controller!enemy_posX)
    /\ Detector!Target(playerMissileX, playerMissileY, Controller!enemy_posX)
         \in enemy_status )
  <=> Painter!EnemyAt(playerMissileX, playerMissileY, Controller!enemy_posX,
                      enemy_status)

(* The detector drives the array only with hits on living enemies, one at  *)
(* a time: seen from enemy_status, Offence is one of the environments it   *)
(* is specified for, so a kill is never counted twice or for nobody.       *)
DrivesArray == Array!CleanSpec

(* A collision flag that is stuck high because the erased missile still    *)
(* lies on a living enemy falls again, so that the player can shoot: the   *)
(* array sways by more than half a column.                                 *)
FlagFalls == ecollision ~> ~ecollision

(* No shot flies for ever (and with it, the player can shoot again). *)
ShotEnds == pmissile_exists ~> ~pmissile_exists

(* collisionDetection.sv: the flags "are only high for a single vsync      *)
(* cycle".                                                                 *)
SingleCycleFlag == [][ecollision => ~ecollision']_vars

(* player.sv: "if we have collided, then erase the missile": what is       *)
(* erased kills nobody any more.                                           *)
KillsNeedMissile == [][RisingEdge => pmissile_exists]_vars

============================================================================
