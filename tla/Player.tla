------------------------------- MODULE Player -------------------------------
(***************************************************************************)
(* player.sv, module player: the ship's position, the fire command, the    *)
(* lives and the invincibility that follows a hit.                         *)
(*                                                                         *)
(* Its two halves share no register: Move reads the keyboard, TakeHit the  *)
(* flag of the collision detector.                                         *)
(***************************************************************************)
EXTENDS ShipLimits, Integers

VARIABLES
  subpixel_position,    (* quarters of a pixel, 12 bits              *)
  pmissile_create,
  health,
  invincible, invincible_counter,
  player_unkillable

vars == <<subpixel_position, pmissile_create, health, invincible,
          invincible_counter, player_unkillable>>

x_pos == subpixel_position \div 4

Fraction(position) == position % 4

Keys == {"a", "d", "space", "other"}   (* 8'd4, 8'd7, 8'd44 and the rest *)

Init ==
  /\ subpixel_position = 4 * Start
  /\ pmissile_create = FALSE
  /\ health = MaxLives
  /\ invincible = FALSE /\ invincible_counter = 0
  /\ player_unkillable = FALSE

(* Only the pixel part of the position is reset. *)
Reset ==
  /\ subpixel_position' = 4 * Start + Fraction(subpixel_position)
  /\ pmissile_create' = FALSE
  /\ health' = MaxLives
  /\ invincible' = FALSE /\ invincible_counter' = 0
  /\ player_unkillable' = FALSE

(* A position in its register, 12 bits wide. *)
Wrapped(position) ==
  IF position < 0 THEN position + 4 * Pixels
  ELSE IF position >= 4 * Pixels THEN position - 4 * Pixels
  ELSE position

(* The position after the key, before the bounds. *)
Steered(keycode) ==
  CASE keycode = "a" -> Wrapped(subpixel_position - 6)
    [] keycode = "d" -> Wrapped(subpixel_position + 6)
    [] OTHER         -> subpixel_position

Bounded_NoOverflowCheck(position) ==
  LET pixel == position \div 4
  IN  IF pixel = 0 THEN 0
      ELSE IF pixel > RightEdge THEN 4 * RightEdge + Fraction(position)
      ELSE position

(* Left bound, overflow to the left, right bound, in this order. *)
Bounded(position) ==
  LET pixel == position \div 4
  IN  IF pixel = 0 \/ pixel >= Overflow THEN 0
      ELSE IF pixel > RightEdge THEN 4 * RightEdge + Fraction(position)
      ELSE position

Move_Unbounded(keycode) ==
  /\ subpixel_position' = Steered(keycode)
  /\ pmissile_create' = (keycode = "space")

(* A key for moving leaves the fire command as it was. *)
Move(keycode) ==
  /\ subpixel_position' = Bounded(Steered(keycode))
  /\ pmissile_create' =
       CASE keycode = "space" -> TRUE
         [] keycode = "other" -> FALSE
         [] OTHER             -> pmissile_create

Vulnerable_Always == health > 0

Vulnerable == health > 0 /\ ~invincible

LoseLife ==
  /\ health' = health - 1
  /\ invincible' = TRUE
  /\ invincible_counter' = 0
  /\ player_unkillable' = TRUE

CountShield ==
  /\ invincible_counter' = invincible_counter + 1
  /\ player_unkillable' = TRUE
  /\ UNCHANGED <<health, invincible>>

DropShield ==
  /\ invincible' = FALSE
  /\ invincible_counter' = 0
  /\ player_unkillable' = FALSE
  /\ UNCHANGED health

TakeHit(pcollision) ==
  LET hit      == pcollision /\ Vulnerable
      shielded == invincible /\ invincible_counter <= Shield
  IN  \/ hit /\ LoseLife
      \/ ~hit /\ shielded /\ CountShield
      \/ ~hit /\ ~shielded /\ DropShield

(* posedge vsync *)
Clock(keycode, pcollision) == Move(keycode) /\ TakeHit(pcollision)

Frame == \E keycode \in Keys, pcollision \in BOOLEAN : Clock(keycode, pcollision)

Next == Frame \/ Reset

Spec == Init /\ [][Next]_vars

----------------------------------------------------------------------------

TypeOK ==
  /\ subpixel_position \in 0 .. 4 * Pixels - 1
  /\ pmissile_create \in BOOLEAN
  /\ health \in 0 .. MaxLives
  /\ invincible \in BOOLEAN /\ invincible_counter \in 0 .. Shield + 1
  /\ player_unkillable = invincible

(* The ship never leaves the screen, also when its 12-bit position wraps   *)
(* at the left edge or a reset keeps a fraction of it (player.sv:82..91).  *)
OnScreen == x_pos <= RightEdge

(* It never jumps either: the wrap at the left edge must not come out at   *)
(* the right one.                                                          *)
NoTeleport ==
  [][Reset \/ (x_pos' <= x_pos + 2 /\ x_pos <= x_pos' + 2)]_vars

=============================================================================
