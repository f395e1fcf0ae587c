-------------------------- MODULE EnemyController --------------------------
(***************************************************************************)
(* enemy_controller.sv: the sway of the enemy array.                       *)
(*                                                                         *)
(* Positions are kept in quarters of a pixel: x_pos[11:2] is the offset    *)
(* the other modules see.  `spaz' is one bit wide and its increment        *)
(* 3'h100 is 0 in three bits, so it stays 0 and the branches that depend   *)
(* on it always take their first side (stuck in output_files/adder2.map.rpt)*)
(***************************************************************************)
EXTENDS SwayLimits

VARIABLES
  x_pos, x_movement,   (* x_movement: TRUE while moving to the right *)
  y_pos, y_movement    (* y_movement: TRUE while moving down         *)

vars == <<x_pos, x_movement, y_pos, y_movement>>

Pixel(pos) == pos \div 4
Fraction(pos) == pos % 4

enemy_posX == Pixel(x_pos)
enemy_posY == Pixel(y_pos)

Init ==
  /\ x_pos = 0 /\ x_movement = TRUE
  /\ y_pos = 0 /\ y_movement = TRUE

Reset ==
  /\ x_pos' = 0 /\ x_movement' = TRUE
  /\ y_pos' = 0 /\ y_movement' = TRUE

Slow(count) == count <= 3 \/ count = 6

Step_Jumps(count) ==
  IF Slow(count) THEN 1 ELSE IF count \in {4, 5, 8} THEN 6 ELSE 2

Step(count) ==
  IF Slow(count) THEN 1 ELSE IF count \in {4, 5, 8} THEN 3 ELSE 2

(* One step of a position in its direction, 12 bits wide. *)
Moved(pos, forward, step) ==
  (IF forward THEN pos + step ELSE pos + 4096 - step) % 4096

(* Beyond the far end the pixel part is set back, the fraction stays. *)
Clamped_Early(pos, far) == IF Pixel(pos) >= far THEN 4 * (far - 1) + Fraction(pos) ELSE pos

Clamped_OnePastTheEnd(pos, far) ==
  IF Pixel(pos) >= far THEN 4 * (far + 1) + Fraction(pos) ELSE pos

Clamped(pos, far) == IF Pixel(pos) >= far THEN 4 * far + Fraction(pos) ELSE pos

(* The direction after a step: the test for the near end comes last. *)
Turned(pos, forward, far) ==
  IF Pixel(pos) = 0 THEN TRUE ELSE IF Pixel(pos) >= far THEN FALSE ELSE forward

SweepX(count) ==
  LET moved == Moved(x_pos, x_movement, Step(count))
  IN  /\ x_pos' = Clamped(moved, MaxShift)
      /\ x_movement' = Turned(moved, x_movement, MaxShift)

(* The array only bobs in the slow waves; no module reads enemy_posY. *)
SweepY(count) ==
  \/ /\ Slow(count)
     /\ LET moved == Moved(y_pos, y_movement, 1)
        IN  /\ y_pos' = Clamped(moved, MaxDrop)
            /\ y_movement' = Turned(moved, y_movement, MaxDrop)
  \/ ~Slow(count) /\ UNCHANGED <<y_pos, y_movement>>

(* posedge v_sync *)
Clock(count) == SweepX(count) /\ SweepY(count)

(* Any wave in any frame: a kill or the button may change it at any time.  *)
Frame == \E count \in 1 .. 10 : Clock(count)

Next == Frame \/ Reset

(* vsync never stops, whatever the button does. *)
Spec == Init /\ [][Next]_vars /\ WF_vars(Frame)

----------------------------------------------------------------------------

TypeOK ==
  /\ x_pos \in 0 .. 4 * MaxShift + 3 /\ x_movement \in BOOLEAN
  /\ y_pos \in 0 .. 4 * MaxDrop + 3 /\ y_movement \in BOOLEAN

(* The array stays inside its span although its speed changes with the     *)
(* wave in mid-sweep: it never steps left of 0 (12-bit wrap, which would   *)
(* throw it off the screen), because it turns with a pixel to spare.       *)
NoUnderflow ==
  /\ ~x_movement => x_pos >= 4
  /\ ~y_movement => y_pos >= 4

(* No pixel of the sweep is jumped over at any speed; Offence needs this   *)
(* for a stuck collision flag to fall again.                               *)
NoSkippedPixel ==
  [][Reset \/ (enemy_posX' <= enemy_posX + 1 /\ enemy_posX <= enemy_posX' + 1)]_vars

============================================================================
