------------------------------ MODULE Picture ------------------------------
(***************************************************************************)
(* What moves on the screen, and when: vga_controller, player and          *)
(* enemy_controller wired together as in AstroFighters.sv, where the       *)
(* rising edge of VGA_VS is the clock of the ship and of the array.        *)
(*                                                                         *)
(* The keys, the wave and the flag of the detector are free at every edge. *)
(***************************************************************************)
EXTENDS VgaController, ShipLimits, SwayLimits

VARIABLES
  subpixel_position, pmissile_create, health, invincible, invincible_counter,
  player_unkillable,                                   (* player.sv           *)
  x_pos, x_movement, y_pos, y_movement                 (* enemy_controller.sv *)

Ship == INSTANCE Player
Sway == INSTANCE EnemyController

shipVars == <<subpixel_position, pmissile_create, health, invincible,
              invincible_counter, player_unkillable>>
swayVars == <<x_pos, x_movement, y_pos, y_movement>>
pictureVars == <<clkdiv, hc, vc, hs, vs, ticks, first, shipVars, swayVars>>

PictureInit == Init /\ Ship!Init /\ Sway!Init

(* posedge Clk, which now and then raises VGA_VS. *)
PictureEdge ==
  /\ ClkEdge
  /\ \/ Tick /\ Ship!Frame /\ Sway!Frame
     \/ ~Tick /\ UNCHANGED <<shipVars, swayVars>>

(* KEY[0] *)
PictureReset == Reset /\ Ship!Reset /\ Sway!Reset

PictureNext == PictureEdge \/ PictureReset

(* Nothing but the oscillator is assumed to go on. *)
PictureSpec ==
  PictureInit /\ [][PictureNext]_pictureVars /\ WF_pictureVars(PictureEdge)

----------------------------------------------------------------------------

(* What the beam paints: the ship, the missile it is about to fire, and    *)
(* the array (the other registers of the game have the same clock).        *)
Scenery == <<Ship!x_pos, pmissile_create, health, player_unkillable,
             Sway!enemy_posX, Sway!enemy_posY>>

(* No picture shows two states of the game: except for the button, what is *)
(* painted changes only while the beam is off the screen, or before the    *)
(* first pixel after a reset.                                              *)
PictureHoldsStill ==
  [][Scenery' = Scenery \/ Reset \/ ~display \/ (first /\ hc = 0 /\ vc = 0)]_pictureVars

(* The ship stays on the screen and moves smoothly. *)
OnScreen == Ship!OnScreen
NoTeleport == Ship!NoTeleport

(* The array jumps over no pixel, at whatever speed it turns. *)
NoSkippedPixel == Sway!NoSkippedPixel

(* With no other clock than the beam's, the game goes on for ever, unless  *)
(* the button interrupts it for ever, and the array reaches both ends of   *)
(* its sway again and again, in whatever waves.                            *)
GameRunsOn ==
  /\ GameClockRuns
  /\ []<>(Sway!enemy_posX = 0)
  /\ []<><<PictureReset>>_pictureVars \/ []<>(Sway!enemy_posX = MaxShift)

=============================================================================
