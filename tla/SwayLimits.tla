----------------------------- MODULE SwayLimits -----------------------------
(* The span of enemy_controller.sv. *)
EXTENDS Naturals

CONSTANTS
  MaxShift,   (* 32, rightmost offset in pixels *)
  MaxDrop     (* 20, lowest offset in pixels    *)

ASSUME ShiftAssumption == MaxShift \in 1 .. 1000 /\ MaxDrop \in 1 .. 1000

=============================================================================
