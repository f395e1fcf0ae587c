----------------------------- MODULE ShipLimits -----------------------------
(* The numbers of player.sv, and what its arithmetic needs of them. *)
EXTENDS Naturals

CONSTANTS
  MaxLives,    (* 5, lives after reset                                   *)
  Shield,      (* 9'hF0, last count of the invincibility counter         *)
  Start,       (* 288, where the ship starts, in pixels                  *)
  RightEdge,   (* 576, rightmost position                                *)
  Overflow,    (* 999, from here on a position is one that wrapped       *)
  Pixels       (* 1024, positions of the register                        *)

ASSUME LivesAssumption == MaxLives \in 1 .. 7 /\ Shield \in 0 .. 1022

ASSUME PositionAssumption ==
  /\ {Start, RightEdge, Overflow, Pixels} \subseteq Nat
  /\ 0 < Start /\ Start <= RightEdge
  /\ RightEdge + 2 < Overflow /\ Overflow + 2 <= Pixels

=============================================================================
