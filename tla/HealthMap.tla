----------------------------- MODULE HealthMap -----------------------------
(***************************************************************************)
(* health.sv: the health shown on the screen, 100 down to 0 in steps of    *)
(* 20, clocked by the rising edge of the collision flag of the enemies'    *)
(* missile.  It counts on its own: player.sv's lives are not an input.     *)
(***************************************************************************)
EXTENDS Naturals

VARIABLES health_hundreds, health_tens, check

vars == <<health_hundreds, health_tens, check>>

Init == health_hundreds = 1 /\ health_tens = 0 /\ check = 0

Reset == health_hundreds' = 1 /\ health_tens' = 0 /\ check' = 0

Drop_HalfAsFast ==
  \/ /\ health_hundreds = 1
     /\ health_hundreds' = 0 /\ health_tens' = 9 /\ check' = 1
  \/ /\ health_hundreds # 1 /\ health_tens > 0 /\ check # 0
     /\ health_tens' = health_tens - 1
     /\ UNCHANGED <<health_hundreds, check>>
  \/ /\ health_hundreds # 1 /\ health_tens = 0
     /\ health_tens' = 0 /\ check' = 0
     /\ UNCHANGED health_hundreds

(* posedge player_collision.  A last case, tens left but check = 0, holds  *)
(* all digits; check is 1 whenever tens is not 0, so it never happens.     *)
Drop ==
  \/ /\ health_hundreds = 1
     /\ health_hundreds' = 0 /\ health_tens' = 8 /\ check' = 1
  \/ /\ health_hundreds # 1 /\ health_tens > 0 /\ check # 0
     /\ health_tens' = health_tens - 2
     /\ UNCHANGED <<health_hundreds, check>>
  \/ /\ health_hundreds # 1 /\ health_tens = 0
     /\ health_tens' = 0 /\ check' = 0
     /\ UNCHANGED health_hundreds

Shown == 100 * health_hundreds + 10 * health_tens

============================================================================
