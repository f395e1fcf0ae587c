--------------------------- MODULE WaveCampaign ---------------------------
(***************************************************************************)
(* What the enemy array promises to the rest of the game, without the      *)
(* kill counter the hardware uses to keep the promise: the waves are       *)
(* fought in order, an enemy dies once, and the next wave appears exactly  *)
(* when the last enemy of the current one dies.  EnemyStatus.tla is shown  *)
(* to implement this specification.                                        *)
(***************************************************************************)
EXTENDS Naturals

CONSTANTS
  NumWaves,   (* number of waves of the game                     *)
  Wave        (* Wave[w]: the slots that wave w occupies         *)

VARIABLES
  remaining,  (* the slots whose enemy is alive                  *)
  wave        (* the wave being fought                           *)

vars == <<remaining, wave>>

Init ==
  /\ wave = 1
  /\ remaining = Wave[1]

(* An enemy that is not the last one of its wave, or one of the last wave. *)
Kill(enemy) ==
  /\ enemy \in remaining
  /\ remaining # {enemy} \/ wave = NumWaves
  /\ remaining' = remaining \ {enemy}
  /\ UNCHANGED wave

(* The last enemy of a wave brings the next one. *)
ClearWave(enemy) ==
  /\ remaining = {enemy}
  /\ wave < NumWaves
  /\ wave' = wave + 1
  /\ remaining' = Wave[wave + 1]

(* The reset button brings back the first wave. *)
Restart ==
  /\ wave' = 1
  /\ remaining' = Wave[1]

Next ==
  \/ \E enemy \in remaining : Kill(enemy) \/ ClearWave(enemy)
  \/ Restart

Spec == Init /\ [][Next]_vars

===========================================================================
