---------------------------- MODULE StateMachine ----------------------------
(***************************************************************************)
(* stateMachine.sv: which screen the game is in, clocked by vsync.         *)
(*                                                                         *)
(* State 0 waits for the start key, states 1 .. NumWaves are called levels *)
(* in the comments, then come the victory and the game-over states.        *)
(***************************************************************************)
EXTENDS Naturals

CONSTANT NumWaves

VARIABLE state

Victory == NumWaves + 1    (* 4'hb *)
GameOver == NumWaves + 2   (* 4'hc *)

(* Keys the game tells apart; the other keys of the keyboard are "other".  *)
Enter == "enter"           (* 8'd40 *)

Init == state = 0

Reset == state' = 0

(* The chain without the priority of the start key, then without the       *)
(* priority of an empty array over a lost game.                            *)
NextState_OverFirst(key_pressed, enemy_array, count, player_lives) ==
  IF state = 0 /\ key_pressed = Enter THEN 1
  ELSE IF state >= 1 /\ player_lives = 0 THEN GameOver
  ELSE IF enemy_array = {} THEN count + 1
  ELSE state

NextState_NoEmptyCheck(key_pressed, enemy_array, count, player_lives) ==
  IF state = 0 /\ key_pressed = Enter THEN 1
  ELSE IF count = NumWaves THEN count + 1
  ELSE IF state >= 1 /\ player_lives = 0 THEN GameOver
  ELSE state

NextState_OverNever(key_pressed, enemy_array, count, player_lives) ==
  IF state = 0 /\ key_pressed = Enter THEN 1
  ELSE IF enemy_array = {} THEN count + 1
  ELSE IF state > 1 /\ player_lives = 0 THEN GameOver
  ELSE state

NextState_SameLevel(key_pressed, enemy_array, count, player_lives) ==
  IF state = 0 /\ key_pressed = Enter THEN 1
  ELSE IF enemy_array = {} THEN IF count = NumWaves THEN Victory ELSE count
  ELSE IF state >= 1 /\ player_lives = 0 THEN GameOver
  ELSE IF state >= 1 /\ state <= NumWaves THEN count
  ELSE state

(* One branch per count in the source, all with the same shape: an empty   *)
(* array moves to the state after the one named like the wave.             *)
NextState(key_pressed, enemy_array, count, player_lives) ==
  IF state = 0 /\ key_pressed = Enter THEN 1
  ELSE IF enemy_array = {} THEN count + 1
  ELSE IF state >= 1 /\ player_lives = 0 THEN GameOver
  ELSE state

(* posedge vsync *)
Clock(key_pressed, enemy_array, count, player_lives) ==
  state' = NextState(key_pressed, enemy_array, count, player_lives)

=============================================================================
