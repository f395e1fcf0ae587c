------------------------------ MODULE GameFlow ------------------------------
(***************************************************************************)
(* The rules of the game: enemy_status, state_machine and score_map wired  *)
(* together as in AstroFighters.sv, with the reset button.                 *)
(*                                                                         *)
(* Registers clocked by vsync take their new values from the old values of *)
(* all others.  enemy_status and score_map are clocked by the rising edge  *)
(* of ecollision, itself a vsync register, so a kill happens in the frame  *)
(* in which ecollision rises, with the enemy_hit of that frame, and the    *)
(* state machine sees its effect one frame later.                          *)
(*                                                                         *)
(* The missiles are left open here: in any frame the flag may rise for any *)
(* living enemy, may stay high, and the player may lose a life.  Offence   *)
(* and Defence model what decides it.                                      *)
(***************************************************************************)
EXTENDS EnemyStatus

CONSTANT MaxLives    (* 5, player.sv:39 *)

VARIABLES
  state,                                     (* stateMachine.sv *)
  score_hundreds, score_tens, score_ones,    (* score.sv        *)
  ecollision,                                (* collisionDetection.sv, the flag *)
  player_lives,                              (* player.sv, health               *)
  parity,       (* history: of the frames, so that one in which no register *)
                (* changes is a step as well and fairness asks no more than *)
                (* that frames go on                                        *)
  clean         (* history: the game began with the kill counter at 0,      *)
                (* which the button leaves as it is                         *)

Machine == INSTANCE StateMachine
Score == INSTANCE ScoreMap
Painter == INSTANCE ColorMapper
             WITH Modulus <- 1024, Pitch <- 64, RowHeight <- 32, Rows <- 6

scoreVars == <<score_hundreds, score_tens, score_ones>>
flowVars == <<enemy_status, count, sig, state, score_hundreds, score_tens,
              score_ones, ecollision, player_lives, parity, clean>>

(* Number of enemies of the waves before wave w. *)
KilledBefore[w \in 1 .. NumWaves] ==
  IF w = 1 THEN 0 ELSE KilledBefore[w - 1] + Cardinality(Wave[w - 1])

ASSUME FlowAssumption == MaxLives \in Nat \ {0}

(* The enemies of the game, 70 in the source, fit the three digits of the  *)
(* score.                                                                  *)
ASSUME ScoreAssumption ==
  \A w \in 1 .. NumWaves : KilledBefore[w] + Cardinality(Wave[w]) < 1000

Keys == {Machine!Enter, "other"}

FlowInit ==
  /\ Init
  /\ Machine!Init
  /\ Score!Init
  /\ ecollision = FALSE
  /\ player_lives = MaxLives
  /\ parity = 0 /\ clean = TRUE

(* health - 1, or not, in one frame; never below 0 (player.sv:50). *)
Lives ==
  player_lives' \in {player_lives, player_lives - 1} \cap (0 .. MaxLives)

Miss ==
  /\ ecollision' = FALSE
  /\ UNCHANGED <<vars, scoreVars>>

StillHitting ==
  /\ ecollision
  /\ enemy_status # {}
  /\ UNCHANGED <<ecollision, vars, scoreVars>>

Kill_NoScoreAtLoad ==
  /\ ~ecollision /\ ecollision' = TRUE
  /\ sig < MaxSig
  /\ \E hit \in enemy_status : Collision(hit)
  /\ IF count' = count THEN Score!Count ELSE UNCHANGED scoreVars

Kill ==
  /\ ~ecollision /\ ecollision' = TRUE
  /\ sig < MaxSig
  /\ \E hit \in enemy_status : Collision(hit)
  /\ Score!Count

(* posedge vsync *)
Frame ==
  /\ \E key \in Keys : Machine!Clock(key, enemy_status, count, player_lives)
  /\ Lives
  /\ Miss \/ StillHitting \/ Kill
  /\ parity' = 1 - parity
  /\ UNCHANGED clean

(* KEY[0] *)
FlowReset ==
  /\ Reset
  /\ Machine!Reset
  /\ Score!Reset
  /\ ecollision' = FALSE
  /\ player_lives' = MaxLives
  /\ clean' = (sig = 0)
  /\ UNCHANGED parity

FlowNext == Frame \/ FlowReset

(* vsync never stops, whatever the player does. *)
FlowSpec == FlowInit /\ [][FlowNext]_flowVars /\ WF_flowVars(Frame)

----------------------------------------------------------------------------

FlowTypeOK ==
  /\ TypeOK
  /\ Score!TypeOK
  /\ state \in 0 .. Machine!GameOver
  /\ ecollision \in BOOLEAN
  /\ player_lives \in 0 .. MaxLives
  /\ parity \in {0, 1} /\ clean \in BOOLEAN

(* Victory is announced only over a dead fleet: the last wave is being     *)
(* fought and nothing of it is left (stateMachine.sv:92).                  *)
VictoryIsEarned ==
  state = Machine!Victory => count = NumWaves /\ enemy_status = {}

(* The states the comments call Level 2 .. Level 10 are reached only when  *)
(* the array ran empty before its wave was over, so that no enemy is left  *)
(* to shoot; only the button leads out of them.                            *)
LevelStateMeansStuck ==
  state \in 2 .. NumWaves => enemy_status = {} /\ state = count + 1

(* A decided game stays decided: victory lasts until the button is         *)
(* pressed, and a lost game can only turn into a victory (the enemies left *)
(* can still be shot), never into play.                                    *)
VerdictStands ==
  [][/\ state = Machine!Victory => state' \in {Machine!Victory, 0}
     /\ clean /\ state = Machine!GameOver
          => state' \in {Machine!GameOver, Machine!Victory, 0}]_flowVars

(* The score is the number of enemies killed in this game, one per enemy,  *)
(* also across the change of waves (score.sv against enemy_status.sv).     *)
ScoreCountsKills ==
  clean => Score!Value = KilledBefore[count] + Cardinality(Wave[count])
                           - Cardinality(enemy_status)

(* What makes the literals compared with sig the right ones: every enemy   *)
(* missing from the current wave is a counted kill and every counted kill  *)
(* is a missing enemy, across frames with the flag still up, changes of    *)
(* wave and games that follow each other (enemy_status.sv:76..236).  Only  *)
(* a press in mid-wave, which leaves sig as it is, spoils the count.       *)
KillsAreCounted == clean => KillAccounting

(* The campaign of the games the button does not spoil: a game with a      *)
(* spoilt count shows nothing but the first wave.                          *)
CleanGame == INSTANCE WaveCampaign
               WITH remaining <- IF clean THEN enemy_status ELSE Wave[1],
                    wave <- IF clean THEN count ELSE 1

(* The rules implement the campaign: the waves in order, the next one      *)
(* exactly at the death of the last enemy, the first one at every press of *)
(* the button (enemy_status.sv:53..236).                                   *)
FollowsCampaign == CleanGame!Spec

(* The outcome is announced in every state of the machine, the start       *)
(* screen included: a dead fleet is a victory; a player without lives is   *)
(* told so, unless the array got stuck (stateMachine.sv:92-98).            *)
VerdictIsShown ==
  /\ count = NumWaves /\ enemy_status = {} ~> state = Machine!Victory \/ count = 1
  /\ clean /\ state >= 1 /\ player_lives = 0
       ~> state \in {Machine!GameOver, Machine!Victory} \/ player_lives > 0

(* Color_Mapper.sv:104 asks for the third sprite in waves 7, 9 "and" 10:   *)
(* an enemy that can be shot at is painted.                                *)
EnemiesAreShown ==
  state \in 1 .. NumWaves /\ enemy_status # {}
    => Painter!Scene(state, count) = "battle"

(* stateMachine.sv names state k "Level k". *)
StateNamesLevel == state \in 1 .. NumWaves => state = count

=============================================================================
