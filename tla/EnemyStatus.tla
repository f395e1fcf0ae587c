---------------------------- MODULE EnemyStatus ----------------------------
(***************************************************************************)
(* enemy_status.sv: which enemies are alive and which wave is being fought.*)
(*                                                                         *)
(* The process is clocked by the rising edge of `collision', a flag of the *)
(* collision detector, not by vsync.  It holds the array of living enemies *)
(* (here the set of occupied slots <<column, row>>), the wave number       *)
(* `count' and `sig', the number of kills seen in the current wave.  A     *)
(* wave ends when sig reaches a literal of the source, here Threshold.     *)
(*                                                                         *)
(* The registers wave2..wave10 are written with a constant in the very     *)
(* step that copies them, so in simulation the first copy would be         *)
(* undefined; synthesis finds every one of their bits stuck at its         *)
(* constant (output_files/adder2.map.rpt, "Registers Removed During        *)
(* Synthesis"), so Wave[w] is a constant here as it is in the device.      *)
(* The same report lists the bits that power up high: they are those of    *)
(* the reset values below, and sig, which has no reset, powers up at 0.    *)
(***************************************************************************)
EXTENDS Naturals, FiniteSets

CONSTANTS
  NumWaves,   (* 10                                                        *)
  Wave,       (* Wave[w]: slots occupied when wave w appears               *)
  Threshold,  (* Threshold[w]: value of sig at which wave w + 1 is loaded  *)
  MaxSig      (* bound on sig for model checking (60 bits in the source)   *)

(* What the literals of the source satisfy: wave w has Threshold[w] + 1    *)
(* enemies.  TLC evaluates it on the waves of the game.                    *)
ASSUME WaveAssumption ==
  /\ NumWaves \in Nat \ {0}
  /\ \A w \in 1 .. NumWaves : IsFiniteSet(Wave[w]) /\ Wave[w] # {}
  /\ \A w \in 1 .. NumWaves - 1 :
        /\ Threshold[w] \in Nat
        /\ Cardinality(Wave[w]) = Threshold[w] + 1

VARIABLES
  enemy_status,  (* slots whose enemy is alive             *)
  count,         (* current wave                           *)
  sig            (* kills counted in the current wave      *)

vars == <<enemy_status, count, sig>>

Init ==
  /\ enemy_status = Wave[1]
  /\ count = 1
  /\ sig = 0

(* posedge reset: sig is not among the registers that are reset. *)
Reset ==
  /\ enemy_status' = Wave[1]
  /\ count' = 1
  /\ UNCHANGED sig

----------------------------------------------------------------------------
(* Wrong variants of the definitions that follow, each a slip the source   *)
(* could contain; the runs show which property would notice it.            *)

WaveCleared_OffByOne == count < NumWaves /\ sig + 1 = Threshold[count]

LoadWave_SigKept ==
  /\ enemy_status' = Wave[count + 1]
  /\ count' = count + 1
  /\ sig' = sig + 1

----------------------------------------------------------------------------

WaveCleared == count < NumWaves /\ sig = Threshold[count]

LoadWave ==
  /\ enemy_status' = Wave[count + 1]
  /\ count' = count + 1
  /\ sig' = 0

KillEnemy(hit) ==
  /\ enemy_status' = enemy_status \ {hit}
  /\ sig' = sig + 1
  /\ UNCHANGED count

(* posedge collision, `hit' being enemy_hit at that edge. *)
Collision(hit) ==
  \/ WaveCleared /\ LoadWave
  \/ ~WaveCleared /\ KillEnemy(hit)

(* The collision detector raises its flag only for a living enemy; Offence *)
(* checks that it keeps this promise.                                      *)
Hit == \E hit \in enemy_status : sig < MaxSig /\ Collision(hit)

Next == Hit \/ Reset

Spec == Init /\ [][Next]_vars

(* The button pressed only while no kill of the current wave is counted.   *)
CleanReset == sig = 0 /\ Reset

CleanNext == Hit \/ CleanReset

CleanSpec == Init /\ [][CleanNext]_vars

----------------------------------------------------------------------------

TypeOK ==
  /\ count \in 1 .. NumWaves
  /\ enemy_status \subseteq Wave[count]
  /\ sig \in Nat

(* Every enemy missing from the current wave is a counted kill and every   *)
(* counted kill is a missing enemy: this is what makes the literals        *)
(* compared with sig the right ones (enemy_status.sv:84..235).  Holds as   *)
(* long as reset is not pressed in the middle of a wave.                   *)
KillAccounting ==
  sig + Cardinality(enemy_status) = Cardinality(Wave[count])

(* Whenever the button is pressed, sig never counts fewer kills than there *)
(* are missing enemies: a reset can only make the next wave come early, or *)
(* never, but no wave asks for more kills than it has enemies left.        *)
KillCountNeverLags ==
  sig + Cardinality(enemy_status) >= Cardinality(Wave[count])

(* An empty array means the game is over: while waves are left there is    *)
(* something to shoot at.                                                  *)
NeverStuck == enemy_status = {} => count = NumWaves

Campaign == INSTANCE WaveCampaign WITH remaining <- enemy_status, wave <- count

(* With clean resets the array implements the campaign: waves in order,    *)
(* the next one exactly at the death of the last enemy.                    *)
ImplementsCampaign == Campaign!Spec

============================================================================
