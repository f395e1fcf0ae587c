----------------------------- MODULE MCGameFlow -----------------------------
(* GameFlow on the waves of the game. *)
EXTENDS GameFlow, WaveData

MCNumWaves == 10
MCWave == Waves
MCThreshold == Thresholds
MCMaxSig == 12
MCMaxLives == 2
=============================================================================
