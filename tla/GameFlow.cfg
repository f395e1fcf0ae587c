SPECIFICATION FlowSpec
CONSTANTS
  NumWaves <- MCNumWaves
  Wave <- MCWave
  Threshold <- MCThreshold
  MaxSig <- MCMaxSig
  MaxLives <- MCMaxLives
INVARIANTS
  VictoryIsEarned
  LevelStateMeansStuck
  ScoreCountsKills
  KillsAreCounted
PROPERTIES
  VerdictStands
  VerdictIsShown
  FollowsCampaign
