SPECIFICATION Spec
CONSTANTS
  NumWaves = 4
  Wave <- MCWave
  Threshold <- MCThreshold
  MaxSig = 9
  Modulus = 128
  Pitch = 8
  RowHeight = 4
  Rows = 2
  Columns = 3
  Muzzle = 3
  FireY = 14
  MissileStep = 1
  MaxShift = 4
  ShipPositions <- MCShipPositions
INVARIANTS
  ReadsInsideArray
  HitsWhatIsDrawn
PROPERTIES
  DrivesArray
  FlagFalls
  ShotEnds
