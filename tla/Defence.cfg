SPECIFICATION CleanSpec
CONSTANTS
  NumWaves = 10
  Pitch = 4
  RowHeight = 2
  Rows = 2
  Barrel = 1
  Modulus = 64
  Delay = 3
  FallStep = 3
  PlayerTop = 13
  PlayerBottom = 20
  MaxLives = 5
  Shield = 9
  ShipPositions <- MCShipPositions
  Shifts <- MCShifts
  Fleets <- MCFleets
INVARIANTS
  OneLifePerMissile
  DisplayNeverFlatters
PROPERTY NothingHangs
