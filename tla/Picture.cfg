SPECIFICATION PictureSpec
CONSTANTS
  hpixels = 4
  vlines = 5
  Width = 1
  Height = 2
  HSync = 2
  HSyncEnd = 3
  VSync = 3
  MaxLives = 1
  Shield = 1
  Start = 2
  RightEdge = 4
  Overflow = 8
  Pixels = 10
  MaxShift = 5
  MaxDrop = 1
INVARIANTS
  OneTickPerScan
  OnScreen
PROPERTIES
  PictureHoldsStill
  NoTeleport
  NoSkippedPixel
  GameRunsOn
