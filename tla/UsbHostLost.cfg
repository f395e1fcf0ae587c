SPECIFICATION Spec
CONSTANTS
  NumDevices = 4
  Keycodes <- MCKeycodes
  MaxEvents = 3
INVARIANT OnlyServicedCleared
