SPECIFICATION Spec
CONSTANTS
  NumDevices = 4
  Keycodes <- MCKeycodes
  MaxEvents = 7
INVARIANTS
  PollsKnownDevice
  DriverMatchesDevice
  AddressesLast
PROPERTIES
  OnlyKeyboardsType
  KeyboardComesUp
  UnplugIsNoticed
