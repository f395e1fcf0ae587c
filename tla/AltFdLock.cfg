SPECIFICATION FdSpec
CONSTANTS
  MaxFd = 7
  Devices = {null, uart, other}
  DevNull = null
  Console = uart
  Refusing = {other}
  Unknown = unknown
  NoDev = none
INVARIANT LockIsExclusive
