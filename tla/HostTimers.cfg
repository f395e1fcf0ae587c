SPECIFICATION HostSpec
CONSTANTS
  Word = 16
  Alarms = {tick, blink}
  alt_alarm_list = list
  Delays = {0, 2}
  Periods = {0, 1, 3}
  Scale = 2
  TicksPerSecond = 2
  SettleTime = 2
  XferTimeout = 3
  MaxAge = 4
PROPERTIES
  ImplementsAlarms
  NeverEarly
  WaitsEnd
