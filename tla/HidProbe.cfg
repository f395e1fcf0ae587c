SPECIFICATION ProbeSpec
CONSTANTS
  NakLimit = 3
  RetryLimit = 3
  MaxPkt0 = 4
  PollLength = 4
  ConfDescrLen = 5
  BigBuf = 24
  MaxReports = 3
  Devices <- MCDevices
INVARIANTS
  ReadIsWhole
  ProbeVerdict
PROPERTIES
  ImplementsPipe
  TransferEnds
  EveryReportArrives
