SPECIFICATION BusSpec
CONSTANTS
  MaxSends = 4
  MaxFaults = 3
  MaxFilters = 2
  Preemptive = FALSE
  StdIds <- MCStdIds
  ControlId = "ctrl"
  NodeIds = {1, 2}
  Request <- MCRequest
  MaxUsers = 4
  MaxMessages = 2
  Forced = {FALSE, TRUE}
  Step = 1
  Keepalive = 7
  Unit = 2
  Default = 3
  Bytes = {0, 1, 2}
  MidTick = FALSE
  Horizon = 14
  FrameSize = 2
  MaxLength = 5
  Messages = 3
  ByteBits = 2
  CharBits = 2
  Lengths = {1, 3, 4, 7, 8}
  OtherLengths = {2, 3}
  Values <- MCValues
  OtherValues <- MCOtherValues
CHECK_DEADLOCK FALSE
INVARIANTS
  BusTypeOK
  SendReliable
  Reachable
  EndsOnTime
  
  TextsComplete
  ValuesCarried
PROPERTIES
  EverySendReturns
  DumpsPaced
  LoggingEnds
