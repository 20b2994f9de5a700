SPECIFICATION FairSpec
CONSTANTS
  ReqKind <- MCReqKind
  MaxAsked = 3
  Pipelined = FALSE
CHECK_DEADLOCK FALSE
PROPERTIES
  ImplementsServer
  EveryRequestAnswered
