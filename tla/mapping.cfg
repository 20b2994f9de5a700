SPECIFICATION MappingSpec
CONSTANTS
  Params = {p, Unknown}
  StdIds <- MCStdIds
  CobIds <- MCCobIds
  BootId <- MCBootId
  Unknown = Unknown
  Clients = {c}
  GoesOn = FALSE
  MaxMessages = 1
  MaxItems = 2
  SlotIndex = {0}
INVARIANTS
  MappingSound
PROPERTIES
  AnswersTrue
