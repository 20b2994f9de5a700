SPECIFICATION Spec
CONSTANTS
    Quests = {0, 3}
    WatchdogResponses <- MCResponses
    StatusValues = {249}
    ErrorThreshold = 14
    MaxDisturbed = 1
    SaveUnits = 0
    MaxSaves = 1
    StatusReads = 2
    MayTear = FALSE
    None = None
CHECK_DEADLOCK FALSE
INVARIANT WorkingDeviceEchoes
