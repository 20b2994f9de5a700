SPECIFICATION BoardSpec
CONSTANTS
  ParamCount = 4
  Amp = 4
  Slip = 3
  AtStart = {2}
  Words = {0, 1, 2}
  Allowed = {0, 1}
  Default <- MCDefault
  Zero = 0
  Blank = Blank
  Junk = Junk
  OldBlocks <- MCOldBlocks
  MaxWrites = 2
  MaxSaves = 2
  MaxCuts = 1
  MaxLoopTicks = 10
  StatusTimeout = 11
  Temps = {20, 60}
  MinimumOilTemp <- MCMinimumOilTemp
  tmpoillow = 25
  tmpoilhigh = 45
  pumpspeed = 70
  NoPid = NoPid
  Chips <- MCChips
  Setup <- MCSetup
  StatusRegs <- MCStatusRegs
  Attempts = 3
  PowerUpValue = 0
  MaxGarbled = 4
  MaxFaults = 1
  MaxRestarts = 1
  Turn = 6
  Fastest = 2
  Window = 2
  StartupDelay = 3
  Stable = 0
  TooFast = 4
  MaxBlind = 1
  Wait = 2
  MaxStarts = 1
  Setups <- MCDriverSetups
  Speeds = {0, 20, 40}
  Digits <- MCDigits
  Conditions <- MCConditions
  potmin <- MCPotmin
  potmax <- MCPotmax
  brknom = 300
  brknompedal <- MCbrknompedal
  brkmax <- MCbrkmax
  brkcruise <- MCbrkcruise
  idleSpeed = 4
  speedkp = 25
  idleThrotLim = 500
  throtmin <- MCthrotmin
  throtmax = 900
  throtramp = 500
  throtrampmax = 1000
  throtramprpm = 40
  regenRamp = 600
  dirchrpm = 10
  bmslimhigh = 50
  bmslimlow <- MCbmslimlow
  udcmin = 300
  udcmax = 500
  idcmin <- MCidcmin
  idcmax = 100
  idckp = 10
  fmax = 40
  tempMax = 80
INVARIANTS
  BoardTypeOK
  StorageSafe
  SettingsFollow
  OwnAnswers
  ResolverTruthful
  StopsInARound
  RunsSafely
  TorqueAsAsked
PROPERTIES
  RestoredWhole
  PumpWatched
  DriversSafe
  
  DriverObeyed
