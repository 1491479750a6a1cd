SPECIFICATION Spec
CONSTANTS
  None = None
  WattsPerAmp = 1
  StartThreshold = 2
  StopThreshold = 1
  StartDelay = 0
  StopDelay = 0
  UpCooldown = 1
  DownCooldown = 0
  ProtectionHold = 1
  RestartLock = 0
  MaxCurrent = 4
  Ladder <- MCLadder
  AppCurrents <- MCAppCurrents
  Readings <- MCReadings
  SettingsChoices <- MCSettings
  ForceRequests <- MCForce
  PauseDurations <- MCPauses
  MayOmitSetpoint = TRUE
INVARIANTS TypeOK SetpointWithinCap RampIsGentle
PROPERTIES VetoStartsNothing PromiseKept
