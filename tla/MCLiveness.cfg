SPECIFICATION FairSpec
CONSTANTS
  None = None
  WattsPerAmp = 1
  StartThreshold = 2
  StopThreshold = 0
  StartDelay = 1
  StopDelay = 1
  UpCooldown = 0
  DownCooldown = 0
  ProtectionHold = 1
  RestartLock = 1
  MaxCurrent = 2
  Ladder <- MCLadder
  AppCurrents <- MCAppCurrents
  Readings <- MCReadings
  SettingsChoices <- MCSettings
  ForceRequests <- MCForce
  PauseDurations <- MCPauses
  MayOmitSetpoint = FALSE
PROPERTIES VetoedChargeEnds CapIsObeyed SunIsUsed
