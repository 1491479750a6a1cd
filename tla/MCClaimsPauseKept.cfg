SPECIFICATION ClaimsSpec
CONSTANTS
  None = None
  WattsPerAmp = 1
  StartThreshold = 1
  StopThreshold = 0
  StartDelay = 2
  StopDelay = 1
  UpCooldown = 0
  DownCooldown = 0
  ProtectionHold = 0
  RestartLock = 0
  MaxCurrent = 1
  Ladder <- MCLadder
  AppCurrents = {}
  Readings <- OffPeakWindow
  SettingsChoices <- CapOnlyMode
  ForceRequests <- NoForce
  PauseDurations <- MCPauses
  MayOmitSetpoint = FALSE
PROPERTIES PauseKeepsChargeStopped
