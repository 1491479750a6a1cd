SPECIFICATION HistorySpec
CONSTANTS
  None = None
  WattsPerAmp = 1
  StartThreshold = 2
  StopThreshold = 0
  StartDelay = 2
  StopDelay = 2
  UpCooldown = 0
  DownCooldown = 0
  ProtectionHold = 0
  RestartLock = 2
  MaxCurrent = 2
  Ladder <- MCLadder
  Readings <- MCReadings
  SettingsChoices <- MCSettings
  ForceRequests <- MCForce
  PauseDurations <- MCPauses
  MayOmitSetpoint = FALSE
  AppCurrents = {}
INVARIANTS CandidatesAreRecent RestsBeforeSurplusStart RunsBeforeSurplusStop
