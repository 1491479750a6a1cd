SPECIFICATION InputsSpec
CONSTANTS
  None = None
  WattsPerAmp = 1
  StartThreshold = 2
  StopThreshold = 1
  StartDelay = 0
  StopDelay = 1
  UpCooldown = 1
  DownCooldown = 1
  ProtectionHold = 1
  RestartLock = 1
  AllowedCurrents <- MCAllowed
  Day = 8
  SafetyMargin = 1
  BucketSize = 4
  LastBucket = 8
  MinSamplePower = 1
  MinSamples = 2
  MinSessions = 2
  MinSessionTicks = 1
  MinSessionEnergy = 1
  Appliances = {a1, a2}
  ReservationWindow = 2
  MinSoc = 0
  MaxSoc = 4
  ForecastWeight = 50
  Smoothing = 2
  DropGuard = 1
  RecentWindow = 3
  SlowRequired = 2
  ShortRequired = 2
  Prices <- MCPrices
  Vehicles = {"car", "van"}
  Households <- MCHouseholds
  Horizon = 17
INVARIANTS InputsTypeOK LimitsHold ReservationsEnd DeadlineIsMet LadderKeepsOne ProblemsAreInert AlarmsAreEarned BilledAsAllowed
PROPERTIES DryRunDecidesNothing DeadlineChargeHolds
CHECK_DEADLOCK FALSE
