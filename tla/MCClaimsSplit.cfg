SPECIFICATION RestartSpec
CONSTANTS
  Deadlines <- MCDeadlines
  Horizon = 0
  Charges = {1, 2, 3}
  MaxEnergy = 1
  Signatures = {"long", "short"}
  Vehicles <- MCVehicles
  MaxSessions = 2
  None = None
INVARIANT SplitIsNotStale
