SPECIFICATION RestartSpec
CONSTANTS
  Deadlines <- MCDeadlines
  Horizon = 1
  Charges = {1, 2}
  MaxEnergy = 1
  Signatures = {"long", "short"}
  Vehicles <- MCVehicles
  MaxSessions = 1
  None = None
INVARIANTS MemoryTypeOK AccountsTypeOK DeadlinesStand
PROPERTIES LogInOrder NoInventedSession CreditIsEarned
