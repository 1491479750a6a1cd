SPECIFICATION HistorySpec
CONSTANTS
  Tasks <- MCTasks
  Cancellable = {}
  Addresses <- MCAddresses
  Values <- MCValues
  Retries = 0
  None = None
  ScanCooldown = 1
  KeyCooldown = 1
  FaultCooldown = 1
  Grace = 2
  FailureLimit = 2
  LoanTimes = {1}
  Entries <- MCEntries
INVARIANTS CoordinatorTypeOK  BuiltForAddress
PROPERTIES ReauthIsLastResort
