SPECIFICATION LinkSpec
CONSTANTS
  Tasks <- MCTasks
  Cancellable = {}
  Addresses <- MCAddresses
  Values <- MCValues
  Retries = 0
  None = None
  ScanCooldown = 1
  KeyCooldown = 1
  FaultCooldown = 1
  Grace = 1
  FailureLimit = 2
  LoanTimes = {}
  Entries <- MCEntries
PROPERTIES LinkRecovers
