SPECIFICATION FairSpec
CONSTANTS
  Tasks <- MCTasks
  Cancellable <- MCCancellable
  Addresses <- MCAddresses
  Values <- MCValues
  Retries = 3
  None = None
INVARIANTS TypeOK Serialised
PROPERTIES LateWritesHarmless EveryCallEnds WritesKeepPromise
