SPECIFICATION FairCommandSpec
CONSTANTS
  U16 = 65536
  max_wait_count = 10
  timeout_number = 2
  ConstBuffer = "stored"
  TransferErrors <- MCTransferErrors
  Readings <- MCReadings
  StackGarbage <- MCStackGarbage
  Addresses <- MCAddresses
INVARIANTS
  CommandTypeOK
  SuccessIsHeard
  ErrorStateIsFailure
  EarlySuccessIsTarget
  CommandSuccessIsHeard
  CommandPollsBounded
PROPERTIES
  CommandReturns
