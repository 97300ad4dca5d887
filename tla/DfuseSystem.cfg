SPECIFICATION FairSystemSpec
CONSTANTS
  U16 = 16
  U32 = 64
  max_wait_count = 2
  timeout_number = 2
  ConstBuffer = "stored"
  TransferErrors <- MCTransferErrors
  Readings <- MCReadings
  StackGarbage <- MCStackGarbage
  Addresses <- MCAddresses
  Descriptors <- MCDescriptors
  Sizes = {4, 5}
  ChunkSizes = {2}
  Memory <- MCMemory
  FlashPage = 4
  TransferSize = 2
  MaxBusy = 1
INVARIANTS
  SuccessIsProgrammed
  SuccessIsFetched
  PromptDeviceNeverStalls
PROPERTIES
  ErrorEndsTheCall
  PromptDeviceIsServed
