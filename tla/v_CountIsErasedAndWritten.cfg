SPECIFICATION SystemSpec
CONSTANTS
  U16 = 16
  U32 = 64
  max_wait_count = 2
  timeout_number = 2
  ConstBuffer = "stored"
  TransferErrors <- MCTransferErrors
  Readings <- MCReadings
  StackGarbage <- MCStackGarbage
  Addresses <- MCAddresses
  Descriptors <- MCErasable
  Sizes = {4}
  ChunkSizes = {2}
  Memory <- MCMemory
  FlashPage = 4
  TransferSize = 4
  MaxBusy = 1
INVARIANTS
  CountIsErasedAndWritten
