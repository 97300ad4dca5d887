SPECIFICATION FairSpec
CONSTANTS
  U16 = 4
  U32 = 64
  max_wait_count = 2
  timeout_number = 2
  ConstBuffer = "stored"
  TransferErrors <- MCTransferErrors
  Readings <- MCOkReadings
  StackGarbage <- MCStackGarbage
  Addresses <- MCAddresses
  Descriptors <- MCSectorDescriptors
  Sizes = {10}
  ChunkSizes = {2}
PROPERTIES
  EraseConcludes
