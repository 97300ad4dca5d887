SPECIFICATION FairSpec
CONSTANTS
  U16 = 4
  U32 = 64
  max_wait_count = 2
  timeout_number = 2
  ConstBuffer = "stored"
  TransferErrors <- MCTransferErrors
  Readings <- MCReadings
  StackGarbage <- MCStackGarbage
  Addresses <- MCAddresses
  Descriptors <- MCDescriptors
  Sizes = {0, 3, 4}
  ChunkSizes = {2}
INVARIANTS
  TypeOK
  HandleIsBalanced
  DownloadSuccessIsComplete
  UploadSuccessIsPrefix
  OnlyLateErrorsAreDropped
  ErasesAreAllowed
  DataAvoidsCommandBlocks
PROPERTIES
  DownloadIsTransfer
  LoadReturns
