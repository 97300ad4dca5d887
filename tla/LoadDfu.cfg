SPECIFICATION FairSpec
CONSTANTS
  U16 = 8
  max_wait_count = 2
  ConstBuffer = "stored"
  TransferErrors <- MCTransferErrors
  Readings <- MCReadings
  StackGarbage <- MCStackGarbage
  Sizes = {0, 3, 5}
  ChunkSizes = {2, 3}
  MaxTurns = 2
INVARIANTS
  TypeOK
  OnlyBlockErrorsAreDropped
  UploadSuccessIsPrefix
  BlocksAreInOrder
PROPERTIES
  HandleLeaksAtTerminator
  LoadReturns
