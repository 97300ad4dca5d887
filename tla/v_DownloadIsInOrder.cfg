SPECIFICATION Spec
CONSTANTS
  U16 = 8
  max_wait_count = 2
  ConstBuffer = "stored"
  TransferErrors <- MCTransferErrors
  Readings <- MCReadings
  StackGarbage <- MCStackGarbage
  Sizes = {0, 3, 4}
  ChunkSizes = {2, 3}
  MaxTurns = 2
INVARIANTS
  DownloadIsInOrder
