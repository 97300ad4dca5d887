SPECIFICATION FileSpec
CONSTANTS
  U32 = 65536
  Contents <- MCContents
INVARIANTS
  FileTypeOK
  FirmwareIsInBuffer
  HeapIsBalanced
  SuffixIsOwn
