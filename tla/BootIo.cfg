SPECIFICATION BootSpec
CONSTANTS
  U32 = 65536
  Contents <- MCContents
  Devices <- MCDevices
INVARIANTS
  NoDescriptorIsHeld
  ListIsInOrder
  TargetIsMatchOrLast
  MemoryIsAccounted
  WriteBackIsPrefix
PROPERTIES
  EnumerationEnds
CHECK_DEADLOCK FALSE
