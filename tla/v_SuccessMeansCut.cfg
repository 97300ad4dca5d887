SPECIFICATION FileSpec
CONSTANTS
  U32 = 65536
  Contents <- MCContents
INVARIANT
  SuccessMeansCut
