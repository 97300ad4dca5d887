SPECIFICATION QuerySpec
CONSTANTS
  U32 = 8192
  RegionAddresses <- MCRegionAddresses
  Fields <- MCFields
  Probes <- MCProbes
  MaxRegions = 2
  MaxSegments = 2
CHECK_DEADLOCK FALSE
INVARIANTS
  ListIsDeclared
  LookupIsOffByOneAtMost
