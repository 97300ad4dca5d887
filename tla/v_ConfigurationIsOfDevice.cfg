SPECIFICATION BootSpec
CONSTANTS
  U32 = 65536
  Contents <- MCContents
  Devices <- MCDevices
INVARIANT
  ConfigurationIsOfDevice
CHECK_DEADLOCK FALSE
