SPECIFICATION OvmfFairSpec

CONSTANTS
  Scratch = 65536
  Max32 = 65535
  OvmfImages <- MCImages
INVARIANTS
  FoundInside
  FirmwareMeasured
PROPERTIES
  SearchesEnd
