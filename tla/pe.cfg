SPECIFICATION KernelSpec

CONSTANTS
  Max32 = 65535
  Byte = 16
  LongSize = 7
  None = None
  Absent = Absent
  Images <- MCImages
  Files <- MCFiles
  Kernels <- MCKernels
INVARIANTS
  HashedAllowed
  HashedIsAuthenticode
  MeasuredAsConfigured
  PatchInside
  KernelRefusedForReason
