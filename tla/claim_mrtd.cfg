SPECIFICATION HandlersSpec

CONSTANTS
  Images <- MCImages
  ChunksPerPage = 2
  Wrap = 16
  Garbage = Garbage

INVARIANTS
  SuccessHasDigest
