SPECIFICATION FairHandlersSpec

CONSTANTS
  Images <- MCImages
  ChunksPerPage = 2
  Wrap = 16
  Garbage = Garbage
INVARIANTS
  DigestIsReference
  PositionsInside
  HobSound
PROPERTIES
  ImplementsTdxModule
  Terminates
