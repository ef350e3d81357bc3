SPECIFICATION Spec

CONSTANTS
  Init0 = Init0
  Shared = Shared
  Leaf = Leaf
  Nested = Nested
  Usr = Usr
  Lib = Lib
  Etc = Etc
  File <- MCFile
  Dir <- MCDir
  Children <- MCChildren
  Piece <- MCPiece
  Path <- MCPath
  Root = Root
  Environments <- MCEnvironments
  CommandLines <- MCCommandLines
  Unset = Unset
  Digest <- MCDigest
  FittingLens = 3
  Garbage = Garbage
  NoDigest = NoDigest
  ExtendLines <- MCExtendLines
INVARIANTS
  ResultsAreReference
  LossesBounded
PROPERTIES
  ImplementsRegisters
