SPECIFICATION Spec

CONSTANTS
  Byte = {1, 2}
  Streams <- MCStreams
  RequiredInputMax = 3
  RcInitSize = 2
  DicMin = 2
  MatchMinLen = 2
  MatchSpecLenStart = 6
INVARIANTS
  DeliveredIsText
  BuffersSound
  ResultHasReason
