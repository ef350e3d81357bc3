SPECIFICATION FairSpec

CONSTANTS
  Value <- MCValue
  Scenarios <- MCScenarios
  Absent = Absent
  MaxPcrs = 24
  MaxTpmPcrs = 32
INVARIANTS
  RegistersSound
  OutputSound
  RejectsOnlyMalformed
PROPERTIES
  ImplementsTpm
  Terminates
