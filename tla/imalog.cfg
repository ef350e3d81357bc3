SPECIFICATION ListSpec

CONSTANTS
  Absent = Absent
  Scenarios <- MCScenarios
INVARIANTS
  PrintedIsExtended
  BracketTellsComplete
  RecordsApart
