CONSTANTS
  Pages <- TwoPages
  Ids <- LineNumbers
  MaxLines = 4
  Lines <- AllTypes
  Components = 2
  RpqEntries = 1
  WpqEntries = 2
  NextEntries = 1
  AdrEpoch = 2
  Stamped = FALSE
SPECIFICATION TraceFairSpec
INVARIANTS LinesConserved WaitsUntilServed
PROPERTY SimulationEnds
