CONSTANTS
  Pages <- FirstPages
  Ids = {i1, i2, i3}
  Components = 2
  RpqEntries = 2
  WpqEntries = 2
  NextEntries = 1
  AdrEpoch = 2
  Stamped = TRUE
SPECIFICATION Spec
INVARIANT ReadsMappedOnce
