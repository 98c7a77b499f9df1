CONSTANTS
  Blocks = {b1, b2}
  CL = {c1, c2}
  ReadIds = {}
  NoCb = NoCb
  NoLine = NoLine
  BufferEntries = 1
  LsqEntries = 3
  RoqEntries = 1
  AitEntries = 1
  AitToRmw = 1
  RmwToAit = 1
  LocalRead = 1
  LocalWrite = 1
  SameLineReads = TRUE
SPECIFICATION Spec
SYMMETRY Symmetry
INVARIANTS TypeOK NoInternalError AitReadsMatch QuietMeansSent WritesKept ReadWriteOrder EntryInv
PROPERTY NoOvertaking
