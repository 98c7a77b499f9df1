CONSTANTS
  Blocks = {b1, b2, b3}
  CL = {c1, c2}
  ReadIds = {r1}
  NoCb = NoCb
  NoLine = NoLine
  BufferEntries = 2
  LsqEntries = 1
  RoqEntries = 1
  AitEntries = 1
  AitToRmw = 1
  RmwToAit = 1
  LocalRead = 1
  LocalWrite = 1
  SameLineReads = FALSE
SPECIFICATION Spec
SYMMETRY Symmetry
INVARIANTS RestIsClean ReadsConserved QuietMeansAnswered
