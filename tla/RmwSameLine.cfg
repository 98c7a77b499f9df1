CONSTANTS
  Blocks = {b1}
  CL = {c1, c2}
  ReadIds = {r1, r2}
  NoCb = NoCb
  NoLine = NoLine
  BufferEntries = 1
  LsqEntries = 2
  RoqEntries = 1
  AitEntries = 1
  AitToRmw = 1
  RmwToAit = 1
  LocalRead = 1
  LocalWrite = 1
  SameLineReads = TRUE
SPECIFICATION Spec
INVARIANT QuietMeansAnswered
