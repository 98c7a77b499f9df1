CONSTANTS
  Blocks = {b1, b2}
  CL = {c1, c2}
  ReadIds = {r1}
  NoCb = NoCb
  NoLine = NoLine
  BufferEntries = 1
  LsqEntries = 1
  RoqEntries = 1
  AitEntries = 1
  AitToRmw = 1
  RmwToAit = 1
  LocalRead = 1
  LocalWrite = 1
  SameLineReads = FALSE
SPECIFICATION FairSpec
PROPERTIES DrainCompletes EveryReadAnswered
