CONSTANTS
  Blocks = {b1, b2}
  Subs = {s1}
  ReadIds = {r1, r2}
  NoCb = NoCb
  NoLine = NoLine
  BufferEntries = 1
  LsqEntries = 2
  LmemqEntries = 1
  SubReqs = 2
  MediaRead = 1
  MediaWrite = 1
  Threshold = 2
  MigrationLatency = 1
SPECIFICATION FairSpec
PROPERTY EveryReadAnswered
