CONSTANTS
  Blocks = {b1, b2, b3}
  Subs = {s1, s2}
  ReadIds = {r1, r2}
  NoCb = NoCb
  NoLine = NoLine
  BufferEntries = 2
  LsqEntries = 1
  LmemqEntries = 1
  SubReqs = 2
  MediaRead = 1
  MediaWrite = 1
  Threshold = 2
  MigrationLatency = 1
SPECIFICATION Spec
SYMMETRY Symmetry
INVARIANTS TypeOK NoInternalError LmemqMatches OneLineAtATime RestIsReadable ReadsConserved WearBounded
