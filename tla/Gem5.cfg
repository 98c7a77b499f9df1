CONSTANTS
  Pages <- TwoPages
  Ids = {p1, p2, p3}
  Components = 1
  RpqEntries = 2
  WpqEntries = 1
  NextEntries = 2
  AdrEpoch = 2
  Stamped = TRUE
  StartAddr = 0
  PageOf <- SharedPage
  NoPacket = NoPacket
  Watched = {p1}
  p1 = p1
  p2 = p2
  p3 = p3
SPECIFICATION Gem5FairSpec
INVARIANTS FirstComeFirstServe Gem5TypeOK RequestsMatchPackets OneWaker PacketsConserved DrainIsSignalled
PROPERTIES EveryPacketAnswered
