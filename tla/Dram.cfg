CONSTANTS
  Lines = {l1, l2}
  Bank = b1
  Banks = {b1}
  Ranks = 1
  BankOf <- OneBank
  RowOf <- OwnRow
  RankOf <- OneRank
  NoRow = NoRow
  ReadIds = {r1}
  NoLine = NoLine
  Values = {v1, v2}
  NoValue = NoValue
  QueueSize = 2
  MaxDelay = 2
  ReadLatency = 1
  Refi = 7
SPECIFICATION FairSpec
INVARIANTS TypeOK ActivatedStaysOpen RefreshInTime ReadsConserved
PROPERTIES ReadsCoherent EveryReadAnswered
