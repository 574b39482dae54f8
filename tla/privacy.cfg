SPECIFICATION FairSpec
CONSTANTS
  Customer = {p1, p2}
  Supplier = {p2}
  Id = {i1}
  Session = {s1}
  Request = {r1, r2}
  NoId = NoId
  Tomb = Tomb
  AiLines <- MCAiLines
  AiPayments <- MCAiPayments
  maxWriteOre = 300
  MaxAmount = 1023
INVARIANTS
  OnlyMarkersLeave
  ErasureHolds
  AiUnderCeiling
PROPERTIES
  StaleTokensGo
