SPECIFICATION Spec
CONSTANTS
  Customer = {}
  Supplier = {p1}
  Id = {i1}
  Session = {s1}
  Request = {r1}
  NoId = NoId
  Tomb = Tomb
  AiLines <- MCAiLines
  AiPayments <- MCAiPayments
  maxWriteOre = 300
  MaxAmount = 1023
INVARIANTS
  RetainedKeepsIdentity
