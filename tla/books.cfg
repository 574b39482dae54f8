SPECIFICATION MCSpec
CONSTANTS
  MaxAmount <- MCMaxAmount
  Worker = {w1, w2}
  w1 = w1
  w2 = w2
  Years = {1, 2}
  Inv = {i1}
  i1 = i1
  Drafts <- MCDrafts
  Bill = {b1}
  b1 = b1
  Purchases <- MCPurchases
  Payments <- MCPayments
  Manual <- MCAllManual
  ManualSeries = {"F", "O"}
  CostAccount = 5410
  MaxVouchers = 4
SYMMETRY Symmetry
CHECK_DEADLOCK FALSE
INVARIANTS
  VouchersSound
  ReskontraTies
  MomsMatchesDocuments
  CloseZeroesYear
  ResultRowAfterCloses
