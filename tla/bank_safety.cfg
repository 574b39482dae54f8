SPECIFICATION BankSpec
CONSTANTS
  Worker = {w1, w2, w3}
  Txn = {t1, t2}
  Credit = {t1}
  MaxVouchers = 4
CHECK_DEADLOCK FALSE
SYMMETRY Symmetry
INVARIANTS
  OneClaim
  KnownPaymentOnce
  BookedHasVoucher
PROPERTIES
  BookedIsFinal
