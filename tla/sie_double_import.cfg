SPECIFICATION SieSpec
CONSTANTS
  Vouchers <- MCVouchers
  MaxPosted = 2
  Foreign <- MCForeign
  OwnPosts <- MCOwnPosts
  Chart <- MCChart
  Import = {i1, i2}
  MaxAmount = 100000
INVARIANTS
  ImportedOnce
CHECK_DEADLOCK FALSE
