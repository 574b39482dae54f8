SPECIFICATION FairSpec
CONSTANTS
  Vouchers <- MCVouchers
  MaxPosted = 2
  Foreign <- MCForeign
  OwnPosts <- MCOwnPosts
  Chart <- MCChart
  Import = {i1, i2}
  MaxAmount = 100000
CHECK_DEADLOCK FALSE
INVARIANTS
  RoundTrip
  LedgerSound
PROPERTIES
  ImportsEnd
