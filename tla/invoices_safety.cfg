SPECIFICATION Spec
CONSTANTS
  Worker = {w1, w2}
  Inv = {i1, i2, i3}
  None = None
  Gross = 4
  Payments = {1, 2, 5}
  oresRoundingThreshold = 2
  MaxVouchers = 4
SYMMETRY Symmetry
CHECK_DEADLOCK FALSE
INVARIANTS
  RegisterSound
  PaidMatchesBook
  SettledOwesNothing
PROPERTIES
  IssuedIsFinal
