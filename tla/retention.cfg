SPECIFICATION FairSpec
CONSTANTS
  Doc = {d1, d2}
  Bill = {b1}
  Line = {l1}
  Request = {r1}
  NoBill = NoBill
  MaxStops = 1
INVARIANTS
  BackfillKeeps
PROPERTIES
  RetainedStays
  BlankStaysBlank
  OrphansForgotten
