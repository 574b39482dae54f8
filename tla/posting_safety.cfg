SPECIFICATION Spec
CONSTANTS
  Req = {r1, r2, r3}
  r1 = r1
  r2 = r2
  r3 = r3
  Series = {"A", "O", "R"}
  closeSeries = "O"
  Dates <- MCDates
  EndOf <- MCEndOf
  Jobs <- MCJobs
SYMMETRY Symmetry
INVARIANTS
  TypeOK
  SeriesGapFree
  AuditChainIntact
  PostedIffAudited
  LockMatchesTrail
  YearClosedOnce
PROPERTY ImplementsJournal
