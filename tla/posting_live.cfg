SPECIFICATION FairSpec
CONSTANTS
  Req = {r1, r2, r3}
  r1 = r1
  r2 = r2
  r3 = r3
  Series = {"A", "O", "R"}
  closeSeries = "O"
  Dates <- MCDates
  EndOf <- MCEndOf
  Jobs <- MCLedgerJobs
PROPERTY EveryRequestAnswered
