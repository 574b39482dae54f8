SPECIFICATION FairSpec
CONSTANTS
  Request = {r1, r2}
  Email = {ann, bo}
  Token = {t1, t2}
  NoOne = NoOne
  SessionTTL = 1
  MaxTime = 2
INVARIANTS
  SetupSound
  WritesByLiveOwner
PROPERTIES
  SessionsEndOnTime
