SPECIFICATION FairSpec
CONSTANTS
  a = a
  b = b
  c = c
  Nobody = Nobody
  Proc = {a, b, c}
  Gone = {c}
  Named = {a, b, c}
  Cores = 2
  Timeout = 1
  Stale = 1
  MaxAge = 2
  MaxKills = 1
INVARIANTS
  TypeOK
  LeaseExcludes
  OneSeesTheOther
PROPERTIES
  ReadHolderKeeps
  CrashNeverBlocks
  EverySuiteEnds
