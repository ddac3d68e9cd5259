SPECIFICATION MCSpec
CONSTANTS
  t1 = t1
  t2 = t2
  x1 = x1
  testfile = testfile
  impl = impl
  stray = stray
  golden = golden
  v0 = v0
  v1 = v1
  Fuel = 3
  N = 2
  Kind <- StandardPin
  Tests = {t1, t2}
  Project <- OneProject
  Rank <- RankOf
  Declared <- OneEach
  Known = {}
  Annotate = {}
  Swept = {1}
  Files = {testfile, impl}
  Class <- ClassOf
  Under = {testfile, impl}
  Refs = {}
  Contents = {v0, v1}
  Absent = v0
  InitHead <- Empty
INVARIANTS TypeOK OrderedCycles ArrivalVerified RedBeforeGreen AuditedTargets
PROPERTIES CloseOnGreenTree ExcludedNeverAbsorbed ImplementationAfterRed ImplementsPlanProgress
