SPECIFICATION MCSpec
CONSTANTS
  t1 = t1
  t2 = t2
  x1 = x1
  testfile = testfile
  impl = impl
  stray = stray
  golden = golden
  v0 = v0
  v1 = v1
  Fuel = 2
  N = 2
  Kind <- ContractRefactor
  Tests = {t1, t2, x1}
  Project <- TwoProjects
  Rank <- RankOf
  Declared <- BothNone
  Known = {}
  Annotate = {2}
  Swept = {1}
  Files = {testfile, stray, golden}
  Class <- ClassOf
  Under = {testfile, golden}
  Refs = {golden}
  Contents = {v0, v1}
  Absent = v0
  InitHead <- Empty
INVARIANT CompleteIsDone
PROPERTIES CloseIsClean CloseRespectsReferences
