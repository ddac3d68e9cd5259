SPECIFICATION MCSpec
CONSTANTS
  t1 = t1
  t2 = t2
  x1 = x1
  testfile = testfile
  impl = impl
  stray = stray
  golden = golden
  v0 = v0
  v1 = v1
  Fuel = 2
  N = 1
  Kind <- OneStandard
  Tests = {t1, t2}
  Project <- OneProject
  Rank <- RankOf
  Declared <- One
  Known = {}
  Annotate = {}
  Swept = {1}
  Files = {testfile, stray}
  Class <- ClassOf
  Under = {testfile}
  Refs = {}
  Contents = {v0, v1}
  Absent = v0
  InitHead <- Empty

PROPERTY UnblockCompletes
