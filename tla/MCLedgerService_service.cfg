SPECIFICATION Spec
CONSTANTS
  s1 = s1
  s2 = s2
  m = m
  o1 = o1
  o2 = o2
  g1 = g1
  main = main
  Source = {s1, s2}
  Model = {m}
  Unbound = Unbound
  Absent = Absent
  Operator = {o1, o2}
  Starter = main
  Guest = {g1}
  MaxOps = 3
  MaxKills = 1
  MaxFails = 1
SYMMETRY Interchangeable
VIEW Live
INVARIANTS TypeOK AcknowledgedHolds
PROPERTIES RunsRecordTheBinding
CHECK_DEADLOCK FALSE
