SPECIFICATION Spec
CONSTANTS
  a = a
  b = b
  c = c
  Opener = {a, b, c}
  OnDisk = {0, 1, 3, 4, 7, 10, 12, 13, 14}
  CutShort = {FALSE, TRUE}
  MaxKills = 2
SYMMETRY Interchangeable
INVARIANTS TypeOK UpgradedWhenAlone
CHECK_DEADLOCK FALSE
