SPECIFICATION Spec
CONSTANTS
  a = a
  b = b
  c = c
  Opener = {a, b}
  OnDisk = {10}
  CutShort = {FALSE}
  MaxKills = 0
INVARIANT OpenedIsUpgraded
CHECK_DEADLOCK FALSE
