SPECIFICATION Spec
CONSTANTS
  N = 2
  Opening <- RefactorFirst
  Procs = {p1, p2}
  Nobody = Nobody
  RunIds = {1, 2}
  Ledgers <- OnlyStarted
SYMMETRY Symmetry
INVARIANT SurvivesDeath
