SPECIFICATION Spec
CONSTANTS
  N = 3
  Opening <- RefactorFirst
  Procs = {p1, p2, p3}
  Nobody = Nobody
  RunIds = {1, 2}
  Ledgers <- NoRunOrStarted
SYMMETRY Symmetry
INVARIANTS TypeOK ClaimExcludes ApartOneOpenRow CompleteLeavesNothingOpen
PROPERTY RefusedByTheLiving
