-------------------------- MODULE MCLedgerService --------------------------
(***************************************************************************)
(* A small instance of LedgerService.                                      *)
(***************************************************************************)
EXTENDS LedgerService, TLC

CONSTANTS s1, s2, m, o1, o2, main, g1

Interchangeable == Permutations(Operator)

\* What a request had in hand is gone once it is answered.
Live ==
  <<up, memory, disk, pc, fd, toStart, guests, asked, clash, counters,
    [o \in Changer |-> IF pc[o] = "idle" THEN Idle ELSE doing[o]],
    [o \in Changer |-> IF pc[o] \in {"open", "write", "replace"} THEN toSave[o] ELSE None]>>
=============================================================================
