------------------------- MODULE MCLedgerMigration -------------------------
(***************************************************************************)
(* Small instances of LedgerMigration.                                     *)
(***************************************************************************)
EXTENDS LedgerMigration, TLC

CONSTANTS a, b, c

Interchangeable == Permutations(Opener)
=============================================================================
