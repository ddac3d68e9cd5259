------------------------------ MODULE MCLeases ------------------------------
(***************************************************************************)
(* A small machine for Leases.                                             *)
(***************************************************************************)
EXTENDS Leases

CONSTANTS a, b, c
=============================================================================
