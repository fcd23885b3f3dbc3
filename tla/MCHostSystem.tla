---------------------------- MODULE MCHostSystem ----------------------------
(***************************************************************************)
(* HostSystem for TLC: two interchangeable job identifiers.                *)
(***************************************************************************)
EXTENDS HostSystem, TLC

CONSTANTS j1, j2

MCSymmetry == Permutations({j1, j2})
=============================================================================
