------------------------------ MODULE MCClaims ------------------------------
(***************************************************************************)
(* Instances of Claims for TLC.                                            *)
(***************************************************************************)
EXTENDS Claims

CONSTANTS a, b, c, k1, k2

MCNames == {a, b, c}
MCKeys == {k1, k2}
MCDurations == {1, 2}
=============================================================================
