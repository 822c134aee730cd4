----------------------------- MODULE MCIdentity -----------------------------
(***************************************************************************)
(* Instances of Identity for TLC.                                          *)
(***************************************************************************)
EXTENDS Identity

CONSTANTS p1, p2, s1

MCProcs == {p1, p2}
MCOneSession == [p \in MCProcs |-> s1]
=============================================================================
