------------------------------- MODULE MCSetup -------------------------------
(***************************************************************************)
(* An instance of Setup for TLC.                                           *)
(***************************************************************************)
EXTENDS Setup, TLC

CONSTANTS s1, s2, recover, inbox, x, y

MCSetups == {s1, s2}
MCHooks == {recover, inbox}
MCEntries == {x, y}
Symmetry == Permutations(MCSetups) \cup Permutations(MCHooks) \cup Permutations(MCEntries)
=============================================================================
