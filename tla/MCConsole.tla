------------------------------- MODULE MCConsole -------------------------------
(* An instance of Console for TLC.                                             *)
EXTENDS Console, TLC

CONSTANTS a1, a2, c1

MCAccounts == {a1, a2}
MCCodes == {c1}
MCSymmetry == Permutations(MCAccounts)
=============================================================================
