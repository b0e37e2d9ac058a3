----------------------------- MODULE MCLauncherUI -----------------------------
(* An instance of LauncherUI for TLC.                                        *)
EXTENDS LauncherUI, TLC

CONSTANTS c1, c2

MCCodes == {c1, c2}
MCSymmetry == Permutations(MCCodes)
=============================================================================
