---------------------------- MODULE MCLauncherHub ----------------------------
(* Instances of LauncherHub for TLC; the .cfg files choose the constants.    *)
EXTENDS LauncherHub

CONSTANTS c1, c2

MCClient == {c1, c2}
=============================================================================
