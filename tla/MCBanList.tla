----------------------------- MODULE MCBanList -----------------------------
(* Instances of BanList for TLC; the .cfg files choose the constants.        *)
EXTENDS BanList

CONSTANTS ip1, c1, c2

MCOneIp == {ip1}
MCCaller == {c1, c2}
MCDuration == {1}
=============================================================================
