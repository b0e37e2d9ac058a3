---------------------------- MODULE MCTokenStore ----------------------------
(* Instances of TokenStore for TLC; the .cfg files choose the constants.     *)
EXTENDS TokenStore

CONSTANTS t1, t2

MCToken == {t1, t2}
=============================================================================
