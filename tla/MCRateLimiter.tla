--------------------------- MODULE MCRateLimiter ---------------------------
(* Instances of RateLimiter for TLC; the .cfg files choose the constants.    *)
EXTENDS RateLimiter

CONSTANT ip1

MCOneIp == {ip1}
=============================================================================
