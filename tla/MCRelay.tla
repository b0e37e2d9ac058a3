------------------------------ MODULE MCRelay ------------------------------
(* Instances of Relay for TLC; the .cfg files choose the constants.          *)
EXTENDS Relay

CONSTANTS c1, c2

MCConn == {c1, c2}
=============================================================================
