----------------------------- MODULE MCAgentHub -----------------------------
(* Instances of AgentHub for TLC; the .cfg files choose the constants.       *)
EXTENDS AgentHub

CONSTANTS k1, k2

MCKey == {k1, k2}
MCFirst == {k1}
=============================================================================
