----------------------------- MODULE MCPatchPanel -----------------------------
(* Instances of PatchPanel for TLC.                                          *)
EXTENDS PatchPanel

CONSTANTS old, new

MCPaths == {old, new}
=============================================================================
