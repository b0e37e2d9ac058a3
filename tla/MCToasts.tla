------------------------------ MODULE MCToasts ------------------------------
(* An instance of Toasts for TLC: a notice that goes by itself and one that  *)
(* stays, on a board for two.                                                *)
EXTENDS Toasts

CONSTANTS note, alarm

MCMsgs == {note, alarm}
MCTtl == [m \in MCMsgs |-> IF m = note THEN 2 ELSE 0]
=============================================================================
