----------------------------- MODULE MCTurnRelay ----------------------------
(* Small instances of TurnRelay. *)
EXTENDS TurnRelay
=============================================================================
