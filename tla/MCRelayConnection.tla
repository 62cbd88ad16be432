------------------------- MODULE MCRelayConnection -------------------------
(***************************************************************************)
(* One task of each kind at each stage, and a recovery at the second       *)
(* failed check: drops, ticks and recoveries overlap at every stage.       *)
(***************************************************************************)
EXTENDS RelayConnection
=============================================================================
