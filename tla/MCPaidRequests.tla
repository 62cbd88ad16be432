--------------------------- MODULE MCPaidRequests --------------------------
(***************************************************************************)
(* Two ends with a channel of at most 3 units and outputs of 1 unit dust,  *)
(* three updates, and a clock that outlives the retention of an id.        *)
(***************************************************************************)
EXTENDS PaidRequests

MCCapacities == {3}
MCSkew == {0}
MCId == {Initiator, Responder} \X (1 .. MaxSeq)

=============================================================================
