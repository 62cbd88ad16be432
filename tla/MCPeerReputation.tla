-------------------------- MODULE MCPeerReputation -------------------------
(***************************************************************************)
(* One peer, as no operation on a peer reads another; scores of 12 values  *)
(* with the thresholds among them, and a blacklisting of two hours.        *)
(***************************************************************************)
EXTENDS PeerReputation

MCDeltas == {-5, -2, 1}
MCPenalty == -3
MCMinScore == -6
MCBlacklistThreshold == -4

=============================================================================
