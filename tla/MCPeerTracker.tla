--------------------------- MODULE MCPeerTracker ---------------------------
(* Two peers, one of them the preseeded one: the registry can be emptied. *)
EXTENDS PeerTracker
=============================================================================
