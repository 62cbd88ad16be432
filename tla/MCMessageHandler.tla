-------------------------- MODULE MCMessageHandler -------------------------
(* Two requests to one peer, whose answers compete for its quota. *)
EXTENDS MessageHandler

CONSTANTS r1, r2, p1

MCRequests == {r1, r2}
MCPeers == {p1}
MCTarget == [r \in MCRequests |-> p1]
MCLimit == [p \in MCPeers |-> 1]
MCWindow == [p \in MCPeers |-> 1]

=============================================================================
