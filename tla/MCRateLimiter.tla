--------------------------- MODULE MCRateLimiter ---------------------------
(* The rate limiter with one peer counted for messages and payments. *)
EXTENDS RateLimiterHistory

MCKey == {"messages", "payments"}
MCSized == {"messages"}
MCLimit == [k \in MCKey |-> IF k = "messages" THEN 2 ELSE 1]
MCWindow == [k \in MCKey |-> IF k = "messages" THEN 2 ELSE 1]

=============================================================================
