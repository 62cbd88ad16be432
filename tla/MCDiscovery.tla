---------------------------- MODULE MCDiscovery ----------------------------
(***************************************************************************)
(* One service, offered or not; an interval of 2 ticks, a timeout of three *)
(* intervals, a delay of 1. The announcer's clock is right, 1 behind or 2  *)
(* ahead: the timeout covers two intervals and two delays of the first and *)
(* the last, but not of the second.                                        *)
(***************************************************************************)
EXTENDS Discovery

MCSkews == {-1, 0, 2}

=============================================================================
