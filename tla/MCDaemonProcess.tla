-------------------------- MODULE MCDaemonProcess --------------------------
(***************************************************************************)
(* Three processes, so that a second start can be followed by a third, and *)
(* two messages, of which one can be under way when the other one comes;   *)
(* one of them is malformed.                                               *)
(***************************************************************************)
EXTENDS DaemonProcess, TLC

CONSTANTS d1, d2, d3, m1, m2, none

MCProcess == {d1, d2, d3}
MCMessage == {m1, m2}
MCMalformed == {m2}
=============================================================================
