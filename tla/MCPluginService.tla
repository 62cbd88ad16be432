-------------------------- MODULE MCPluginService --------------------------
(***************************************************************************)
(* Two starts and one restart: a retry can fail again, and two chains of   *)
(* startService() calls can be in progress at once.                        *)
(***************************************************************************)
EXTENDS PluginService

MCObject == 1 .. MaxStarts + MaxRestartAttempts
MCCaller == 0 .. MaxStarts
=============================================================================
