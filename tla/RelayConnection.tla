-------------------------- MODULE RelayConnection --------------------------
(***************************************************************************)
(* How the daemon keeps its connection to the relay, and the reservation   *)
(* that makes it reachable: dialRelay(), the peer:disconnect handler and   *)
(* the maintenance loop of daemon/node.ts, and the startup wait, the       *)
(* background retry and the health monitor of daemon/index.ts.             *)
(*                                                                         *)
(* Every dialRelay() in progress is a task. Tasks of the same kind differ  *)
(* only in how far they are, so they are counted per kind and stage.       *)
(***************************************************************************)
EXTENDS Naturals

CONSTANTS
  MaxTasks,       \* bound: tasks of one kind at the same stage
  FailuresToAct   \* failed checks before a recovery (3 in the code)

ASSUME RelayAssumption == MaxTasks \in Nat \ {0} /\ FailuresToAct \in Nat \ {0}

VARIABLES
  relay,         \* the relay server: "down", "full" (no reservations), "ok"
  connected,     \* is there a connection to it
  reserved,      \* is there a circuit address through it
  elsewhere,     \* is there a circuit address through some other relay
  phase,         \* main(): "starting" (waits for a reservation), "running"
  retrying,      \* does the background retry task still poll
  tasks,         \* how many tasks of each kind are at each stage
  failures,      \* consecutiveFailures, up to FailuresToAct
  isRestarting   \* is a recovery in progress

environmentVars == <<relay, connected, reserved, elsewhere>>
monitorVars == <<failures, isRestarting>>
vars == <<environmentVars, phase, retrying, tasks, monitorVars>>

(* Who calls dialRelay(): the loop, the disconnect handler, the monitor.    *)
Kind == {"maintain", "reconnect", "recover"}

(* queued by setImmediate; in node.dial; in addRelay; in the wait after it. *)
Stage == {"queued", "dialing", "reserving", "waiting"}

TypeOK ==
  /\ relay \in {"down", "full", "ok"}
  /\ connected \in BOOLEAN
  /\ reserved \in BOOLEAN
  /\ elsewhere \in BOOLEAN
  /\ phase \in {"starting", "running"}
  /\ retrying \in BOOLEAN
  /\ tasks \in [Kind \X Stage -> 0 .. MaxTasks]
  /\ failures \in 0 .. FailuresToAct
  /\ isRestarting \in BOOLEAN

NoTasks == [t \in Kind \X Stage |-> 0]

Init ==
  /\ relay \in {"down", "full", "ok"}
  /\ connected = FALSE
  /\ reserved = FALSE
  /\ elsewhere = FALSE
  /\ phase = "starting"
  /\ retrying = FALSE
  /\ tasks = NoTasks
  /\ failures = 0
  /\ isRestarting = FALSE

----------------------------------------------------------------------------

(* Tasks, as counts. A task that would pass the bound waits where it is.    *)
Started(kind, stage) ==
  /\ tasks[<<kind, stage>>] < MaxTasks
  /\ tasks' = [tasks EXCEPT ![<<kind, stage>>] = @ + 1]

Moved(kind, from, to) ==
  /\ tasks[<<kind, from>>] > 0
  /\ tasks[<<kind, to>>] < MaxTasks
  /\ tasks' = [tasks EXCEPT ![<<kind, from>>] = @ - 1, ![<<kind, to>>] = @ + 1]

Ended(kind, stage) ==
  /\ tasks[<<kind, stage>>] > 0
  /\ tasks' = [tasks EXCEPT ![<<kind, stage>>] = @ - 1]

HasCircuitAddress == reserved \/ elsewhere

(* checkHealth: a connection, or a circuit address through any relay, will  *)
(* do; the node has been started in every state of this module.             *)
Healthy == connected \/ HasCircuitAddress

----------------------------------------------------------------------------
(* dialRelay() and what its callers do around it.                           *)

(* setImmediate runs the handler's reconnection.                            *)
Reconnect ==
  /\ Moved("reconnect", "queued", "dialing")
  /\ UNCHANGED <<environmentVars, phase, retrying, monitorVars>>

(* node.dial returns: an open connection is as good as a new one.           *)
DialSucceeds(kind) ==
  /\ connected \/ relay # "down"
  /\ Moved(kind, "dialing", "reserving")
  /\ connected' = TRUE
  /\ UNCHANGED <<relay, reserved, elsewhere, phase, retrying, monitorVars>>

(* Mutant of RecoveryOver: the finally block is left out. *)
RecoveryForgotten(kind) == UNCHANGED isRestarting

(* The finally of attemptRecovery.                                          *)
RecoveryOver(kind) ==
  isRestarting' = IF kind = "recover" THEN FALSE ELSE isRestarting

(* node.dial throws: every caller logs it and gives up.                     *)
DialFails(kind) ==
  /\ ~connected /\ relay = "down"
  /\ Ended(kind, "dialing")
  /\ RecoveryOver(kind)
  /\ UNCHANGED <<environmentVars, phase, retrying, failures>>

(* addRelay(..., 'configured') is granted, or refused and the error logged. *)
Reserve(kind) ==
  /\ Moved(kind, "reserving", "waiting")
  /\ reserved' = (reserved \/ (connected /\ relay = "ok"))
  /\ UNCHANGED <<relay, connected, elsewhere, phase, retrying, monitorVars>>

(* The wait is over (2 s, up to 10 s, 5 s): only a recovery looks again.    *)
WaitOver(kind) ==
  /\ Ended(kind, "waiting")
  /\ RecoveryOver(kind)
  /\ failures' = IF kind = "recover" /\ Healthy THEN 0 ELSE failures
  /\ UNCHANGED <<environmentVars, phase, retrying>>

----------------------------------------------------------------------------
(* The loops.                                                               *)

(* Mutant of MaintainConnection: it skips a node reachable some other way. *)
MaintainUnlessReachable ==
  IF connected \/ HasCircuitAddress THEN UNCHANGED tasks
  ELSE Started("maintain", "dialing")

(* maintainConnection: a tick that finds no connection dials, also while an *)
(* earlier one still does; one that finds a connection does nothing.        *)
MaintainConnection ==
  IF connected THEN UNCHANGED tasks ELSE Started("maintain", "dialing")

MaintenanceTick ==
  /\ phase = "running"
  /\ MaintainConnection
  /\ UNCHANGED <<environmentVars, phase, retrying, monitorVars>>

(* The end of the startup wait. The retry task starts when it timed out,    *)
(* then the monitor, whose first check only logs, then the loop, which      *)
(* checks at once.                                                          *)
StartupDone ==
  /\ phase = "starting"
  /\ phase' = "running"
  /\ retrying' = ~HasCircuitAddress
  /\ MaintainConnection
  /\ UNCHANGED <<environmentVars, monitorVars>>

(* retryRelay looks for a circuit address and ends when there is one. It    *)
(* dials nobody and asks for no reservation.                                *)
RetryPoll ==
  /\ retrying
  /\ retrying' = ~HasCircuitAddress
  /\ UNCHANGED <<environmentVars, phase, tasks, monitorVars>>

(* Mutant of HealthTick: isRestarting is not looked at. *)
HealthTickOverlaps ==
  /\ phase = "running"
  /\ \/ /\ Healthy
        /\ failures' = 0
        /\ UNCHANGED <<tasks, isRestarting>>
     \/ /\ ~Healthy
        /\ failures' = IF failures < FailuresToAct THEN failures + 1 ELSE failures
        /\ IF failures' = FailuresToAct
           THEN Started("recover", "dialing") /\ isRestarting' = TRUE
           ELSE UNCHANGED <<tasks, isRestarting>>
  /\ UNCHANGED <<environmentVars, phase, retrying>>

(* A tick of the health monitor.                                            *)
HealthTick ==
  /\ phase = "running"
  /\ \/ /\ Healthy
        /\ failures' = 0
        /\ UNCHANGED <<tasks, isRestarting>>
     \/ /\ ~Healthy
        /\ failures' = IF failures < FailuresToAct THEN failures + 1 ELSE failures
        /\ IF failures' = FailuresToAct /\ ~isRestarting
           THEN Started("recover", "dialing") /\ isRestarting' = TRUE
           ELSE UNCHANGED <<tasks, isRestarting>>
  /\ UNCHANGED <<environmentVars, phase, retrying>>

----------------------------------------------------------------------------
(* The relay, the network and libp2p.                                       *)

RelayChanges ==
  /\ relay' \in {"down", "full", "ok"}
  /\ UNCHANGED <<connected, reserved, elsewhere, phase, retrying, tasks, monitorVars>>

(* Mutant of Disconnect: no reconnection is queued. *)
DisconnectIgnored ==
  /\ connected
  /\ connected' = FALSE
  /\ reserved' = FALSE
  /\ UNCHANGED <<relay, elsewhere, tasks, phase, retrying, monitorVars>>

(* The connection drops and the reservation with it; peerDisconnectHandler  *)
(* queues a reconnection.                                                   *)
Disconnect ==
  /\ connected
  /\ connected' = FALSE
  /\ reserved' = FALSE
  /\ Started("reconnect", "queued")
  /\ UNCHANGED <<relay, elsewhere, phase, retrying, monitorVars>>

(* libp2p dials its bootstrap peers, and may reserve by itself.             *)
AutoDial ==
  /\ ~connected /\ relay # "down"
  /\ connected' = TRUE
  /\ UNCHANGED <<relay, reserved, elsewhere, phase, retrying, tasks, monitorVars>>

AutoReserve ==
  /\ connected /\ relay = "ok"
  /\ reserved' = TRUE
  /\ UNCHANGED <<relay, connected, elsewhere, phase, retrying, tasks, monitorVars>>

(* A refresh the relay refuses ends the reservation, not the connection.    *)
RefreshRefused ==
  /\ reserved /\ relay # "ok"
  /\ reserved' = FALSE
  /\ UNCHANGED <<relay, connected, elsewhere, phase, retrying, tasks, monitorVars>>

OtherRelayChanges ==
  /\ elsewhere' \in BOOLEAN
  /\ UNCHANGED <<relay, connected, reserved, phase, retrying, tasks, monitorVars>>

Environment ==
  \/ RelayChanges \/ Disconnect \/ AutoDial \/ AutoReserve \/ RefreshRefused
  \/ OtherRelayChanges

TaskStep(kind) ==
  DialSucceeds(kind) \/ DialFails(kind) \/ Reserve(kind) \/ WaitOver(kind)

Next ==
  \/ \E kind \in Kind : TaskStep(kind)
  \/ Reconnect
  \/ StartupDone
  \/ MaintenanceTick
  \/ HealthTick
  \/ RetryPoll
  \/ Environment

Spec == Init /\ [][Next]_vars

(* Node.js runs its timers and immediates, and libp2p ends every dial and   *)
(* every reservation request one way or the other. Nothing is asked of the  *)
(* relay, the network or what libp2p does unasked.                          *)
Fairness ==
  /\ WF_vars(StartupDone)
  /\ WF_vars(MaintenanceTick)
  /\ WF_vars(HealthTick)
  /\ WF_vars(RetryPoll)
  /\ WF_vars(Reconnect)
  /\ \A kind \in Kind :
       /\ WF_vars(DialSucceeds(kind) \/ DialFails(kind))
       /\ WF_vars(Reserve(kind))
       /\ WF_vars(WaitOver(kind))

FairSpec == Spec /\ Fairness

----------------------------------------------------------------------------
(* Properties.                                                              *)

(* At most one recovery runs at a time, and isRestarting is up exactly      *)
(* while it does: the flag is set before the first await of attemptRecovery *)
(* and cleared on every way out, also when the dial throws.                 *)
RecoveryExclusive ==
  /\ \A stage \in Stage : tasks[<<"recover", stage>>] <= 1
  /\ \A one, other \in Stage :
       tasks[<<"recover", one>>] > 0 /\ tasks[<<"recover", other>>] > 0 => one = other
  /\ isRestarting <=> \E stage \in Stage : tasks[<<"recover", stage>>] > 0

(* A reservation is held, or a reconnection is under way that has yet to    *)
(* ask for it.                                                              *)
Reconnecting(stages) == \E stage \in stages : tasks[<<"reconnect", stage>>] > 0

Pursued ==
  \/ reserved
  \/ Reconnecting({"queued", "dialing"})
  \/ connected /\ Reconnecting({"reserving"})

(* While the relay grants reservations, one that was held is never given    *)
(* up: every drop leaves a reconnection behind that will ask for it, which  *)
(* nothing that overtakes it ends early - another drop in the middle of it, *)
(* libp2p's own dials, the loop, the monitor's recovery                     *)
(* (dialRelay, peerDisconnectHandler; node.ts:176-209, 575-604).            *)
ReservationPursued ==
  [][Pursued /\ relay = "ok" /\ relay' = "ok" => Pursued']_vars

(* A relay that can be reached from some time on is connected to again and  *)
(* again: whatever dial failed before, and though the monitor finds the     *)
(* node healthy through another relay, the maintenance loop dials it.       *)
ReconnectsWhileReachable == <>[](relay # "down") => []<>connected

(* A reservation once held from a relay that keeps granting them is never   *)
(* lost to drops for good: when the connection holds at last, the           *)
(* reconnection the disconnect handler queued has asked for it again, also  *)
(* when libp2p reconnected first and the maintenance loop saw no drop.      *)
DropIsRepaired ==
  <>(reserved /\ [](relay = "ok")) /\ <>[]connected => <>[]reserved

(* A node that stays unhealthy is recovered again and again: an attempt     *)
(* that fails neither ends the attempts nor keeps the flag.                 *)
UnhealthyKeepsRecovering ==
  <>[](~Healthy /\ phase = "running") => []<>isRestarting /\ []<>(~isRestarting)

(* What the error for a missing reservation promises ("the daemon will      *)
(* retry automatically", errors.ts) and startRelayRetryBackgroundTask says  *)
(* of itself: a node that stays connected to a relay that grants            *)
(* reservations gets one. The retry only polls, and the loop dials only     *)
(* when there is no connection: nobody asks the relay again.                *)
ReservationRetried ==
  <>[](connected /\ relay = "ok") => []<>HasCircuitAddress

=============================================================================
