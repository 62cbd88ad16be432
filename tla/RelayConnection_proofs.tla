----------------------- MODULE RelayConnection_proofs -----------------------
(***************************************************************************)
(* For any bound on the tasks and any number of failures before the        *)
(* monitor acts: the state keeps its type, and recoveries never overlap.   *)
(***************************************************************************)
EXTENDS RelayConnection, TLAPS

(* Moving a task changes the count of the two stages and no other.         *)
LEMMA MovedTask ==
  ASSUME TypeOK, NEW kind \in Kind, NEW from \in Stage, NEW to \in Stage,
         from # to, Moved(kind, from, to)
  PROVE  /\ tasks' \in [Kind \X Stage -> 0 .. MaxTasks]
         /\ tasks[<<kind, from>>] > 0
         /\ tasks'[<<kind, from>>] = tasks[<<kind, from>>] - 1
         /\ tasks'[<<kind, to>>] = tasks[<<kind, to>>] + 1
         /\ \A k \in Kind, s \in Stage :
              (k # kind \/ s \notin {from, to}) => tasks'[<<k, s>>] = tasks[<<k, s>>]
<1> DEFINE fromTask == <<kind, from>>
           toTask == <<kind, to>>
<1>1. fromTask \in Kind \X Stage /\ toTask \in Kind \X Stage /\ fromTask # toTask
  OBVIOUS
<1>2. tasks \in [Kind \X Stage -> 0 .. MaxTasks]
  BY DEF TypeOK
<1>3. /\ tasks[fromTask] > 0 /\ tasks[toTask] < MaxTasks
      /\ tasks' = [tasks EXCEPT ![fromTask] = @ - 1, ![toTask] = @ + 1]
  BY DEF Moved
<1>4. tasks[fromTask] \in 0 .. MaxTasks /\ tasks[toTask] \in 0 .. MaxTasks
  BY <1>1, <1>2
<1>5. \A t \in Kind \X Stage :
        tasks'[t] = IF t = toTask THEN tasks[t] + 1
                    ELSE IF t = fromTask THEN tasks[t] - 1 ELSE tasks[t]
  BY <1>1, <1>2, <1>3
<1>6. tasks'[fromTask] = tasks[fromTask] - 1 /\ tasks'[toTask] = tasks[toTask] + 1
  BY <1>1, <1>5
<1>7. tasks' \in [Kind \X Stage -> 0 .. MaxTasks]
  <2>1. MaxTasks \in Nat
    BY RelayAssumption
  <2>2. \A t \in Kind \X Stage : tasks'[t] \in 0 .. MaxTasks
    BY <1>2, <1>3, <1>4, <1>5, <2>1
  <2>3. tasks' = [t \in Kind \X Stage |-> tasks'[t]]
    BY <1>2, <1>3
  <2> HIDE DEF fromTask, toTask
  <2> QED BY <2>2, <2>3
<1>8. \A k \in Kind, s \in Stage :
        (k # kind \/ s \notin {from, to}) => tasks'[<<k, s>>] = tasks[<<k, s>>]
  BY <1>5
<1> QED BY <1>3, <1>6, <1>7, <1>8

(* Starting a task counts one more at its stage.                           *)
LEMMA StartedTask ==
  ASSUME TypeOK, NEW kind \in Kind, NEW stage \in Stage, Started(kind, stage)
  PROVE  /\ tasks' \in [Kind \X Stage -> 0 .. MaxTasks]
         /\ tasks'[<<kind, stage>>] = tasks[<<kind, stage>>] + 1
         /\ \A k \in Kind, s \in Stage :
              (k # kind \/ s # stage) => tasks'[<<k, s>>] = tasks[<<k, s>>]
<1>1. MaxTasks \in Nat
  BY RelayAssumption
<1>2. <<kind, stage>> \in Kind \X Stage
  OBVIOUS
<1> QED BY <1>1, <1>2 DEF Started, TypeOK

(* Ending a task counts one less at its stage.                             *)
LEMMA EndedTask ==
  ASSUME TypeOK, NEW kind \in Kind, NEW stage \in Stage, Ended(kind, stage)
  PROVE  /\ tasks' \in [Kind \X Stage -> 0 .. MaxTasks]
         /\ tasks[<<kind, stage>>] > 0
         /\ tasks'[<<kind, stage>>] = tasks[<<kind, stage>>] - 1
         /\ \A k \in Kind, s \in Stage :
              (k # kind \/ s # stage) => tasks'[<<k, s>>] = tasks[<<k, s>>]
<1>1. MaxTasks \in Nat
  BY RelayAssumption
<1>2. <<kind, stage>> \in Kind \X Stage
  OBVIOUS
<1> QED BY <1>1, <1>2 DEF Ended, TypeOK

----------------------------------------------------------------------------

(* Neither property depends on who is asked to keep them: together they    *)
(* are inductive.                                                          *)
IInv == TypeOK /\ RecoveryExclusive

(* A recovery that goes on from one stage to the next stays the only one.  *)
LEMMA RecoveryMoves ==
  ASSUME IInv, NEW from \in Stage, NEW to \in Stage, from # to,
         Moved("recover", from, to), isRestarting' = isRestarting
  PROVE  RecoveryExclusive'
<1>1. "recover" \in Kind
  BY DEF Kind
<1>2. /\ tasks[<<"recover", from>>] > 0
      /\ tasks'[<<"recover", from>>] = tasks[<<"recover", from>>] - 1
      /\ tasks'[<<"recover", to>>] = tasks[<<"recover", to>>] + 1
      /\ \A s \in Stage \ {from, to} :
           tasks'[<<"recover", s>>] = tasks[<<"recover", s>>]
  BY <1>1, MovedTask DEF IInv
<1>3. \A s \in Stage : tasks[<<"recover", s>>] \in Nat
  BY <1>1, RelayAssumption DEF IInv, TypeOK
<1>4. /\ tasks[<<"recover", from>>] = 1
      /\ \A s \in Stage \ {from} : tasks[<<"recover", s>>] = 0
  BY <1>2, <1>3 DEF IInv, RecoveryExclusive
<1>5. /\ tasks'[<<"recover", to>>] = 1
      /\ \A s \in Stage \ {to} : tasks'[<<"recover", s>>] = 0
  BY <1>2, <1>4
<1>6. isRestarting
  BY <1>2 DEF IInv, RecoveryExclusive
<1> QED BY <1>5, <1>6 DEF RecoveryExclusive

(* A recovery that ends was the only one, and lowers the flag.             *)
LEMMA RecoveryEnds ==
  ASSUME IInv, NEW stage \in Stage, Ended("recover", stage), isRestarting' = FALSE
  PROVE  RecoveryExclusive'
<1>1. "recover" \in Kind
  BY DEF Kind
<1>2. /\ tasks[<<"recover", stage>>] > 0
      /\ tasks'[<<"recover", stage>>] = tasks[<<"recover", stage>>] - 1
      /\ \A s \in Stage \ {stage} :
           tasks'[<<"recover", s>>] = tasks[<<"recover", s>>]
  BY <1>1, EndedTask DEF IInv
<1>3. \A s \in Stage : tasks[<<"recover", s>>] \in Nat
  BY <1>1, RelayAssumption DEF IInv, TypeOK
<1>4. \A s \in Stage : tasks'[<<"recover", s>>] = 0
  <2>1. /\ tasks[<<"recover", stage>>] = 1
        /\ \A s \in Stage \ {stage} : tasks[<<"recover", s>>] = 0
    BY <1>2, <1>3 DEF IInv, RecoveryExclusive
  <2>2. ASSUME NEW s \in Stage PROVE tasks'[<<"recover", s>>] = 0
    BY <1>2, <2>1
  <2> QED BY <2>2
<1> QED
  <2>1. /\ \A s \in Stage : tasks'[<<"recover", s>>] <= 1
        /\ \A s \in Stage : ~(tasks'[<<"recover", s>>] > 0)
    BY <1>4
  <2> QED BY <2>1, Zenon DEF RecoveryExclusive

(* A recovery that starts while the flag is down is the only one.          *)
LEMMA RecoveryStarts ==
  ASSUME IInv, ~isRestarting, NEW stage \in Stage, Started("recover", stage),
         isRestarting' = TRUE
  PROVE  RecoveryExclusive'
<1>1. "recover" \in Kind
  BY DEF Kind
<1>2. /\ tasks'[<<"recover", stage>>] = tasks[<<"recover", stage>>] + 1
      /\ \A s \in Stage \ {stage} :
           tasks'[<<"recover", s>>] = tasks[<<"recover", s>>]
  BY <1>1, StartedTask DEF IInv
<1>3. \A s \in Stage : tasks[<<"recover", s>>] \in Nat
  BY <1>1, RelayAssumption DEF IInv, TypeOK
<1>4. \A s \in Stage : tasks[<<"recover", s>>] = 0
  <2>1. \A s \in Stage : ~(tasks[<<"recover", s>>] > 0)
    BY Zenon DEF IInv, RecoveryExclusive
  <2>2. ASSUME NEW s \in Stage PROVE tasks[<<"recover", s>>] = 0
    <3>1. tasks[<<"recover", s>>] \in Nat /\ ~(tasks[<<"recover", s>>] > 0)
      BY <1>3, <2>1
    <3> QED BY <3>1
  <2> QED BY <2>2
<1>5. /\ tasks'[<<"recover", stage>>] = 1
      /\ \A s \in Stage \ {stage} : tasks'[<<"recover", s>>] = 0
  BY <1>2, <1>4
<1> QED BY <1>5 DEF RecoveryExclusive

(* Steps that leave the recoveries and the flag alone.                     *)
LEMMA RecoveriesAlone ==
  ASSUME IInv, isRestarting' = isRestarting,
         \A s \in Stage : tasks'[<<"recover", s>>] = tasks[<<"recover", s>>]
  PROVE  RecoveryExclusive'
BY DEF IInv, RecoveryExclusive

(* A task of another kind is no recovery.                                  *)
LEMMA OtherKinds ==
  ASSUME IInv, isRestarting' = isRestarting,
         NEW kind \in Kind \ {"recover"}, NEW from \in Stage, NEW to \in Stage,
         from # to,
         Moved(kind, from, to) \/ Started(kind, from) \/ Ended(kind, from)
  PROVE  RecoveryExclusive'
<1>1. \A s \in Stage : tasks'[<<"recover", s>>] = tasks[<<"recover", s>>]
  BY MovedTask, StartedTask, EndedTask DEF IInv, Kind
<1> QED BY <1>1, RecoveriesAlone

----------------------------------------------------------------------------

LEMMA InitIInv == Init => IInv
<1> SUFFICES ASSUME Init PROVE IInv
  OBVIOUS
<1>1. /\ \A t \in Kind \X Stage : tasks[t] = 0
      /\ tasks \in [Kind \X Stage -> {0}]
  BY DEF Init, NoTasks
<1>2. TypeOK
  <2>1. 0 \in 0 .. MaxTasks /\ 0 \in 0 .. FailuresToAct
    BY RelayAssumption
  <2>2. tasks \in [Kind \X Stage -> 0 .. MaxTasks]
    BY <1>1, <2>1
  <2> QED BY <2>1, <2>2 DEF Init, TypeOK
<1>3. RecoveryExclusive
  <2>1. \A s \in Stage : <<"recover", s>> \in Kind \X Stage
    BY DEF Kind
  <2>2. /\ \A s \in Stage : tasks[<<"recover", s>>] <= 1
        /\ \A s \in Stage : ~(tasks[<<"recover", s>>] > 0)
    BY <1>1, <2>1
  <2>3. isRestarting = FALSE
    BY DEF Init
  <2> QED BY <2>2, <2>3, Zenon DEF RecoveryExclusive
<1> QED BY <1>2, <1>3 DEF IInv

(* The maintenance loop's check starts a maintenance task, or nothing.     *)
LEMMA MaintenanceKeepsRecoveries ==
  ASSUME IInv, MaintainConnection, isRestarting' = isRestarting
  PROVE  tasks' \in [Kind \X Stage -> 0 .. MaxTasks] /\ RecoveryExclusive'
<1>1. "maintain" \in Kind \ {"recover"} /\ "dialing" \in Stage /\ "reserving" \in Stage
  BY DEF Kind, Stage
<1>2. CASE tasks' = tasks
  BY <1>2, RecoveriesAlone DEF IInv, TypeOK
<1>3. CASE Started("maintain", "dialing")
  <2>1. tasks' \in [Kind \X Stage -> 0 .. MaxTasks]
    BY <1>1, <1>3, StartedTask DEF IInv
  <2>2. RecoveryExclusive'
    BY <1>1, <1>3, OtherKinds
  <2> QED BY <2>1, <2>2
<1> QED BY <1>2, <1>3 DEF MaintainConnection

(* One step of a task, of whatever kind.                                   *)
LEMMA TaskStepIInv ==
  ASSUME IInv, NEW kind \in Kind, TaskStep(kind)
  PROVE  IInv'
<1>1. "dialing" \in Stage /\ "reserving" \in Stage /\ "waiting" \in Stage
  BY DEF Stage
<1>2. CASE DialSucceeds(kind)
  <2>1. Moved(kind, "dialing", "reserving") /\ isRestarting' = isRestarting
    BY <1>2 DEF DialSucceeds, monitorVars
  <2>2. TypeOK'
    BY <1>1, <1>2, <2>1, MovedTask DEF IInv, TypeOK, DialSucceeds, monitorVars
  <2>3. RecoveryExclusive'
    BY <1>1, <2>1, RecoveryMoves, OtherKinds
  <2> QED BY <2>2, <2>3 DEF IInv
<1>3. CASE DialFails(kind)
  <2>1. /\ Ended(kind, "dialing")
        /\ isRestarting' = IF kind = "recover" THEN FALSE ELSE isRestarting
    BY <1>3 DEF DialFails, RecoveryOver
  <2>2. TypeOK'
    BY <1>1, <1>3, <2>1, EndedTask DEF IInv, TypeOK, DialFails, environmentVars
  <2>3. RecoveryExclusive'
    BY <1>1, <2>1, RecoveryEnds, OtherKinds
  <2> QED BY <2>2, <2>3 DEF IInv
<1>4. CASE Reserve(kind)
  <2>1. Moved(kind, "reserving", "waiting") /\ isRestarting' = isRestarting
    BY <1>4 DEF Reserve, monitorVars
  <2>2. TypeOK'
    BY <1>1, <1>4, <2>1, MovedTask DEF IInv, TypeOK, Reserve, monitorVars
  <2>3. RecoveryExclusive'
    BY <1>1, <2>1, RecoveryMoves, OtherKinds
  <2> QED BY <2>2, <2>3 DEF IInv
<1>5. CASE WaitOver(kind)
  <2>1. /\ Ended(kind, "waiting")
        /\ isRestarting' = IF kind = "recover" THEN FALSE ELSE isRestarting
    BY <1>5 DEF WaitOver, RecoveryOver
  <2>2. failures' \in 0 .. FailuresToAct
    BY <1>5, RelayAssumption DEF IInv, TypeOK, WaitOver
  <2>3. TypeOK'
    BY <1>1, <1>5, <2>1, <2>2, EndedTask DEF IInv, TypeOK, WaitOver, environmentVars
  <2>4. RecoveryExclusive'
    BY <1>1, <2>1, RecoveryEnds, OtherKinds
  <2> QED BY <2>3, <2>4 DEF IInv
<1> QED BY <1>2, <1>3, <1>4, <1>5 DEF TaskStep

(* A tick of the monitor starts a recovery only while none runs.           *)
LEMMA HealthTickIInv ==
  ASSUME IInv, HealthTick
  PROVE  IInv'
<1>1. "recover" \in Kind /\ "dialing" \in Stage
  BY DEF Kind, Stage
<1>2. failures' \in 0 .. FailuresToAct
  BY RelayAssumption DEF IInv, TypeOK, HealthTick
<1>3. CASE UNCHANGED <<tasks, isRestarting>>
  <2>1. TypeOK'
    BY <1>2, <1>3 DEF IInv, TypeOK, HealthTick, environmentVars
  <2>2. RecoveryExclusive'
    BY <1>3, RecoveriesAlone
  <2> QED BY <2>1, <2>2 DEF IInv
<1>4. CASE Started("recover", "dialing") /\ ~isRestarting /\ isRestarting' = TRUE
  <2>1. TypeOK'
    BY <1>1, <1>2, <1>4, StartedTask DEF IInv, TypeOK, HealthTick, environmentVars
  <2>2. RecoveryExclusive'
    BY <1>1, <1>4, RecoveryStarts
  <2> QED BY <2>1, <2>2 DEF IInv
<1> QED BY <1>3, <1>4 DEF HealthTick

(* What the relay, the network and libp2p do.                              *)
LEMMA EnvironmentIInv ==
  ASSUME IInv, Environment
  PROVE  IInv'
<1>1. CASE Disconnect
  <2>1. "reconnect" \in Kind \ {"recover"} /\ "queued" \in Stage /\ "dialing" \in Stage
    BY DEF Kind, Stage
  <2>2. Started("reconnect", "queued") /\ isRestarting' = isRestarting
    BY <1>1 DEF Disconnect, monitorVars
  <2>3. TypeOK'
    BY <1>1, <2>1, <2>2, StartedTask DEF IInv, TypeOK, Disconnect, monitorVars
  <2>4. RecoveryExclusive'
    BY <2>1, <2>2, OtherKinds
  <2> QED BY <2>3, <2>4 DEF IInv
<1>2. CASE RelayChanges \/ AutoDial \/ AutoReserve \/ RefreshRefused \/ OtherRelayChanges
  <2>1. TypeOK' /\ UNCHANGED <<tasks, isRestarting>>
    BY <1>2 DEF IInv, TypeOK, RelayChanges, AutoDial, AutoReserve, RefreshRefused,
                OtherRelayChanges, monitorVars
  <2>2. RecoveryExclusive'
    BY <2>1, RecoveriesAlone
  <2> QED BY <2>1, <2>2 DEF IInv
<1> QED BY <1>1, <1>2 DEF Environment

LEMMA StepIInv == IInv /\ [Next]_vars => IInv'
<1> SUFFICES ASSUME IInv, [Next]_vars PROVE IInv'
  OBVIOUS
<1>1. ASSUME NEW kind \in Kind, TaskStep(kind) PROVE IInv'
  BY <1>1, TaskStepIInv
<1>2. CASE Reconnect
  <2>1. /\ "reconnect" \in Kind \ {"recover"} /\ "queued" \in Stage /\ "dialing" \in Stage
        /\ Moved("reconnect", "queued", "dialing") /\ isRestarting' = isRestarting
    BY <1>2 DEF Kind, Stage, Reconnect, monitorVars
  <2>2. TypeOK'
    BY <1>2, <2>1, MovedTask DEF IInv, TypeOK, Reconnect, environmentVars, monitorVars
  <2>3. RecoveryExclusive'
    BY <2>1, OtherKinds
  <2> QED BY <2>2, <2>3 DEF IInv
<1>3. CASE StartupDone
  <2>1. tasks' \in [Kind \X Stage -> 0 .. MaxTasks] /\ RecoveryExclusive'
    BY <1>3, MaintenanceKeepsRecoveries DEF StartupDone, monitorVars
  <2>2. TypeOK'
    BY <1>3, <2>1 DEF IInv, TypeOK, StartupDone, environmentVars, monitorVars,
                      HasCircuitAddress
  <2> QED BY <2>1, <2>2 DEF IInv
<1>4. CASE MaintenanceTick
  <2>1. tasks' \in [Kind \X Stage -> 0 .. MaxTasks] /\ RecoveryExclusive'
    BY <1>4, MaintenanceKeepsRecoveries DEF MaintenanceTick, monitorVars
  <2>2. TypeOK'
    BY <1>4, <2>1 DEF IInv, TypeOK, MaintenanceTick, environmentVars, monitorVars
  <2> QED BY <2>1, <2>2 DEF IInv
<1>5. CASE HealthTick
  BY <1>5, HealthTickIInv
<1>6. CASE RetryPoll
  <2>1. TypeOK' /\ UNCHANGED <<tasks, isRestarting>>
    BY <1>6 DEF IInv, TypeOK, RetryPoll, environmentVars, monitorVars, HasCircuitAddress
  <2>2. RecoveryExclusive'
    BY <2>1, RecoveriesAlone
  <2> QED BY <2>1, <2>2 DEF IInv
<1>7. CASE Environment
  BY <1>7, EnvironmentIInv
<1>8. CASE UNCHANGED vars
  BY <1>8 DEF vars, environmentVars, monitorVars, IInv, TypeOK, RecoveryExclusive
<1> QED BY <1>1, <1>2, <1>3, <1>4, <1>5, <1>6, <1>7, <1>8 DEF Next

(* Counts, stages and the failure counter stay in range, for any number of *)
(* tasks at a stage and any number of failures before a recovery.          *)
THEOREM TypeCorrect == Spec => []TypeOK
<1>1. IInv => TypeOK
  BY DEF IInv
<1> QED BY <1>1, InitIInv, StepIInv, PTL DEF Spec

(* The monitor's recoveries never overlap, and isRestarting tells whether  *)
(* one runs: attemptRecovery raises it before its first await and lowers   *)
(* it on every way out.                                                    *)
THEOREM RecoveriesExclude == Spec => []RecoveryExclusive
<1>1. IInv => RecoveryExclusive
  BY DEF IInv
<1> QED BY <1>1, InitIInv, StepIInv, PTL DEF Spec

----------------------------------------------------------------------------
(* ReservationPursued rests on the counts alone: no reconnection leaves the *)
(* stages before the reservation but by asking for it.                      *)

LEMMA ReconnectionCount ==
  ASSUME NEW counts \in [Kind \X Stage -> 0 .. MaxTasks], NEW s \in Stage
  PROVE  counts[<<"reconnect", s>>] \in Nat
<1>1. <<"reconnect", s>> \in Kind \X Stage
  BY DEF Kind
<1>2. counts[<<"reconnect", s>>] \in 0 .. MaxTasks
  BY <1>1
<1> QED BY <1>2, RelayAssumption

(* Steps that take no reconnection away.                                    *)
LEMMA PursuitGoesOn ==
  ASSUME Pursued, reserved => reserved', connected => connected',
         \A s \in Stage : tasks'[<<"reconnect", s>>] >= tasks[<<"reconnect", s>>],
         TypeOK, tasks' \in [Kind \X Stage -> 0 .. MaxTasks]
  PROVE  Pursued'
<1>1. \A s \in Stage :
        tasks[<<"reconnect", s>>] \in Nat /\ tasks'[<<"reconnect", s>>] \in Nat
  BY ReconnectionCount DEF TypeOK
<1>2. \A s \in Stage : tasks[<<"reconnect", s>>] > 0 => tasks'[<<"reconnect", s>>] > 0
  BY <1>1
<1>3. "queued" \in Stage /\ "dialing" \in Stage /\ "reserving" \in Stage
  BY DEF Stage
<1> QED BY <1>2, <1>3 DEF Pursued, Reconnecting

(* A task of another kind is none of the reconnections.                     *)
LEMMA OthersLeaveReconnections ==
  ASSUME TypeOK, NEW kind \in Kind \ {"reconnect"},
         NEW from \in Stage, NEW to \in Stage, from # to,
         Moved(kind, from, to) \/ Started(kind, from) \/ Ended(kind, from)
  PROVE  /\ tasks' \in [Kind \X Stage -> 0 .. MaxTasks]
         /\ \A s \in Stage : tasks'[<<"reconnect", s>>] >= tasks[<<"reconnect", s>>]
<1>1. /\ tasks' \in [Kind \X Stage -> 0 .. MaxTasks]
      /\ \A s \in Stage : tasks'[<<"reconnect", s>>] = tasks[<<"reconnect", s>>]
  BY MovedTask, StartedTask, EndedTask DEF Kind
<1>2. \A s \in Stage : tasks[<<"reconnect", s>>] \in Nat
  BY RelayAssumption DEF TypeOK, Kind
<1> QED BY <1>1, <1>2

(* A reconnection that moves is counted where it arrives.                   *)
LEMMA ReconnectionMoves ==
  ASSUME TypeOK, NEW from \in Stage, NEW to \in Stage, from # to,
         Moved("reconnect", from, to)
  PROVE  /\ tasks'[<<"reconnect", to>>] > 0
         /\ \A s \in Stage \ {from, to} :
              tasks'[<<"reconnect", s>>] = tasks[<<"reconnect", s>>]
<1>1. "reconnect" \in Kind
  BY DEF Kind
<1>2. tasks[<<"reconnect", to>>] \in Nat
  BY <1>1, RelayAssumption DEF TypeOK
<1>3. /\ tasks'[<<"reconnect", to>>] = tasks[<<"reconnect", to>>] + 1
      /\ \A k \in Kind, s \in Stage :
           (k # "reconnect" \/ s \notin {from, to}) => tasks'[<<k, s>>] = tasks[<<k, s>>]
  BY <1>1, MovedTask
<1> QED BY <1>1, <1>2, <1>3

(* One step of a task.                                                      *)
LEMMA TaskStepPursues ==
  ASSUME TypeOK, TypeOK', Pursued, relay = "ok", NEW kind \in Kind, TaskStep(kind)
  PROVE  Pursued'
<1>1. /\ "dialing" \in Stage /\ "reserving" \in Stage /\ "waiting" \in Stage
      /\ "queued" \in Stage
  BY DEF Stage
<1>2. /\ \/ Moved(kind, "dialing", "reserving") \/ Moved(kind, "reserving", "waiting")
         \/ Ended(kind, "waiting")
      /\ connected => connected'
      /\ reserved => reserved'
      /\ ~DialFails(kind)
  <2>1. ~DialFails(kind)
    BY DEF DialFails
  <2>2. CASE DialSucceeds(kind)
    BY <2>1, <2>2 DEF DialSucceeds
  <2>3. CASE Reserve(kind)
    BY <2>1, <2>3 DEF Reserve
  <2>4. CASE WaitOver(kind)
    BY <2>1, <2>4 DEF WaitOver, environmentVars
  <2> QED BY <2>1, <2>2, <2>3, <2>4 DEF TaskStep
<1>3. CASE kind # "reconnect"
  <2>1. \A s \in Stage : tasks'[<<"reconnect", s>>] >= tasks[<<"reconnect", s>>]
    BY <1>1, <1>2, <1>3, OthersLeaveReconnections
  <2> QED BY <1>2, <2>1, PursuitGoesOn DEF TypeOK
<1>4. CASE kind = "reconnect" /\ DialSucceeds(kind)
  <2>1. connected' /\ tasks'[<<"reconnect", "reserving">>] > 0
    BY <1>1, <1>4, ReconnectionMoves DEF DialSucceeds
  <2> QED BY <2>1 DEF Pursued, Reconnecting
<1>5. CASE kind = "reconnect" /\ Reserve(kind)
  <2>1. CASE connected
    BY <1>5, <2>1 DEF Reserve, Pursued
  <2>2. CASE ~connected
    <3>1. Moved("reconnect", "reserving", "waiting")
      BY <1>5 DEF Reserve
    <3>2. \A s \in Stage \ {"reserving", "waiting"} :
            tasks'[<<"reconnect", s>>] = tasks[<<"reconnect", s>>]
      BY <1>1, <3>1, ReconnectionMoves
    <3> QED BY <1>1, <1>2, <2>2, <3>2 DEF Pursued, Reconnecting
  <2> QED BY <2>1, <2>2
<1>6. CASE kind = "reconnect" /\ WaitOver(kind)
  <2>1. Ended("reconnect", "waiting") /\ "reconnect" \in Kind
    BY <1>6 DEF WaitOver, Kind
  <2>2. \A k \in Kind, s \in Stage :
          (k # "reconnect" \/ s # "waiting") => tasks'[<<k, s>>] = tasks[<<k, s>>]
    BY <1>1, <2>1, EndedTask
  <2> QED BY <1>1, <1>2, <2>1, <2>2 DEF Pursued, Reconnecting
<1> QED BY <1>2, <1>3, <1>4, <1>5, <1>6 DEF TaskStep

(* Every other step.                                                        *)
LEMMA StepPursues ==
  ASSUME TypeOK, TypeOK', Pursued, relay = "ok", relay' = "ok", [Next]_vars
  PROVE  Pursued'
<1>1. /\ "queued" \in Stage /\ "dialing" \in Stage /\ "reserving" \in Stage
      /\ {"reconnect", "maintain", "recover"} \subseteq Kind
  BY DEF Stage, Kind
<1>2. ASSUME UNCHANGED <<connected, reserved>>,
             tasks' = tasks \/ Started("maintain", "dialing") \/ Started("recover", "dialing")
      PROVE  Pursued'
  <2>1. CASE tasks' = tasks
    BY <1>2, <2>1 DEF Pursued, Reconnecting
  <2>2. CASE Started("maintain", "dialing") \/ Started("recover", "dialing")
    <3>1. \A s \in Stage : tasks'[<<"reconnect", s>>] >= tasks[<<"reconnect", s>>]
      BY <1>1, <2>2, OthersLeaveReconnections
    <3> QED BY <1>2, <3>1, PursuitGoesOn DEF TypeOK
  <2> QED BY <1>2, <2>1, <2>2
<1>3. ASSUME NEW kind \in Kind, TaskStep(kind) PROVE Pursued'
  BY <1>3, TaskStepPursues
<1>4. CASE Reconnect
  <2>1. tasks'[<<"reconnect", "dialing">>] > 0
    BY <1>1, <1>4, ReconnectionMoves DEF Reconnect
  <2> QED BY <2>1 DEF Pursued, Reconnecting
<1>5. CASE StartupDone \/ MaintenanceTick \/ HealthTick \/ RetryPoll
  BY <1>2, <1>5 DEF StartupDone, MaintenanceTick, HealthTick, RetryPoll,
                    MaintainConnection, environmentVars
<1>6. CASE Disconnect
  <2>1. tasks[<<"reconnect", "queued">>] \in Nat
    BY <1>1, RelayAssumption DEF TypeOK
  <2>2. tasks'[<<"reconnect", "queued">>] = tasks[<<"reconnect", "queued">>] + 1
    BY <1>1, <1>6, StartedTask DEF Disconnect
  <2> QED BY <2>1, <2>2 DEF Pursued, Reconnecting
<1>7. CASE RelayChanges \/ AutoDial \/ AutoReserve \/ RefreshRefused \/ OtherRelayChanges
  BY <1>7 DEF RelayChanges, AutoDial, AutoReserve, RefreshRefused, OtherRelayChanges,
              Pursued, Reconnecting
<1>8. CASE UNCHANGED vars
  BY <1>8 DEF vars, environmentVars, Pursued, Reconnecting
<1> QED BY <1>3, <1>4, <1>5, <1>6, <1>7, <1>8 DEF Next, Environment

(* As long as the relay grants reservations, a reservation once held is     *)
(* held or being asked for, whatever drops, dials and recoveries overlap    *)
(* and however many of them there are.                                      *)
THEOREM ReservationsPursued == Spec => ReservationPursued
<1>1. TypeOK /\ TypeOK' /\ [Next]_vars =>
        [Pursued /\ relay = "ok" /\ relay' = "ok" => Pursued']_vars
  BY StepPursues
<1> QED BY <1>1, TypeCorrect, PTL DEF Spec, ReservationPursued

=============================================================================
