--------------------------- MODULE PluginService ---------------------------
(***************************************************************************)
(* The gateway plugin (extensions/bsv-p2p/index.ts): its background        *)
(* service starts a P2PNode, restarts it with backoff when that fails, and *)
(* stops it.                                                               *)
(*                                                                         *)
(* The plugin asks its node for getPeerId(), which P2PNode does not have   *)
(* (it has the getter peerId). The call throws, so startService() takes    *)
(* its catch branch also after a start that worked, and what follows the   *)
(* call in the try block - the listeners, the health check, the reset of   *)
(* restartCount - never runs. That is what is modelled.                    *)
(***************************************************************************)
EXTENDS NodeLifecycle, FiniteSets

CONSTANTS
  MaxRestartAttempts,   \* MAX_RESTART_ATTEMPTS, 3 in the code
  MaxStarts             \* bound: calls of the service's start()

(* One chain of startService() calls for each start() of the gateway.       *)
Chain == 1 .. MaxStarts

(* Not an object: p2pNode is null. Not a chain: the gateway's own stop().   *)
Nobody == 0
Gateway == 0

ASSUME PluginAssumption ==
  /\ MaxRestartAttempts \in Nat
  /\ MaxStarts \in Nat \ {0}
  /\ Object = 1 .. MaxStarts + MaxRestartAttempts
  /\ Caller = {Gateway} \union Chain

VARIABLES
  p2pNode,          \* the plugin's node, or Nobody
  restartCount,
  isShuttingDown,
  chain,            \* where each chain of startService() calls is
  awaited,          \* the object whose start() a chain waits for
  wanted,           \* was the gateway's last call start()
  raced             \* history: did stop() meet a start() in progress

ownVars == <<p2pNode, restartCount, isShuttingDown, chain, awaited, wanted, raced>>
pluginVars == <<nodeVars, ownVars>>

PluginTypeOK ==
  /\ NodeTypeOK
  /\ p2pNode \in Object \union {Nobody}
  /\ restartCount \in 0 .. MaxRestartAttempts
  /\ isShuttingDown \in BOOLEAN
  /\ chain \in [Chain -> {"none", "starting", "stopping", "backoff", "over", "disabled"}]
  /\ awaited \in [Chain -> Object]
  /\ wanted \in BOOLEAN
  /\ raced \in BOOLEAN

PluginInit ==
  /\ NodeInit
  /\ p2pNode = Nobody
  /\ restartCount = 0
  /\ isShuttingDown = FALSE
  /\ chain = [c \in Chain |-> "none"]
  /\ awaited = [c \in Chain |-> 1]
  /\ wanted = FALSE
  /\ raced = FALSE

Busy(c) == chain[c] \in {"starting", "stopping", "backoff"}

(* The objects constructed so far.                                          *)
Made == {o \in Object : startAt[o] # "new"}

----------------------------------------------------------------------------
(* startService().                                                          *)

(* A new P2PNode takes the place of the old one, and its start() begins.    *)
StartService(c) ==
  \E o \in Object \ Made :
    /\ \A earlier \in Object \ Made : o <= earlier
    /\ StartNode(o)
    /\ p2pNode' = o
    /\ chain' = [chain EXCEPT ![c] = "starting"]
    /\ awaited' = [awaited EXCEPT ![c] = o]
    /\ UNCHANGED <<stops, fields, started, running>>

(* stopService() up to p2pNode.stop(), or to its end when there is no node. *)
BeginStop(c) ==
  \/ /\ p2pNode # Nobody
     /\ StopNode(c, p2pNode)
     /\ isShuttingDown' = TRUE
     /\ UNCHANGED startAt
  \/ /\ p2pNode = Nobody
     /\ isShuttingDown' = FALSE
     /\ UNCHANGED nodeVars

(* ... and from there: p2pNode is forgotten, whichever node it is by now,   *)
(* unless stop() threw.                                                     *)
EndStop(c) ==
  /\ StopReturns(c)
  /\ p2pNode' = IF stops[c].at = "done" THEN Nobody ELSE p2pNode
  /\ isShuttingDown' = FALSE
  /\ UNCHANGED <<startAt, fields, started, running>>

(* Mutant of Retry: the old node is not stopped. *)
RetryUnstopped(c) ==
  /\ chain[c] = "starting"
  /\ startAt[awaited[c]] \in {"done", "failed"}
  /\ restartCount < MaxRestartAttempts
  /\ ~isShuttingDown
  /\ restartCount' = restartCount + 1
  /\ chain' = [chain EXCEPT ![c] = "backoff"]
  /\ UNCHANGED <<nodeVars, isShuttingDown, p2pNode, awaited, wanted, raced>>

(* Mutant of Retry: the restarts are not counted. *)
RetryUncounted(c) ==
  /\ chain[c] = "starting"
  /\ startAt[awaited[c]] \in {"done", "failed"}
  /\ restartCount < MaxRestartAttempts
  /\ ~isShuttingDown
  /\ BeginStop(c)
  /\ chain' = [chain EXCEPT ![c] = IF p2pNode = Nobody THEN "backoff" ELSE "stopping"]
  /\ UNCHANGED <<restartCount, p2pNode, awaited, wanted, raced>>

(* Once p2pNode.start() has ended, either it or getPeerId() has thrown. The *)
(* catch branch stops the service and retries, up to the limit ...          *)
Retry(c) ==
  /\ chain[c] = "starting"
  /\ startAt[awaited[c]] \in {"done", "failed"}
  /\ restartCount < MaxRestartAttempts
  /\ ~isShuttingDown
  /\ restartCount' = restartCount + 1
  /\ BeginStop(c)
  /\ chain' = [chain EXCEPT ![c] = IF p2pNode = Nobody THEN "backoff" ELSE "stopping"]
  /\ UNCHANGED <<p2pNode, awaited, wanted, raced>>

(* ... and says "Plugin disabled" after it, or while somebody stops it.     *)
GiveUp(c) ==
  /\ chain[c] = "starting"
  /\ startAt[awaited[c]] \in {"done", "failed"}
  /\ restartCount >= MaxRestartAttempts \/ isShuttingDown
  /\ chain' = [chain EXCEPT ![c] = "disabled"]
  /\ UNCHANGED <<nodeVars, p2pNode, restartCount, isShuttingDown, awaited, wanted, raced>>

RetryStopped(c) ==
  /\ chain[c] = "stopping"
  /\ EndStop(c)
  /\ chain' = [chain EXCEPT ![c] = "backoff"]
  /\ UNCHANGED <<restartCount, awaited, wanted, raced>>

(* The delay is over: start again, unless somebody stops it right now.      *)
BackoffOver(c) ==
  /\ chain[c] = "backoff"
  /\ \/ ~isShuttingDown /\ StartService(c)
     \/ /\ isShuttingDown
        /\ chain' = [chain EXCEPT ![c] = "over"]
        /\ UNCHANGED <<nodeVars, p2pNode, awaited>>
  /\ UNCHANGED <<restartCount, isShuttingDown, wanted, raced>>

----------------------------------------------------------------------------
(* The gateway, which calls start() and stop() in turn and waits for each   *)
(* stop() to return, but not for start().                                   *)

GatewayStarts ==
  /\ ~wanted
  /\ NotStopping(Gateway)
  /\ \E c \in Chain :
       /\ chain[c] = "none"
       /\ \A earlier \in 1 .. c - 1 : chain[earlier] # "none"
       /\ StartService(c)
  /\ wanted' = TRUE
  /\ UNCHANGED <<restartCount, isShuttingDown, raced>>

GatewayStops ==
  /\ wanted
  /\ NotStopping(Gateway)
  /\ BeginStop(Gateway)
  /\ wanted' = FALSE
  /\ raced' = (raced \/ \E c \in Chain : Busy(c))
  /\ UNCHANGED <<p2pNode, restartCount, chain, awaited>>

GatewayStopped == 
  /\ EndStop(Gateway)
  /\ UNCHANGED <<restartCount, chain, awaited, wanted, raced>>

----------------------------------------------------------------------------
NodeStep ==
  /\ (\E o \in Object : StartSteps(o)) \/ (\E c \in Caller : StopSteps(c))
  /\ UNCHANGED ownVars

ChainStep(c) == Retry(c) \/ GiveUp(c) \/ RetryStopped(c) \/ BackoffOver(c)

PluginNext ==
  \/ GatewayStarts
  \/ GatewayStops
  \/ GatewayStopped
  \/ NodeStep
  \/ \E c \in Chain : ChainStep(c)

PluginSpec == PluginInit /\ [][PluginNext]_pluginVars

(* Promises settle and timers fire. libp2p ends every call, one way or the  *)
(* other. The gateway need never call.                                      *)
PluginFairness ==
  /\ \A o \in Object : WF_pluginVars(StartSteps(o) /\ UNCHANGED ownVars)
  /\ \A c \in Caller : WF_pluginVars(StopSteps(c) /\ UNCHANGED ownVars)
  /\ WF_pluginVars(GatewayStopped)
  /\ \A c \in Chain : WF_pluginVars(ChainStep(c))

FairPluginSpec == PluginSpec /\ PluginFairness

----------------------------------------------------------------------------
(* Properties.                                                              *)

(* At most one libp2p runs, whatever failed and was retried, as long as the *)
(* gateway does not stop the service in the middle of its start: the catch  *)
(* branch takes the old node down before the next one is made.              *)
OneNode ==
  ~raced => Cardinality({o \in Object : "libp2p" \in running[o]}) <= 1

(* A service that was stopped, not in the middle of its start, leaves       *)
(* nothing running but limiters: whichever await of start() had failed,     *)
(* stop() finds what was set up until then.                                 *)
StoppedLeavesLimiters ==
  ~raced /\ ~wanted /\ NotStopping(Gateway)
    => p2pNode = Nobody /\ \A o \in Object : running[o] \subseteq {"limiter"}

(* Whatever stops and starts overlap, the nodes that have anything running, *)
(* those a race has left up included, are no more than the gateway's starts *)
(* and the restarts counted: no chain makes two nodes of one restart, and   *)
(* none is made that nobody counts (extensions/bsv-p2p/index.ts:67-210).    *)
NodesCounted ==
  Cardinality({o \in Object : running[o] # {}})
    <= Cardinality({c \in Chain : chain[c] # "none"}) + restartCount

(* Every start() of the service ends, also one that is stopped meanwhile:   *)
(* the restarts are counted, and the count is never reset.                  *)
EveryStartEnds == \A c \in Chain : Busy(c) ~> ~Busy(c)

=============================================================================
