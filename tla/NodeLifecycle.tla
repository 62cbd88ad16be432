---------------------------- MODULE NodeLifecycle ----------------------------
(***************************************************************************)
(* start() and stop() of P2PNode (daemon/node.ts), with the parts of the   *)
(* message handler, the discovery service and the status broadcaster that  *)
(* they set up and tear down.                                              *)
(*                                                                         *)
(* Both run up to their next await in one go and may be overtaken there by *)
(* the other one. A module that extends this one says who calls them.      *)
(***************************************************************************)
EXTENDS Naturals

CONSTANTS
  Object,   \* the P2PNode objects
  Caller    \* who may call stop()

VARIABLES
  startAt,   \* how far the object's start() is
  stops,     \* what each caller's stop() works on, and how far it is
  fields,    \* the fields of the object that are not null
  started,   \* which of its services have isStarted
  running    \* what the object has running: libp2p, listeners, and the
             \* timers of the limiter, of discovery and of status

nodeVars == <<startAt, stops, fields, started, running>>

(* What start() waits for, in its order.                                    *)
Await == {"key", "libp2p", "node", "discovery", "status"}

NodeTypeOK ==
  /\ startAt \in [Object -> Await \union {"new", "done", "failed"}]
  /\ stops \in [Caller ->
       [at : {"idle", "discovery", "status", "node", "done", "threw"}, of : Object]]
  /\ fields \in [Object -> SUBSET {"node", "handler", "discovery", "status"}]
  /\ started \in [Object -> SUBSET {"discovery", "status"}]
  /\ running \in [Object -> SUBSET
       {"libp2p", "limiter", "listeners", "discovery", "status"}]

NodeInit ==
  /\ startAt = [o \in Object |-> "new"]
  /\ stops = [c \in Caller |-> [at |-> "idle", of |-> CHOOSE o \in Object : TRUE]]
  /\ fields = [o \in Object |-> {}]
  /\ started = [o \in Object |-> {}]
  /\ running = [o \in Object |-> {}]

----------------------------------------------------------------------------
(* start().                                                                 *)

(* Publishing and subscribing work on a libp2p that runs; while it is being *)
(* stopped they may or may not.                                             *)
Ending(o) == \E c \in Caller : stops[c].at = "node" /\ stops[c].of = o
PubSubMayWork(o) == "libp2p" \in running[o]
PubSubMayFail(o) == "libp2p" \notin running[o] \/ Ending(o)

(* The call runs to loadOrGenerateKey().                                    *)
StartNode(o) ==
  /\ startAt[o] = "new"
  /\ startAt' = [startAt EXCEPT ![o] = "key"]

KeyLoaded(o) ==
  /\ startAt[o] = "key"
  /\ startAt' = [startAt EXCEPT ![o] = "libp2p"]
  /\ UNCHANGED <<stops, fields, started, running>>

(* The key file cannot be written, or createLibp2p() rejects.               *)
KeyOrLibp2pFails(o) ==
  /\ startAt[o] \in {"key", "libp2p"}
  /\ startAt' = [startAt EXCEPT ![o] = "failed"]
  /\ UNCHANGED <<stops, fields, started, running>>

(* createLibp2p() also starts what it creates: node.start(), awaited next,  *)
(* finds it running.                                                        *)
Created(o) ==
  /\ startAt[o] = "libp2p"
  /\ startAt' = [startAt EXCEPT ![o] = "node"]
  /\ fields' = [fields EXCEPT ![o] = @ \union {"node"}]
  /\ running' = [running EXCEPT ![o] = @ \union {"libp2p", "listeners"}]
  /\ UNCHANGED <<stops, started>>

(* A service's start() sets isStarted, then subscribes; `works` says        *)
(* whether that works. Then it publishes, which start() waits for.          *)
Launch(o, service, works) ==
  /\ started' = [started EXCEPT ![o] = @ \union {service}]
  /\ startAt' = [startAt EXCEPT ![o] = IF works THEN service ELSE "failed"]

(* After node.start(): the message handler and its limiter, whose register()*)
(* throws if a stop() has set this.node to null, then discovery.            *)
StartDiscovery(o) ==
  /\ startAt[o] = "node"
  /\ \/ /\ "node" \in fields[o]
        /\ fields' = [fields EXCEPT ![o] = @ \union {"handler", "discovery"}]
        /\ running' = [running EXCEPT ![o] = @ \union {"limiter", "listeners"}]
        /\ \/ PubSubMayWork(o) /\ Launch(o, "discovery", TRUE)
           \/ PubSubMayFail(o) /\ Launch(o, "discovery", FALSE)
     \/ /\ "node" \notin fields[o]
        /\ fields' = [fields EXCEPT ![o] = @ \union {"handler"}]
        /\ running' = [running EXCEPT ![o] = @ \union {"limiter"}]
        /\ startAt' = [startAt EXCEPT ![o] = "failed"]
        /\ UNCHANGED started
  /\ UNCHANGED stops

(* After the first announcement discovery sets its intervals, whether or    *)
(* not it was stopped meanwhile; then the status broadcaster is started.    *)
StartStatus(o) ==
  /\ startAt[o] = "discovery"
  /\ fields' = [fields EXCEPT ![o] = @ \union {"status"}]
  /\ running' = [running EXCEPT ![o] = @ \union {"discovery", "listeners"}]
  /\ \/ PubSubMayWork(o) /\ Launch(o, "status", TRUE)
     \/ PubSubMayFail(o) /\ Launch(o, "status", FALSE)
  /\ UNCHANGED stops

StartDone(o) ==
  /\ startAt[o] = "status"
  /\ startAt' = [startAt EXCEPT ![o] = "done"]
  /\ running' = [running EXCEPT ![o] = @ \union {"status"}]
  /\ UNCHANGED <<stops, fields, started>>

(* The first announcement, or the first status, cannot be published.        *)
PublishFails(o) ==
  /\ startAt[o] \in {"discovery", "status"}
  /\ startAt' = [startAt EXCEPT ![o] = "failed"]
  /\ UNCHANGED <<stops, fields, started, running>>

StartSteps(o) ==
  \/ KeyLoaded(o)
  \/ KeyOrLibp2pFails(o)
  \/ Created(o)
  \/ StartDiscovery(o)
  \/ StartStatus(o)
  \/ StartDone(o)
  \/ PublishFails(o)

----------------------------------------------------------------------------
(* stop().                                                                  *)

NotStopping(c) == stops[c].at = "idle"

(* From here stop() runs to the next of the awaits `ahead` whose field is   *)
(* not null. A service's stop() returns at once unless isStarted; else it   *)
(* clears its timer and unsubscribes, which throws on a libp2p that has     *)
(* stopped. The message handler is only forgotten: nothing stops its        *)
(* limiter.                                                                 *)
RunStop(c, o, ahead, left, lost) ==
  LET next == IF "discovery" \in ahead \cap left THEN "discovery"
              ELSE IF "status" \in ahead \cap left THEN "status"
              ELSE IF "node" \in ahead \cap left THEN "node" ELSE "done"
  IN /\ fields' = [fields EXCEPT ![o] =
          IF next \in {"node", "done"} THEN left \ {"handler"} ELSE left]
     /\ running' = [running EXCEPT ![o] =
          @ \ (lost \union ({next} \cap started[o]))]
     /\ \/ /\ next \in started[o] => PubSubMayWork(o)
           /\ started' = [started EXCEPT ![o] = @ \ {next}]
           /\ stops' = [stops EXCEPT ![c] = [at |-> next, of |-> o]]
        \/ /\ next \in started[o] /\ PubSubMayFail(o)
           /\ stops' = [stops EXCEPT ![c] = [at |-> "threw", of |-> o]]
           /\ UNCHANGED started

(* The call: the listeners go first.                                        *)
StopNode(c, o) ==
  /\ NotStopping(c)
  /\ RunStop(c, o, {"discovery", "status", "node"}, fields[o], {"listeners"})

(* Mutant of ServiceStopped: the status broadcaster is left alone. *)
ServiceStoppedForgetsStatus(c) ==
  LET at == stops[c].at
      o == stops[c].of
  IN /\ at \in {"discovery", "status"}
     /\ RunStop(c, o, {"node"}, fields[o] \ {at}, {})
     /\ UNCHANGED startAt

(* A service has stopped: its field is set to null.                         *)
ServiceStopped(c) ==
  LET at == stops[c].at
      o == stops[c].of
  IN /\ at \in {"discovery", "status"}
     /\ RunStop(c, o, IF at = "discovery" THEN {"status", "node"} ELSE {"node"},
                fields[o] \ {at}, {})
     /\ UNCHANGED startAt

(* libp2p has stopped, or is being stopped by another caller already. Its   *)
(* stop() is taken to resolve.                                              *)
Libp2pStopped(c) ==
  LET o == stops[c].of IN
  /\ stops[c].at = "node"
  /\ fields' = [fields EXCEPT ![o] = @ \ {"node"}]
  /\ \/ running' = [running EXCEPT ![o] = @ \ {"libp2p"}]
     \/ /\ \E other \in Caller \ {c} : stops[other] = stops[c]
        /\ UNCHANGED running
  /\ stops' = [stops EXCEPT ![c].at = "done"]
  /\ UNCHANGED <<startAt, started>>

StopSteps(c) == ServiceStopped(c) \/ Libp2pStopped(c)

(* The caller goes on.                                                      *)
StopReturns(c) ==
  /\ stops[c].at \in {"done", "threw"}
  /\ stops' = [stops EXCEPT ![c].at = "idle"]

=============================================================================
