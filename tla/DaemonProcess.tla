--------------------------- MODULE DaemonProcess ---------------------------
(***************************************************************************)
(* The life of the daemon's processes: main() and shutdown() of            *)
(* daemon/index.ts, `bsv-p2p daemon start` and `stop` of cli/index.ts, and *)
(* the PID file between them, which says only where a daemon was. The      *)
(* messages the daemon handles are those of InboundMessages.               *)
(***************************************************************************)
EXTENDS InboundMessages

CONSTANT NoPid

ASSUME PidAssumption == NoPid \notin Process

VARIABLES
  pidFile,   \* the process named in daemon.pid
  cli,       \* the CLI: "idle", "checked" (nobody runs), "looking" (spawned)
  crossed    \* history: was a daemon shutting down beside another living one

vars == <<main, stopping, messageVars, pidFile, cli, crossed>>

Alive(p) == main[p] \in {"starting", "waiting", "ready"}

TypeOK ==
  /\ main \in [Process -> Phase]
  /\ stopping \in [Process -> BOOLEAN]
  /\ MessageTypeOK
  /\ pidFile \in Process \union {NoPid}
  /\ cli \in {"idle", "checked", "looking"}
  /\ crossed \in BOOLEAN

Init ==
  /\ main = [p \in Process |-> "none"]
  /\ stopping = [p \in Process |-> FALSE]
  /\ MessageInit
  /\ pidFile = NoPid
  /\ cli = "idle"
  /\ crossed = FALSE

----------------------------------------------------------------------------
(* main().                                                                  *)

(* Mutant of Registered: the node starts on a port that is taken.           *)
RegisteredAnyway(p) ==
  /\ main[p] = "starting"
  /\ main' = [main EXCEPT ![p] = "waiting"]
  /\ UNCHANGED <<stopping, messageVars, pidFile, cli>>

(* node.start() has come to register(): messages are taken from now on.     *)
(* libp2p listens on a port of config.json, the same for every daemon, and  *)
(* throws when another process has it. A node that stops has let go of it   *)
(* at some moment before its process ends.                                  *)
Registered(p) ==
  /\ main[p] = "starting"
  /\ \A other \in Process \ {p} : main[other] \in {"waiting", "ready"} => stopping[other]
  /\ main' = [main EXCEPT ![p] = "waiting"]
  /\ UNCHANGED <<stopping, messageVars, pidFile, cli>>

(* node.start() throws, on a port that is taken or whatever else:           *)
(* process.exit(1).                                                         *)
StartFails(p) ==
  /\ main[p] \in {"starting", "waiting"}
  /\ Die(p)
  /\ UNCHANGED <<stopping, enabled, owner, pidFile, cli>>

(* The wait for the relay is over. The PID file is saved and the listeners  *)
(* are attached; then the API listens, and if its port is taken the error   *)
(* has no listener. A daemon that is shutting down has let go of libp2p's   *)
(* port, but has this one until it ends.                                    *)
BecomeReady(p) ==
  /\ main[p] = "waiting"
  /\ pidFile' = p
  /\ \/ /\ \A other \in Process : main[other] # "ready"
        /\ main' = [main EXCEPT ![p] = "ready"]
        /\ UNCHANGED stage
     \/ /\ \E other \in Process : main[other] = "ready"
        /\ Die(p)
  /\ UNCHANGED <<stopping, enabled, owner, cli>>

(* SIGTERM or SIGINT, from anywhere: shutdown() up to its node.stop(). A    *)
(* second signal runs it again, and finds everything closed.                *)
Shutdown(p) ==
  /\ Alive(p) /\ ~stopping[p]
  /\ stopping' = [stopping EXCEPT ![p] = TRUE]
  /\ UNCHANGED <<main, messageVars, pidFile, cli>>

(* The node has stopped: the PID file goes, whoever it names.               *)
Exit(p) ==
  /\ Alive(p) /\ stopping[p]
  /\ Die(p)
  /\ pidFile' = NoPid
  /\ UNCHANGED <<stopping, enabled, owner, cli>>

----------------------------------------------------------------------------
(* The CLI, started by hand: one command at a time, and no other way to     *)
(* start a daemon.                                                          *)

(* isDaemonRunning(): a PID file that names a dead process is removed.      *)
DaemonRunning == pidFile # NoPid /\ Alive(pidFile)
Found == pidFile' = IF DaemonRunning THEN pidFile ELSE NoPid

(* daemon start: nothing if one runs. A daemon that comes up is in no PID   *)
(* file yet, and is not seen. Else, perhaps after the offer of the setup    *)
(* wizard, ...                                                              *)
CliStart ==
  /\ cli = "idle"
  /\ ~DaemonRunning
  /\ Found
  /\ cli' = "checked"
  /\ UNCHANGED <<main, stopping, messageVars>>

(* ... it spawns a daemon, or with --foreground becomes one and does not    *)
(* look ...                                                                 *)
CliSpawn ==
  /\ cli = "checked"
  /\ \E p \in Process :
       /\ main[p] = "none"
       /\ main' = [main EXCEPT ![p] = "starting"]
  /\ cli' \in {"looking", "idle"}
  /\ UNCHANGED <<stopping, messageVars, pidFile>>

(* ... and looks two seconds later whether it runs, to say so.              *)
CliLook ==
  /\ cli = "looking"
  /\ Found
  /\ cli' = "idle"
  /\ UNCHANGED <<main, stopping, messageVars>>

(* daemon stop signals the process the PID file names, if it lives.         *)
CliStop ==
  /\ cli = "idle"
  /\ \/ DaemonRunning /\ Shutdown(pidFile)
     \/ ~DaemonRunning /\ Found /\ UNCHANGED <<main, stopping, messageVars, cli>>

----------------------------------------------------------------------------
MessageStep ==
  /\ \/ \E m \in Message, p \in Process :
          Arrive(m, p) \/ ArriveMalformed(m, p) \/ ArriveTooLate(m, p)
     \/ \E m \in Message : GatewayAnswers(m)
  /\ UNCHANGED <<stopping, pidFile, cli>>

ProcessStep(p) ==
  \/ Registered(p)
  \/ StartFails(p)
  \/ BecomeReady(p)
  \/ Shutdown(p)
  \/ Exit(p)

(* What the history notes.                                                  *)
Crossing ==
  \E p, q \in Process : p # q /\ Alive(p) /\ stopping[p] /\ Alive(q)

Note == crossed' = (crossed \/ Crossing')

Next ==
  /\ \/ MessageStep
     \/ \E p \in Process : ProcessStep(p)
     \/ CliStart
     \/ CliSpawn
     \/ CliLook
     \/ CliStop
  /\ Note

Spec == Init /\ [][Next]_vars

(* The relay wait has a timeout, fetch() and node.stop() settle, and the    *)
(* CLI looks after its delay. Nobody need start or stop anything.           *)
Fairness ==
  /\ \A p \in Process :
       /\ WF_vars((Registered(p) \/ StartFails(p)) /\ Note)
       /\ WF_vars(BecomeReady(p) /\ Note)
       /\ WF_vars(Exit(p) /\ Note)
  /\ \A m \in Message :
       WF_vars(GatewayAnswers(m) /\ UNCHANGED <<stopping, pidFile, cli>> /\ Note)
  /\ WF_vars(CliLook /\ Note)

FairSpec == Spec /\ Fairness

----------------------------------------------------------------------------
(* Properties.                                                              *)

(* The PID file names the daemon that serves, also when further daemons are *)
(* started while one comes up: the port keeps them from writing their own,  *)
(* and what the CLI clears away is never the file of a living daemon. Only  *)
(* a daemon that shuts down beside another one can upset this: it removes   *)
(* the file whoever it names (index.ts:483, 532; node.ts:359-362).          *)
ServingIsKnown ==
  ~crossed => \A p \in Process : main[p] = "ready" => pidFile = p

(* A daemon that serves and is not being stopped survives every failure of  *)
(* the gateway and every message but one: a malformed one that it is just   *)
(* taking (index.ts:565-577, 662-664; node.ts:754-807). Of what else its    *)
(* HTTP handlers or libp2p may throw this says nothing.                     *)
OnlyMalformedKills ==
  [][\A p \in Process : main[p] = "ready" /\ main'[p] = "dead" /\ ~stopping[p] =>
       \E m \in Malformed : stage[m] = "none" /\ stage'[m] = "lost" /\ owner'[m] = p]_vars

(* Every message that was taken comes to an end: the gateway was told, or   *)
(* it could not be, or the process died.                                    *)
EveryMessageEnds ==
  \A m \in Message : stage[m] \in {"running", "waking"} ~> stage[m] \notin {"running", "waking"}

=============================================================================
