------------------------- MODULE NodeOwners_proofs -------------------------
(***************************************************************************)
(* Proofs about the two owners of a P2PNode: the daemon's process, for any *)
(* processes and messages, and the gateway's plugin, for any objects.      *)
(***************************************************************************)
EXTENDS DaemonProcess, PluginService, FiniteSetTheorems, TLAPS

(***************************************************************************)
(* DaemonProcess.                                                          *)
(***************************************************************************)

(***************************************************************************)
(* TypeOK.                                                                 *)
(***************************************************************************)
LEMMA InitTypeOK == Init => TypeOK
  <1>1. (CHOOSE p \in Process : TRUE) \in Process
    BY ProcessAssumption
  <1> QED
    BY <1>1 DEF Init, TypeOK, MessageInit, MessageTypeOK, Phase, Stage

(* Die() keeps the types of what it changes.                               *)
LEMMA DieTypeOK ==
  ASSUME TypeOK, NEW p \in Process, Die(p)
  PROVE  main' \in [Process -> Phase] /\ stage' \in [Message -> Stage]
  BY DEF TypeOK, MessageTypeOK, Die, Phase, Stage

LEMMA LoseTypeOK ==
  ASSUME TypeOK, NEW m \in Message, NEW p \in Process, Lose(m, p)
  PROVE  main' \in [Process -> Phase] /\ MessageTypeOK'
  BY DEF TypeOK, MessageTypeOK, Lose, Phase, Stage

(* The history is only ever noted.                                         *)
LEMMA NoteTypeOK == TypeOK /\ Note => crossed' \in BOOLEAN
  BY DEF TypeOK, Note

LEMMA MessageStepTypeOK == TypeOK /\ MessageStep /\ Note => TypeOK'
  <1> SUFFICES ASSUME TypeOK, MessageStep, Note PROVE TypeOK'
    OBVIOUS
  <1>1. ASSUME NEW m \in Message, NEW p \in Process, Arrive(m, p)
        PROVE  TypeOK'
    BY <1>1, NoteTypeOK DEF TypeOK, MessageTypeOK, MessageStep, Arrive, Stage
  <1>2. ASSUME NEW m \in Message, NEW p \in Process, ArriveTooLate(m, p) \/ ArriveMalformed(m, p)
        PROVE  TypeOK'
    BY <1>2, LoseTypeOK, NoteTypeOK DEF TypeOK, MessageStep, ArriveTooLate, ArriveMalformed
  <1>3. ASSUME NEW m \in Message, AgentRuns(m)
        PROVE  TypeOK'
    BY <1>3, NoteTypeOK DEF TypeOK, MessageTypeOK, MessageStep, AgentRuns, Stage
  <1>4. ASSUME NEW m \in Message, AgentFails(m)
        PROVE  TypeOK'
    <2>1. CASE Listening(owner[m]) /\ stage' = [stage EXCEPT ![m] = "waking"] /\ UNCHANGED main
      BY <1>4, <2>1, NoteTypeOK DEF TypeOK, MessageTypeOK, MessageStep, AgentFails, Stage
    <2>2. CASE Die(owner[m])
      <3>1. owner[m] \in Process
        BY DEF TypeOK, MessageTypeOK
      <3> QED
        BY <1>4, <2>2, <3>1, DieTypeOK, NoteTypeOK DEF TypeOK, MessageTypeOK, MessageStep, AgentFails
    <2> QED
      BY <1>4, <2>1, <2>2 DEF AgentFails
  <1>5. ASSUME NEW m \in Message, WakeEnds(m)
        PROVE  TypeOK'
    BY <1>5, NoteTypeOK DEF TypeOK, MessageTypeOK, MessageStep, WakeEnds, Stage
  <1> QED
    BY <1>1, <1>2, <1>3, <1>4, <1>5 DEF MessageStep, GatewayAnswers

LEMMA ProcessStepTypeOK ==
  ASSUME TypeOK, NEW p \in Process, ProcessStep(p), Note
  PROVE  TypeOK'
  <1>1. CASE Registered(p)
    BY <1>1, NoteTypeOK DEF TypeOK, MessageTypeOK, Registered, messageVars, Phase
  <1>2. CASE StartFails(p)
    BY <1>2, DieTypeOK, NoteTypeOK DEF TypeOK, MessageTypeOK, StartFails
  <1>3. CASE BecomeReady(p)
    <2>1. main' \in [Process -> Phase] /\ stage' \in [Message -> Stage]
      <3>1. CASE Die(p)
        BY <3>1, DieTypeOK
      <3>2. CASE main' = [main EXCEPT ![p] = "ready"] /\ UNCHANGED stage
        BY <3>2 DEF TypeOK, MessageTypeOK, Phase
      <3> QED
        BY <1>3, <3>1, <3>2 DEF BecomeReady
    <2> QED
      BY <1>3, <2>1, NoteTypeOK DEF TypeOK, MessageTypeOK, BecomeReady
  <1>4. CASE Shutdown(p)
    BY <1>4, NoteTypeOK DEF TypeOK, MessageTypeOK, Shutdown, messageVars
  <1>5. CASE Exit(p)
    BY <1>5, DieTypeOK, NoteTypeOK DEF TypeOK, MessageTypeOK, Exit
  <1> QED
    BY <1>1, <1>2, <1>3, <1>4, <1>5 DEF ProcessStep

LEMMA CliStepTypeOK ==
  ASSUME TypeOK, CliStart \/ CliSpawn \/ CliLook \/ CliStop, Note
  PROVE  TypeOK'
  <1>1. CASE CliStart
    BY <1>1, NoteTypeOK DEF TypeOK, MessageTypeOK, CliStart, Found, messageVars
  <1>2. CASE CliSpawn
    BY <1>2, NoteTypeOK DEF TypeOK, MessageTypeOK, CliSpawn, messageVars, Phase
  <1>3. CASE CliLook
    BY <1>3, NoteTypeOK DEF TypeOK, MessageTypeOK, CliLook, Found, messageVars
  <1>4. CASE CliStop
    <2>1. CASE DaemonRunning /\ Shutdown(pidFile)
      BY <2>1, NoteTypeOK DEF TypeOK, MessageTypeOK, Shutdown, messageVars
    <2>2. CASE ~DaemonRunning /\ Found /\ UNCHANGED <<main, stopping, messageVars, cli>>
      BY <2>2, NoteTypeOK DEF TypeOK, MessageTypeOK, Found, messageVars
    <2> QED
      BY <1>4, <2>1, <2>2 DEF CliStop
  <1> QED
    BY <1>1, <1>2, <1>3, <1>4

LEMMA NextTypeOK == TypeOK /\ [Next]_vars => TypeOK'
  <1>1. TypeOK /\ UNCHANGED vars => TypeOK'
    BY DEF TypeOK, MessageTypeOK, vars, messageVars
  <1> QED
    BY <1>1, MessageStepTypeOK, ProcessStepTypeOK, CliStepTypeOK DEF Next

(* The daemon's processes, its messages and the PID file keep their types, *)
(* for any processes and messages.                                         *)
THEOREM TypeCorrect == Spec => []TypeOK
  BY InitTypeOK, NextTypeOK, PTL DEF Spec

(***************************************************************************)
(* ServingIsKnown. As long as no daemon has been shutting down beside       *)
(* another living one, at most one process is past the listen port.         *)
(***************************************************************************)
OneListens ==
  \A p, q \in Process :
    main[p] \in {"waiting", "ready"} /\ main[q] \in {"waiting", "ready"} => p = q

ServingNamed == \A p \in Process : main[p] = "ready" => pidFile = p

Calm == ~Crossing /\ OneListens /\ ServingNamed

KnownInv == TypeOK /\ (~crossed => Calm)

LEMMA InitKnown == Init => KnownInv
  BY InitTypeOK DEF Init, KnownInv, Calm, Crossing, OneListens, ServingNamed, Alive

(* A step after which nobody is further than before, but one that may be    *)
(* dead, or the PID file is as it was.                                      *)
LEMMA DieCalm ==
  ASSUME TypeOK, Calm, NEW p \in Process, main' = [main EXCEPT ![p] = "dead"],
         pidFile' = pidFile
  PROVE  OneListens' /\ ServingNamed'
  <1>1. \A q \in Process : main'[q] = IF q = p THEN "dead" ELSE main[q]
    BY DEF TypeOK
  <1> QED
    BY <1>1 DEF Calm, OneListens, ServingNamed

LEMMA SameCalm ==
  ASSUME Calm, UNCHANGED <<main, pidFile>>
  PROVE  OneListens' /\ ServingNamed'
  BY DEF Calm, OneListens, ServingNamed

(* The CLI clears away only a PID file that names no living process.        *)
LEMMA FoundCalm ==
  ASSUME Calm, Found, UNCHANGED main
  PROVE  OneListens' /\ ServingNamed'
  BY DEF Calm, OneListens, ServingNamed, Found, DaemonRunning, Alive

LEMMA MessageStepCalm ==
  ASSUME TypeOK, Calm, MessageStep
  PROVE  OneListens' /\ ServingNamed'
  <1>0. UNCHANGED pidFile
    BY DEF MessageStep
  <1>1. ASSUME NEW m \in Message, NEW p \in Process, ArriveTooLate(m, p) \/ ArriveMalformed(m, p)
        PROVE  OneListens' /\ ServingNamed'
    BY <1>0, <1>1, DieCalm DEF ArriveTooLate, ArriveMalformed, Lose
  <1>2. ASSUME NEW m \in Message, AgentFails(m)
        PROVE  OneListens' /\ ServingNamed'
    <2>1. owner[m] \in Process
      BY DEF TypeOK, MessageTypeOK
    <2>2. UNCHANGED main \/ main' = [main EXCEPT ![owner[m]] = "dead"]
      BY <1>2 DEF AgentFails, Die
    <2> QED
      BY <1>0, <2>1, <2>2, SameCalm, DieCalm
  <1>3. ASSUME UNCHANGED main
        PROVE  OneListens' /\ ServingNamed'
    BY <1>0, <1>3, SameCalm
  <1> QED
    BY <1>1, <1>2, <1>3 DEF MessageStep, GatewayAnswers, Arrive, AgentRuns, WakeEnds

LEMMA ProcessStepCalm ==
  ASSUME TypeOK, Calm, NEW p \in Process, ProcessStep(p)
  PROVE  OneListens' /\ ServingNamed'
  <1>1. CASE Registered(p)
    <2>1. \A q \in Process : main'[q] = IF q = p THEN "waiting" ELSE main[q]
      BY <1>1 DEF Registered, TypeOK
    <2>2. \A q \in Process \ {p} : main[q] \notin {"waiting", "ready"}
      BY <1>1 DEF Registered, Calm, Crossing, Alive
    <2> QED
      BY <1>1, <2>1, <2>2 DEF Registered, Calm, OneListens, ServingNamed
  <1>2. CASE StartFails(p)
    BY <1>2, DieCalm DEF StartFails, Die
  <1>3. CASE BecomeReady(p)
    <2>1. \A q \in Process \ {p} : main[q] \notin {"waiting", "ready"}
      BY <1>3 DEF BecomeReady, Calm, OneListens
    <2>2. main' = [main EXCEPT ![p] = "ready"] \/ main' = [main EXCEPT ![p] = "dead"]
      BY <1>3 DEF BecomeReady, Die
    <2>3. \A q \in Process \ {p} : main'[q] = main[q]
      BY <2>2 DEF TypeOK
    <2> QED
      BY <1>3, <2>1, <2>3 DEF BecomeReady, OneListens, ServingNamed
  <1>4. CASE Shutdown(p)
    BY <1>4, SameCalm DEF Shutdown
  <1>5. CASE Exit(p)
    <2>1. \A q \in Process : main'[q] = IF q = p THEN "dead" ELSE main[q]
      BY <1>5 DEF Exit, Die, TypeOK
    <2>2. \A q \in Process \ {p} : ~Alive(q)
      BY <1>5 DEF Exit, Calm, Crossing
    <2> QED
      BY <2>1, <2>2 DEF OneListens, ServingNamed, Alive
  <1> QED
    BY <1>1, <1>2, <1>3, <1>4, <1>5 DEF ProcessStep

LEMMA CliStepCalm ==
  ASSUME TypeOK, Calm, CliStart \/ CliSpawn \/ CliLook \/ CliStop
  PROVE  OneListens' /\ ServingNamed'
  <1>1. CASE CliStart
    BY <1>1, FoundCalm DEF CliStart
  <1>2. CASE CliSpawn
    <2>1. PICK p \in Process : main[p] = "none" /\ main' = [main EXCEPT ![p] = "starting"]
      BY <1>2 DEF CliSpawn
    <2>2. \A q \in Process : main'[q] = IF q = p THEN "starting" ELSE main[q]
      BY <2>1 DEF TypeOK
    <2> QED
      BY <1>2, <2>2 DEF CliSpawn, Calm, OneListens, ServingNamed
  <1>3. CASE CliLook
    BY <1>3, FoundCalm DEF CliLook
  <1>4. CASE CliStop
    BY <1>4, FoundCalm, SameCalm DEF CliStop, Shutdown
  <1> QED
    BY <1>1, <1>2, <1>3, <1>4

LEMMA NextKnown == KnownInv /\ [Next]_vars => KnownInv'
  <1> SUFFICES ASSUME KnownInv, [Next]_vars PROVE KnownInv'
    OBVIOUS
  <1>1. TypeOK /\ TypeOK'
    BY NextTypeOK DEF KnownInv
  <1>2. CASE UNCHANGED vars
    BY <1>1, <1>2 DEF vars, KnownInv, Calm, Crossing, OneListens, ServingNamed, Alive
  <1>3. CASE Next
    <2> SUFFICES ASSUME ~crossed' PROVE Calm'
      BY <1>1 DEF KnownInv
    <2>1. ~crossed /\ ~Crossing'
      BY <1>3 DEF Next, Note
    <2>2. Calm
      BY <2>1 DEF KnownInv
    <2>3. OneListens' /\ ServingNamed'
      BY <1>1, <1>3, <2>2, MessageStepCalm, ProcessStepCalm, CliStepCalm DEF Next
    <2> QED
      BY <2>1, <2>3 DEF Calm
  <1> QED
    BY <1>2, <1>3

(* For any processes: unless a daemon has been shutting down beside another *)
(* one, the PID file names the daemon that serves, also while further       *)
(* starts come and go (daemon/index.ts:483, 532; daemon/node.ts:359-362).   *)
THEOREM ServingKnown == Spec => []ServingIsKnown
  <1>1. KnownInv => ServingIsKnown
    BY DEF KnownInv, Calm, ServingNamed, ServingIsKnown
  <1> QED
    BY <1>1, InitKnown, NextKnown, PTL DEF Spec

(***************************************************************************)
(* OnlyMalformedKills.                                                      *)
(***************************************************************************)
Killed(p) ==
  \E m \in Malformed : stage[m] = "none" /\ stage'[m] = "lost" /\ owner'[m] = p

LEMMA StepKills ==
  ASSUME TypeOK, [Next]_vars, NEW p \in Process,
         main[p] = "ready", main'[p] = "dead", ~stopping[p]
  PROVE  Killed(p)
  <1>1. main' # main
    OBVIOUS
  <1>2. ASSUME NEW q \in Process, main' = [main EXCEPT ![q] = "dead"]
        PROVE  q = p
    BY <1>2 DEF TypeOK
  <1>3. CASE MessageStep
    <2>1. PICK m \in Message :
            \/ \E q \in Process : ArriveTooLate(m, q) \/ ArriveMalformed(m, q)
            \/ ~Listening(owner[m]) /\ Die(owner[m])
      BY <1>1, <1>3 DEF MessageStep, GatewayAnswers, Arrive, AgentRuns, AgentFails, WakeEnds
    <2>2. ASSUME NEW q \in Process, ArriveTooLate(m, q)
          PROVE  FALSE
      BY <1>2, <2>2 DEF ArriveTooLate, Lose
    <2>3. ASSUME NEW q \in Process, ArriveMalformed(m, q)
          PROVE  Killed(p)
      <3>1. q = p
        BY <1>2, <2>3 DEF ArriveMalformed, Lose
      <3>2. stage'[m] = "lost"
        BY <2>3 DEF ArriveMalformed, Lose
      <3>3. owner'[m] = p
        BY <2>3, <3>1 DEF ArriveMalformed, Lose, TypeOK, MessageTypeOK
      <3> QED
        BY <2>3, <3>2, <3>3 DEF ArriveMalformed, Killed
    <2>4. CASE ~Listening(owner[m]) /\ Die(owner[m])
      <3>1. owner[m] \in Process
        BY DEF TypeOK, MessageTypeOK
      <3> QED
        BY <1>2, <2>4, <3>1 DEF Listening, Die
    <2> QED
      BY <2>1, <2>2, <2>3, <2>4
  <1>4. ASSUME NEW q \in Process, ProcessStep(q)
        PROVE  FALSE
    <2>2. CASE Registered(q)
      BY <2>2 DEF Registered, TypeOK
    <2>3. CASE StartFails(q)
      BY <1>2, <2>3 DEF StartFails, Die
    <2>4. CASE BecomeReady(q)
      <3>1. CASE Die(q)
        BY <1>2, <2>4, <3>1 DEF BecomeReady, Die
      <3>2. CASE main' = [main EXCEPT ![q] = "ready"]
        BY <3>2 DEF TypeOK
      <3> QED
        BY <2>4, <3>1, <3>2 DEF BecomeReady
    <2>5. CASE Exit(q)
      BY <1>2, <2>5 DEF Exit, Die
    <2> QED
      BY <1>1, <1>4, <2>2, <2>3, <2>4, <2>5 DEF ProcessStep, Shutdown
  <1>5. CASE CliSpawn
    BY <1>5 DEF CliSpawn, TypeOK
  <1> QED
    BY <1>1, <1>3, <1>4, <1>5 DEF Next, CliStart, CliLook, CliStop, Shutdown, vars

(* For any processes and messages: neither a failure of the gateway nor a   *)
(* message that is well formed ends a daemon that serves and is not being   *)
(* stopped (daemon/node.ts:754-807, daemon/index.ts:565-577, 662-664).      *)
THEOREM OnlyTheMalformedKill == Spec => OnlyMalformedKills
  <1>1. TypeOK /\ [Next]_vars =>
          [\A p \in Process : main[p] = "ready" /\ main'[p] = "dead" /\ ~stopping[p] =>
             \E m \in Malformed :
               stage[m] = "none" /\ stage'[m] = "lost" /\ owner'[m] = p]_vars
    BY StepKills DEF Killed
  <1> QED
    BY <1>1, TypeCorrect, PTL DEF Spec, OnlyMalformedKills

----------------------------------------------------------------------------
(***************************************************************************)
(* PluginService.                                                          *)
(***************************************************************************)

(* What the fields of an object say of what it has running: a service that  *)
(* has started has a field, its timer runs only if it has started, and      *)
(* libp2p runs as long as the node field is there.                          *)
Matched(o) ==
  /\ started[o] \subseteq fields[o]
  /\ running[o] \intersect {"discovery", "status"} \subseteq started[o]
  /\ "libp2p" \in running[o] <=> "node" \in fields[o]
  /\ started[o] # {} => "node" \in fields[o]

(* What start() has set up when it waits.                                   *)
SetUp(o) ==
  /\ startAt[o] \in {"new", "key", "libp2p"} => fields[o] = {} /\ running[o] = {}
  /\ startAt[o] \in {"node", "discovery", "status"} => "node" \in fields[o]
  /\ startAt[o] \in {"discovery", "status"} => "discovery" \in started[o]
  /\ startAt[o] = "status" => "status" \in started[o]

(* What stop() has taken down when it waits.                                *)
TakenDown(at, o) ==
  /\ startAt[o] \in {"done", "failed"}
  /\ "listeners" \notin running[o]
  /\ at = "discovery" => "discovery" \notin started[o]
  /\ at = "status" => "discovery" \notin fields[o] /\ started[o] = {}
  /\ at = "node" => fields[o] = {"node"}
  /\ at = "done" => fields[o] = {}

Objects ==
  \A o \in Object :
    /\ Matched(o) /\ SetUp(o)
    /\ o # p2pNode => running[o] \subseteq {"limiter"}
    /\ startAt[o] \in Await => \E c \in Chain : chain[c] = "starting" /\ awaited[c] = o

(* One at a time: at most one chain is busy, and only while the service is  *)
(* wanted; a stop() belongs to that chain or to the gateway.                *)
Turns ==
  /\ \A c \in Chain : Busy(c) => wanted
  /\ \A c, d \in Chain : Busy(c) /\ Busy(d) => c = d
  /\ \A c \in Chain : ~NotStopping(c) => chain[c] = "stopping"
  /\ ~NotStopping(Gateway) => ~wanted

Stops ==
  \A x \in Caller : ~NotStopping(x) =>
    /\ stops[x].at # "threw" /\ stops[x].of = p2pNode
    /\ TakenDown(stops[x].at, p2pNode)

(* Which node the plugin has, and when it has none.                         *)
TheNode ==
  /\ p2pNode # Nobody => startAt[p2pNode] # "new"
  /\ \A c \in Chain : /\ chain[c] = "starting" => p2pNode = awaited[c]
                      /\ chain[c] = "backoff" => p2pNode = Nobody
  /\ ~wanted /\ NotStopping(Gateway) => p2pNode = Nobody

PluginInv ==
  PluginTypeOK /\ (~raced => Turns /\ TheNode /\ Stops /\ Objects)

(* A stop() that runs to its next await keeps the types.                    *)
LEMMA RunStopTypes ==
  ASSUME NodeTypeOK, NEW c \in Caller, NEW o \in Object, NEW ahead, NEW lost,
         NEW left \in SUBSET {"node", "handler", "discovery", "status"},
         RunStop(c, o, ahead, left, lost), UNCHANGED startAt
  PROVE  NodeTypeOK'
BY DEF RunStop, NodeTypeOK

LEMMA BeginStopTypes ==
  ASSUME PluginTypeOK, NEW c \in Caller, BeginStop(c)
  PROVE  NodeTypeOK' /\ isShuttingDown' \in BOOLEAN
<1>1. CASE p2pNode # Nobody /\ StopNode(c, p2pNode) /\ UNCHANGED startAt
  <2>1. p2pNode \in Object
    BY <1>1 DEF PluginTypeOK
  <2>2. fields[p2pNode] \in SUBSET {"node", "handler", "discovery", "status"}
    BY <2>1 DEF PluginTypeOK, NodeTypeOK
  <2>3. NodeTypeOK'
    BY <1>1, <2>1, <2>2, RunStopTypes DEF StopNode, PluginTypeOK
  <2>4. QED
    BY <1>1, <2>3 DEF BeginStop
<1>2. CASE UNCHANGED nodeVars
  BY <1>2 DEF BeginStop, PluginTypeOK, NodeTypeOK, nodeVars
<1>3. QED
  BY <1>1, <1>2 DEF BeginStop

LEMMA EndStopTypes ==
  ASSUME PluginTypeOK, NEW c \in Caller, EndStop(c)
  PROVE  /\ NodeTypeOK' /\ isShuttingDown' \in BOOLEAN
         /\ p2pNode' \in Object \union {Nobody}
BY DEF EndStop, StopReturns, PluginTypeOK, NodeTypeOK

LEMMA StartServiceTypes ==
  ASSUME PluginTypeOK, NEW c \in Chain, StartService(c)
  PROVE  /\ NodeTypeOK' /\ p2pNode' \in Object
         /\ chain' = [chain EXCEPT ![c] = "starting"]
         /\ awaited' \in [Chain -> Object]
BY DEF StartService, StartNode, Made, PluginTypeOK, NodeTypeOK, Await

LEMMA NodeStepTypes ==
  ASSUME PluginTypeOK, NodeStep
  PROVE  PluginTypeOK'
<1> USE DEF PluginTypeOK, NodeTypeOK, Await
<1>1. UNCHANGED ownVars
  BY DEF NodeStep
<1>2. ASSUME NEW o \in Object, StartSteps(o) PROVE NodeTypeOK'
  <2>1. CASE KeyLoaded(o) \/ KeyOrLibp2pFails(o) \/ Created(o)
    BY <2>1 DEF KeyLoaded, KeyOrLibp2pFails, Created
  <2>2. CASE StartDiscovery(o)
    BY <2>2 DEF StartDiscovery, Launch
  <2>3. CASE StartStatus(o)
    BY <2>3 DEF StartStatus, Launch
  <2>4. CASE StartDone(o) \/ PublishFails(o)
    BY <2>4 DEF StartDone, PublishFails
  <2>5. QED
    BY <1>2, <2>1, <2>2, <2>3, <2>4 DEF StartSteps
<1>3. ASSUME NEW c \in Caller, StopSteps(c) PROVE NodeTypeOK'
  <2>1. CASE ServiceStopped(c)
    <3> DEFINE at == stops[c].at
               o == stops[c].of
    <3>1. /\ o \in Object /\ UNCHANGED startAt
          /\ fields[o] \ {at} \in SUBSET {"node", "handler", "discovery", "status"}
          /\ RunStop(c, o, IF at = "discovery" THEN {"status", "node"} ELSE {"node"},
                     fields[o] \ {at}, {})
      BY <2>1 DEF ServiceStopped
    <3> HIDE DEF at, o, PluginTypeOK, NodeTypeOK
    <3>2. NodeTypeOK
      BY DEF PluginTypeOK
    <3>3. QED
      BY <3>1, <3>2, RunStopTypes
  <2>2. CASE Libp2pStopped(c)
    <3>1. stops[c].of \in Object /\ UNCHANGED <<startAt, started>>
      BY <2>2 DEF Libp2pStopped
    <3>2. fields' \in [Object -> SUBSET {"node", "handler", "discovery", "status"}]
      BY <2>2, <3>1 DEF Libp2pStopped
    <3>3. running' \in [Object -> SUBSET
            {"libp2p", "limiter", "listeners", "discovery", "status"}]
      BY <2>2, <3>1 DEF Libp2pStopped
    <3>4. stops' \in [Caller ->
            [at : {"idle", "discovery", "status", "node", "done", "threw"}, of : Object]]
      BY <2>2 DEF Libp2pStopped
    <3>5. QED
      BY <3>1, <3>2, <3>3, <3>4
  <2>3. QED
    BY <1>3, <2>1, <2>2 DEF StopSteps
<1>4. NodeTypeOK'
  BY <1>2, <1>3 DEF NodeStep
<1>5. QED
  BY <1>1, <1>4 DEF ownVars

LEMMA PluginTypeInit == PluginInit => PluginTypeOK
<1> SUFFICES ASSUME PluginInit PROVE PluginTypeOK
  OBVIOUS
<1>1. 1 \in Object
  BY PluginAssumption
<1>2. (CHOOSE o \in Object : TRUE) \in Object
  BY <1>1
<1>3. NodeTypeOK
  BY <1>2 DEF PluginInit, NodeInit, NodeTypeOK
<1>4. restartCount \in 0 .. MaxRestartAttempts
  BY PluginAssumption DEF PluginInit
<1>5. chain \in [Chain -> {"none", "starting", "stopping", "backoff", "over", "disabled"}]
      /\ awaited \in [Chain -> Object]
  BY <1>1 DEF PluginInit
<1>6. QED
  BY <1>3, <1>4, <1>5 DEF PluginInit, PluginTypeOK

LEMMA PluginTypeStep == PluginTypeOK /\ [PluginNext]_pluginVars => PluginTypeOK'
<1> SUFFICES ASSUME PluginTypeOK, [PluginNext]_pluginVars PROVE PluginTypeOK'
  OBVIOUS
<1>1. Gateway \in Caller /\ Chain \subseteq Caller
  BY PluginAssumption
<1>2. CASE GatewayStarts
  <2>1. PICK c \in Chain : StartService(c)
    BY <1>2 DEF GatewayStarts
  <2>2. QED
    BY <1>2, <2>1, StartServiceTypes DEF GatewayStarts, PluginTypeOK
<1>3. CASE GatewayStops
  <2>1. NodeTypeOK' /\ isShuttingDown' \in BOOLEAN
    BY <1>1, <1>3, BeginStopTypes DEF GatewayStops
  <2>2. QED
    BY <1>3, <2>1 DEF GatewayStops, PluginTypeOK
<1>4. CASE GatewayStopped
  BY <1>1, <1>4, EndStopTypes DEF GatewayStopped, PluginTypeOK
<1>5. CASE NodeStep
  BY <1>5, NodeStepTypes
<1>6. ASSUME NEW c \in Chain, Retry(c) PROVE PluginTypeOK'
  <2>1. NodeTypeOK' /\ isShuttingDown' \in BOOLEAN
    BY <1>1, <1>6, BeginStopTypes DEF Retry
  <2>2. restartCount' \in 0 .. MaxRestartAttempts
    BY <1>6, PluginAssumption DEF Retry, PluginTypeOK
  <2>3. QED
    BY <1>6, <2>1, <2>2 DEF Retry, PluginTypeOK
<1>7. ASSUME NEW c \in Chain, GiveUp(c) PROVE PluginTypeOK'
  BY <1>7 DEF GiveUp, PluginTypeOK, NodeTypeOK, nodeVars
<1>8. ASSUME NEW c \in Chain, RetryStopped(c) PROVE PluginTypeOK'
  BY <1>1, <1>8, EndStopTypes DEF RetryStopped, PluginTypeOK
<1>9. ASSUME NEW c \in Chain, BackoffOver(c) PROVE PluginTypeOK'
  <2>1. CASE StartService(c)
    BY <1>9, <2>1, StartServiceTypes DEF BackoffOver, PluginTypeOK
  <2>2. CASE chain' = [chain EXCEPT ![c] = "over"] /\ UNCHANGED <<nodeVars, p2pNode, awaited>>
    BY <1>9, <2>2 DEF BackoffOver, PluginTypeOK, NodeTypeOK, nodeVars
  <2>3. QED
    BY <1>9, <2>1, <2>2 DEF BackoffOver
<1>10. CASE UNCHANGED pluginVars
  BY <1>10 DEF pluginVars, ownVars, nodeVars, PluginTypeOK, NodeTypeOK
<1>11. QED
  BY <1>2, <1>3, <1>4, <1>5, <1>6, <1>7, <1>8, <1>9, <1>10 DEF PluginNext, ChainStep

(* The plugin never counts more restarts than it may, and every field is    *)
(* what the code can put there (extensions/bsv-p2p/index.ts:24-34).         *)
THEOREM PluginTypes == PluginSpec => []PluginTypeOK
BY PluginTypeInit, PluginTypeStep, PTL DEF PluginSpec

----------------------------------------------------------------------------
(* While no stop() has met a start() in progress.                           *)

(* What a stop() that goes on from `ahead`, with the fields `left`, finds:  *)
(* an object whose start() has ended, whose fields tell what has started,   *)
(* and that nobody else is stopping.                                        *)
Orderly(o, ahead, left, lost) ==
  /\ ahead \subseteq {"discovery", "status", "node"}
  /\ left \subseteq fields[o] /\ left \subseteq ahead \union {"handler"}
  /\ "node" \in fields[o] => "node" \in left
  /\ started[o] \subseteq left /\ started[o] \subseteq ahead
  /\ lost \subseteq {"listeners"} /\ "listeners" \notin running[o] \ lost
  /\ startAt[o] \in {"done", "failed"}
  /\ Matched(o) /\ ~Ending(o)

(* The state in which it comes to wait: only o has changed.                 *)
Waits(c, o) ==
  /\ \E next \in {"discovery", "status", "node", "done"} :
       /\ stops' = [stops EXCEPT ![c] = [at |-> next, of |-> o]]
       /\ TakenDown(next, o)'
  /\ Matched(o)' /\ SetUp(o)'
  /\ \A other \in Object \ {o} :
       /\ fields'[other] = fields[other] /\ started'[other] = started[other]
       /\ running'[other] = running[other]

(* Then nothing throws, and what the stop() has passed is taken down.       *)
LEMMA RunStopQuiet ==
  ASSUME NodeTypeOK, NEW c \in Caller, NEW o \in Object,
         NEW ahead, NEW left, NEW lost,
         RunStop(c, o, ahead, left, lost), UNCHANGED startAt,
         Orderly(o, ahead, left, lost)
  PROVE  Waits(c, o)
<1> USE DEF Orderly
<1> DEFINE next == IF "discovery" \in ahead \cap left THEN "discovery"
                   ELSE IF "status" \in ahead \cap left THEN "status"
                   ELSE IF "node" \in ahead \cap left THEN "node" ELSE "done"
<1>1. /\ fields' = [fields EXCEPT ![o] =
           IF next \in {"node", "done"} THEN left \ {"handler"} ELSE left]
      /\ running' = [running EXCEPT ![o] =
           running[o] \ (lost \union ({next} \cap started[o]))]
      /\ \/ /\ next \in started[o] => PubSubMayWork(o)
            /\ started' = [started EXCEPT ![o] = started[o] \ {next}]
            /\ stops' = [stops EXCEPT ![c] = [at |-> next, of |-> o]]
         \/ next \in started[o] /\ PubSubMayFail(o)
  BY DEF RunStop, NodeTypeOK
<1>2. /\ next \in {"discovery", "status", "node", "done"}
      /\ next = "discovery" => "discovery" \in left
      /\ next = "status" => "discovery" \notin left /\ "status" \in left
      /\ next = "node" => left \ {"handler"} = {"node"}
      /\ next = "done" => left \ {"handler"} = {}
  OBVIOUS
<1> HIDE DEF next
<1>3. started[o] # {} => "libp2p" \in running[o]
  BY DEF Matched
<1>4. /\ started' = [started EXCEPT ![o] = started[o] \ {next}]
      /\ stops' = [stops EXCEPT ![c] = [at |-> next, of |-> o]]
  BY <1>1, <1>3 DEF PubSubMayFail
<1>5. /\ fields'[o] = IF next \in {"node", "done"} THEN left \ {"handler"} ELSE left
      /\ running'[o] = running[o] \ (lost \union ({next} \cap started[o]))
      /\ started'[o] = started[o] \ {next}
      /\ started[o] \in SUBSET {"discovery", "status"}
  BY <1>1, <1>4 DEF NodeTypeOK
<1>6. next \in {"node", "done"} => started[o] = {}
  <2>1. started[o] \subseteq left \ {"handler"}
    BY <1>5
  <2>2. QED
    BY <1>2, <1>5, <2>1
<1>7. started'[o] \subseteq fields'[o]
  BY <1>2, <1>5, <1>6
<1>8. running'[o] \intersect {"discovery", "status"} \subseteq started'[o]
  BY <1>5 DEF Matched
<1>9. "libp2p" \in running'[o] <=> "node" \in fields'[o]
  BY <1>2, <1>5 DEF Matched
<1>10. started'[o] # {} => "node" \in fields'[o]
  BY <1>5, <1>6 DEF Matched
<1>11. Matched(o)'
  BY <1>7, <1>8, <1>9, <1>10 DEF Matched
<1>12. TakenDown(next, o)'
  <2>1. startAt'[o] \in {"done", "failed"} /\ "listeners" \notin running'[o]
    BY <1>5
  <2>2. next = "discovery" => "discovery" \notin started'[o]
    BY <1>5
  <2>3. next = "status" => "discovery" \notin fields'[o] /\ started'[o] = {}
    BY <1>2, <1>5
  <2>4. /\ next = "node" => fields'[o] = {"node"}
        /\ next = "done" => fields'[o] = {}
    BY <1>2, <1>5
  <2>5. QED
    BY <2>1, <2>2, <2>3, <2>4 DEF TakenDown
<1>13. QED
  BY <1>1, <1>2, <1>4, <1>11, <1>12 DEF Waits, SetUp, NodeTypeOK

(* When a stop() is done with an object, only its limiter still runs.       *)
LEMMA OnlyLimiterLeft ==
  ASSUME NodeTypeOK, NEW o \in Object, Matched(o), TakenDown("done", o)
  PROVE  running[o] \subseteq {"limiter"}
<1>1. /\ running[o] \subseteq {"libp2p", "limiter", "listeners", "discovery", "status"}
      /\ fields[o] = {} /\ "listeners" \notin running[o]
  BY DEF NodeTypeOK, TakenDown
<1>2. "libp2p" \notin running[o] /\ started[o] = {}
  BY <1>1 DEF Matched
<1>3. QED
  BY <1>1, <1>2 DEF Matched

(* start() up to its next await, on a libp2p that nobody is stopping.       *)
LEMMA StartStepObject ==
  ASSUME NodeTypeOK, NEW o \in Object, Matched(o), SetUp(o), ~Ending(o), StartSteps(o)
  PROVE  /\ startAt[o] \in Await /\ startAt'[o] # "new"
         /\ Matched(o)' /\ SetUp(o)'
         /\ UNCHANGED stops
         /\ \A other \in Object \ {o} :
              /\ startAt'[other] = startAt[other]
              /\ fields'[other] = fields[other] /\ started'[other] = started[other]
              /\ running'[other] = running[other]
<1> USE DEF NodeTypeOK, Await, Matched, SetUp
<1>1. CASE KeyLoaded(o)
  BY <1>1 DEF KeyLoaded
<1>2. CASE KeyOrLibp2pFails(o)
  BY <1>2 DEF KeyOrLibp2pFails
<1>3. CASE Created(o)
  <2>1. fields[o] = {} /\ started[o] = {} /\ running[o] = {}
    BY <1>3 DEF Created
  <2>2. /\ startAt'[o] = "node" /\ fields'[o] = {"node"} /\ started'[o] = {}
        /\ running'[o] = {"libp2p", "listeners"}
    BY <1>3, <2>1 DEF Created
  <2>3. QED
    BY <1>3, <2>2 DEF Created
<1>4. CASE StartDiscovery(o)
  <2>1. "node" \in fields[o] /\ ~PubSubMayFail(o)
    BY <1>4 DEF StartDiscovery, PubSubMayFail
  <2>2. /\ startAt'[o] = "discovery" /\ started'[o] = started[o] \union {"discovery"}
        /\ fields'[o] = fields[o] \union {"handler", "discovery"}
        /\ running'[o] = running[o] \union {"limiter", "listeners"}
    BY <1>4, <2>1 DEF StartDiscovery, Launch
  <2>3. Matched(o)' /\ SetUp(o)'
    BY <2>1, <2>2
  <2>4. QED
    BY <1>4, <2>1, <2>2, <2>3 DEF StartDiscovery, Launch
<1>5. CASE StartStatus(o)
  <2>1. "node" \in fields[o] /\ ~PubSubMayFail(o) /\ "discovery" \in started[o]
    BY <1>5 DEF StartStatus, PubSubMayFail
  <2>2. /\ startAt'[o] = "status" /\ started'[o] = started[o] \union {"status"}
        /\ fields'[o] = fields[o] \union {"status"}
        /\ running'[o] = running[o] \union {"discovery", "listeners"}
    BY <1>5, <2>1 DEF StartStatus, Launch
  <2>3. Matched(o)' /\ SetUp(o)'
    BY <2>1, <2>2
  <2>4. QED
    BY <1>5, <2>1, <2>2, <2>3 DEF StartStatus, Launch
<1>6. CASE StartDone(o)
  BY <1>6 DEF StartDone
<1>7. CASE PublishFails(o)
  BY <1>7 DEF PublishFails
<1>8. QED
  BY <1>1, <1>2, <1>3, <1>4, <1>5, <1>6, <1>7 DEF StartSteps

(* Two stop() are never in progress at once, nor a stop() and a start().    *)
LEMMA OneAtATime ==
  ASSUME PluginInv, ~raced
  PROVE  /\ \A x, y \in Caller : NotStopping(x) \/ NotStopping(y) \/ x = y
         /\ \A c \in Chain : chain[c] \in {"starting", "backoff"} =>
              \A x \in Caller : NotStopping(x)
         /\ (\A c \in Chain : ~Busy(c)) => \A c \in Chain : NotStopping(c)
         /\ (\A c \in Chain : chain[c] # "starting") =>
              \A o \in Object : startAt[o] \notin Await
<1>1. Caller = {Gateway} \union Chain
  BY PluginAssumption
<1>2. Turns /\ Objects
  BY DEF PluginInv
<1>3. QED
  BY <1>1, <1>2 DEF Turns, Objects, Busy

LEMMA QuietStart ==
  ASSUME PluginInv, ~raced, NEW o \in Object, StartSteps(o), UNCHANGED ownVars
  PROVE  Turns' /\ TheNode' /\ Stops' /\ Objects'
<1>1. PluginTypeOK /\ NodeTypeOK /\ Turns /\ TheNode /\ Stops /\ Objects
  BY DEF PluginInv, PluginTypeOK
<1>2. startAt[o] \in Await
  BY DEF StartSteps, KeyLoaded, KeyOrLibp2pFails, Created, StartDiscovery, StartStatus,
         StartDone, PublishFails, Await
<1>3. PICK c \in Chain : chain[c] = "starting" /\ awaited[c] = o
  BY <1>1, <1>2 DEF Objects
<1>4. \A x \in Caller : NotStopping(x)
  BY <1>3, OneAtATime
<1>5. ~Ending(o)
  BY <1>4 DEF Ending, NotStopping
<1>6. /\ startAt'[o] # "new" /\ Matched(o)' /\ SetUp(o)' /\ UNCHANGED stops
      /\ \A other \in Object \ {o} :
           /\ startAt'[other] = startAt[other]
           /\ fields'[other] = fields[other] /\ started'[other] = started[other]
           /\ running'[other] = running[other]
  BY <1>1, <1>5, StartStepObject DEF Objects
<1>7. /\ p2pNode = o /\ UNCHANGED <<p2pNode, chain, awaited, wanted>>
  BY <1>1, <1>3 DEF TheNode, ownVars
<1>8. Turns'
  BY <1>1, <1>6, <1>7 DEF Turns, Busy, NotStopping
<1>9. TheNode'
  BY <1>1, <1>6, <1>7 DEF TheNode, NotStopping
<1>10. Stops'
  BY <1>4, <1>6 DEF Stops, NotStopping
<1>11. Objects'
  BY <1>1, <1>3, <1>6, <1>7 DEF Objects, Matched, SetUp
<1>12. QED
  BY <1>8, <1>9, <1>10, <1>11

(* A stop() goes on.                                                        *)
LEMMA QuietStop ==
  ASSUME PluginInv, ~raced, NEW x \in Caller, StopSteps(x), UNCHANGED ownVars
  PROVE  Turns' /\ TheNode' /\ Stops' /\ Objects'
<1>1. PluginTypeOK /\ NodeTypeOK /\ Turns /\ TheNode /\ Stops /\ Objects
  BY DEF PluginInv, PluginTypeOK
<1>2. ~NotStopping(x) /\ UNCHANGED startAt
  BY DEF StopSteps, ServiceStopped, Libp2pStopped, NotStopping
<1>3. \A y \in Caller \ {x} : NotStopping(y)
  BY <1>2, OneAtATime
<1>4. PICK o \in Object :
        stops[x].of = o /\ o = p2pNode /\ TakenDown(stops[x].at, o)
  BY <1>1, <1>2 DEF Stops, NodeTypeOK
<1>5. Matched(o) /\ SetUp(o)
  BY <1>1, <1>4 DEF Objects
<1>6. Waits(x, o)
  <2>1. CASE ServiceStopped(x)
    <3>1. CASE stops[x].at = "discovery"
      <4>1. RunStop(x, o, {"status", "node"}, fields[o] \ {"discovery"}, {})
        BY <1>4, <2>1, <3>1 DEF ServiceStopped
      <4>2. ~Ending(o)
        BY <1>3, <3>1 DEF Ending, NotStopping
      <4>3. /\ "discovery" \notin started[o] /\ startAt[o] \in {"done", "failed"}
            /\ "listeners" \notin running[o]
        BY <1>4, <3>1 DEF TakenDown
      <4>4. Orderly(o, {"status", "node"}, fields[o] \ {"discovery"}, {})
        BY <1>1, <1>5, <4>2, <4>3 DEF Orderly, Matched, NodeTypeOK
      <4>5. QED
        BY <1>1, <1>2, <4>1, <4>4, RunStopQuiet
    <3>2. CASE stops[x].at = "status"
      <4>1. RunStop(x, o, {"node"}, fields[o] \ {"status"}, {})
        BY <1>4, <2>1, <3>2 DEF ServiceStopped
      <4>2. ~Ending(o)
        BY <1>3, <3>2 DEF Ending, NotStopping
      <4>3. /\ "discovery" \notin fields[o] /\ started[o] = {}
            /\ startAt[o] \in {"done", "failed"} /\ "listeners" \notin running[o]
        BY <1>4, <3>2 DEF TakenDown
      <4>4. Orderly(o, {"node"}, fields[o] \ {"status"}, {})
        BY <1>1, <1>5, <4>2, <4>3 DEF Orderly, NodeTypeOK
      <4>5. QED
        BY <1>1, <1>2, <4>1, <4>4, RunStopQuiet
    <3>3. QED
      BY <2>1, <3>1, <3>2 DEF ServiceStopped
  <2>2. CASE Libp2pStopped(x)
    <3>1. stops[x].at = "node" /\ fields[o] = {"node"} /\ UNCHANGED started
          /\ fields' = [fields EXCEPT ![o] = fields[o] \ {"node"}]
          /\ stops' = [stops EXCEPT ![x].at = "done"]
      BY <1>4, <2>2 DEF Libp2pStopped, TakenDown
    <3>2. running' = [running EXCEPT ![o] = running[o] \ {"libp2p"}]
      <4>1. ASSUME NEW other \in Caller \ {x} PROVE stops[other] # stops[x]
        BY <1>3, <3>1 DEF NotStopping
      <4>2. QED
        BY <1>4, <2>2, <4>1 DEF Libp2pStopped
    <3>3. stops' = [stops EXCEPT ![x] = [at |-> "done", of |-> o]]
      <4>1. stops[x] = [at |-> "node", of |-> o]
        BY <1>1, <1>4, <3>1 DEF NodeTypeOK
      <4>2. [stops[x] EXCEPT !.at = "done"] = [at |-> "done", of |-> o]
        BY <4>1
      <4>3. stops' = [stops EXCEPT ![x] = [stops[x] EXCEPT !.at = "done"]]
        BY <3>1
      <4>4. QED
        BY <4>2, <4>3
    <3>4. /\ fields'[o] = {} /\ running'[o] = running[o] \ {"libp2p"}
          /\ started[o] = {} /\ started'[o] = {} /\ startAt'[o] = startAt[o]
      BY <1>1, <1>2, <1>4, <1>5, <3>1, <3>2 DEF NodeTypeOK, Matched
    <3>5. TakenDown("done", o)'
      BY <1>4, <3>4 DEF TakenDown
    <3>6. Matched(o)' /\ SetUp(o)'
      BY <1>4, <1>5, <3>4 DEF Matched, SetUp, TakenDown
    <3>7. \A other \in Object \ {o} :
            /\ fields'[other] = fields[other] /\ started'[other] = started[other]
            /\ running'[other] = running[other]
      BY <1>1, <3>1, <3>2 DEF NodeTypeOK
    <3>8. QED
      BY <3>3, <3>5, <3>6, <3>7 DEF Waits
  <2>3. QED
    BY <2>1, <2>2 DEF StopSteps
<1>7. /\ UNCHANGED <<p2pNode, chain, awaited, wanted>>
      /\ \A y \in Caller : NotStopping(y)' <=> NotStopping(y)
  BY <1>1, <1>2, <1>6 DEF Waits, ownVars, NotStopping, NodeTypeOK
<1>8. Turns'
  BY <1>1, <1>7, PluginAssumption DEF Turns, Busy
<1>9. TheNode'
  BY <1>1, <1>2, <1>7, PluginAssumption DEF TheNode
<1>10. Stops'
  BY <1>1, <1>3, <1>4, <1>6, <1>7 DEF Waits, Stops, NodeTypeOK
<1>11. Objects'
  BY <1>1, <1>2, <1>4, <1>6, <1>7 DEF Waits, Objects, Matched, SetUp
<1>12. QED
  BY <1>8, <1>9, <1>10, <1>11

(* stopService() begins, with nothing else in progress: the node, if there  *)
(* is one, comes to wait, and the others are left alone.                    *)
LEMMA QuietBeginStop ==
  ASSUME PluginInv, ~raced, NEW x \in Caller, BeginStop(x), UNCHANGED p2pNode,
         \A y \in Caller : NotStopping(y),
         p2pNode # Nobody => startAt[p2pNode] \in {"done", "failed"}
  PROVE  /\ \A y \in Caller \ {x} : stops'[y] = stops[y]
         /\ p2pNode # Nobody => ~NotStopping(x)'
         /\ UNCHANGED startAt
         /\ Stops'
         /\ \A o \in Object : /\ Matched(o)' /\ SetUp(o)'
                              /\ o # p2pNode => running'[o] \subseteq {"limiter"}
<1>1. PluginTypeOK /\ NodeTypeOK /\ Objects
  BY DEF PluginInv, PluginTypeOK
<1>2. CASE p2pNode = Nobody /\ UNCHANGED nodeVars
  <2>1. Stops'
    BY <1>2 DEF Stops, NotStopping, nodeVars
  <2>2. QED
    BY <1>1, <1>2, <2>1 DEF Objects, nodeVars, Matched, SetUp
<1>3. CASE p2pNode # Nobody /\ StopNode(x, p2pNode) /\ UNCHANGED startAt
  <2>1. PICK o \in Object : o = p2pNode /\ Matched(o) /\ SetUp(o)
    BY <1>1, <1>3 DEF PluginTypeOK, Objects
  <2>2. RunStop(x, o, {"discovery", "status", "node"}, fields[o], {"listeners"})
    BY <1>3, <2>1 DEF StopNode
  <2>3. /\ fields[o] \in SUBSET {"node", "handler", "discovery", "status"}
        /\ started[o] \in SUBSET {"discovery", "status"}
    BY <1>1 DEF NodeTypeOK
  <2>4. ~Ending(o)
    BY DEF Ending, NotStopping
  <2>5. Orderly(o, {"discovery", "status", "node"}, fields[o], {"listeners"})
    BY <1>3, <2>1, <2>3, <2>4 DEF Orderly, Matched
  <2>6. Waits(x, o)
    BY <1>1, <1>3, <2>2, <2>5, RunStopQuiet
  <2>7. Stops'
    BY <1>1, <2>1, <2>6 DEF Waits, Stops, NotStopping, NodeTypeOK
  <2>8. \A other \in Object : Matched(other)' /\ SetUp(other)'
    BY <1>1, <1>3, <2>6 DEF Waits, Objects, Matched, SetUp
  <2>9. \A other \in Object : other # p2pNode => running'[other] \subseteq {"limiter"}
    BY <1>1, <2>1, <2>6 DEF Waits, Objects
  <2>10. /\ \A y \in Caller \ {x} : stops'[y] = stops[y]
         /\ ~NotStopping(x)'
    BY <1>1, <2>6 DEF Waits, NodeTypeOK, NotStopping
  <2>11. QED
    BY <1>3, <2>7, <2>8, <2>9, <2>10
<1>4. QED
  BY <1>2, <1>3 DEF BeginStop

(* ... and returns: nothing but limiters is left, and p2pNode is forgotten. *)
LEMMA QuietEndStop ==
  ASSUME PluginInv, ~raced, NEW x \in Caller, EndStop(x)
  PROVE  /\ p2pNode' = Nobody
         /\ \A y \in Caller : NotStopping(y)'
         /\ UNCHANGED <<startAt, fields, started, running>>
         /\ Stops'
         /\ \A o \in Object : /\ Matched(o)' /\ SetUp(o)'
                              /\ running'[o] \subseteq {"limiter"}
<1>1. PluginTypeOK /\ NodeTypeOK /\ Objects /\ Stops
  BY DEF PluginInv, PluginTypeOK
<1>2. UNCHANGED <<startAt, fields, started, running>> /\ ~NotStopping(x)
  BY DEF EndStop, StopReturns, NotStopping
<1>3. /\ stops[x].at = "done" /\ stops[x].of = p2pNode
      /\ TakenDown("done", p2pNode) /\ stops[x].of \in Object
  BY <1>1, <1>2 DEF Stops, EndStop, StopReturns, NodeTypeOK
<1>4. p2pNode' = Nobody
  BY <1>3 DEF EndStop
<1>5. \A y \in Caller : NotStopping(y)'
  BY <1>1, <1>2, OneAtATime DEF EndStop, StopReturns, NotStopping, NodeTypeOK
<1>6. \A o \in Object : running[o] \subseteq {"limiter"}
  BY <1>1, <1>3, OnlyLimiterLeft DEF Objects
<1>7. \A o \in Object : Matched(o)' /\ SetUp(o)' /\ running'[o] \subseteq {"limiter"}
  BY <1>1, <1>2, <1>6 DEF Objects, Matched, SetUp
<1>8. QED
  BY <1>2, <1>4, <1>5, <1>7 DEF Stops

(* startService() with no node about and nothing in progress.               *)
LEMMA QuietStartService ==
  ASSUME PluginInv, ~raced, NEW c \in Chain, StartService(c),
         p2pNode = Nobody, \A y \in Caller : NotStopping(y),
         \A d \in Chain : chain[d] # "starting"
  PROVE  /\ p2pNode' = awaited'[c] /\ startAt'[p2pNode'] # "new"
         /\ UNCHANGED stops /\ Stops'
         /\ chain' = [chain EXCEPT ![c] = "starting"]
         /\ Objects'
<1>1. PluginTypeOK /\ NodeTypeOK /\ Objects
  BY DEF PluginInv, PluginTypeOK
<1>2. PICK o \in Object :
        /\ startAt[o] = "new" /\ startAt' = [startAt EXCEPT ![o] = "key"]
        /\ p2pNode' = o
        /\ chain' = [chain EXCEPT ![c] = "starting"]
        /\ awaited' = [awaited EXCEPT ![c] = o]
        /\ UNCHANGED <<stops, fields, started, running>>
  BY DEF StartService, StartNode
<1>3. startAt'[o] = "key" /\ \A other \in Object \ {o} : startAt'[other] = startAt[other]
  BY <1>1, <1>2 DEF NodeTypeOK
<1>4. chain'[c] = "starting" /\ awaited'[c] = o
  BY <1>1, <1>2 DEF PluginTypeOK
<1>5. Stops'
  BY <1>2 DEF Stops, NotStopping
<1>6. \A other \in Object : startAt[other] \notin Await
  BY OneAtATime
<1>7. Nobody \notin Object
  BY PluginAssumption DEF Nobody
<1>8. \A other \in Object : Matched(other)' /\ SetUp(other)'
  BY <1>1, <1>2, <1>3 DEF Objects, Matched, SetUp
<1>9. \A other \in Object : other # o => running'[other] \subseteq {"limiter"}
  BY <1>1, <1>2, <1>7 DEF Objects
<1>10. \A other \in Object :
         startAt'[other] \in Await => chain'[c] = "starting" /\ awaited'[c] = other
  BY <1>3, <1>4, <1>6
<1>11. Objects'
  BY <1>2, <1>8, <1>9, <1>10 DEF Objects
<1>12. QED
  BY <1>2, <1>3, <1>4, <1>5, <1>11

LEMMA PluginInvInit == PluginInit => PluginInv
<1> SUFFICES ASSUME PluginInit PROVE PluginInv
  OBVIOUS
<1>1. PluginTypeOK
  BY PluginTypeInit
<1>2. \A x \in Caller : NotStopping(x)
  BY DEF PluginInit, NodeInit, NotStopping
<1>3. \A c \in Chain : chain[c] = "none"
  BY DEF PluginInit
<1>4. Turns
  BY <1>2, <1>3, PluginAssumption DEF Turns, Busy
<1>5. TheNode /\ Stops
  BY <1>2, <1>3 DEF TheNode, Stops, PluginInit
<1>6. Objects
  BY DEF PluginInit, NodeInit, Objects, Matched, SetUp, Await
<1>7. QED
  BY <1>1, <1>4, <1>5, <1>6 DEF PluginInv

LEMMA PluginInvStep == PluginInv /\ [PluginNext]_pluginVars => PluginInv'
<1> SUFFICES ASSUME PluginInv, [PluginNext]_pluginVars PROVE PluginInv'
  OBVIOUS
<1>0. PluginTypeOK'
  BY PluginTypeStep DEF PluginInv
<1> SUFFICES ASSUME ~raced' PROVE Turns' /\ TheNode' /\ Stops' /\ Objects'
  BY <1>0 DEF PluginInv
<1>1. ~raced
  BY DEF PluginNext, GatewayStarts, GatewayStops, GatewayStopped, NodeStep, ChainStep, Retry,
         GiveUp, RetryStopped, BackoffOver, pluginVars, ownVars
<1>2. PluginTypeOK /\ NodeTypeOK /\ Turns /\ TheNode /\ Stops /\ Objects
  BY <1>1 DEF PluginInv, PluginTypeOK
<1>3. Gateway \in Caller /\ Chain \subseteq Caller /\ Gateway \notin Chain
      /\ Caller = {Gateway} \union Chain
  BY PluginAssumption DEF Gateway, Chain
<1>4. CASE GatewayStarts
  <2>1. PICK c \in Chain : chain[c] = "none" /\ StartService(c)
    BY <1>4 DEF GatewayStarts
  <2>2. /\ p2pNode = Nobody /\ wanted' = TRUE
        /\ \A d \in Chain : ~Busy(d)
        /\ \A y \in Caller : NotStopping(y)
    BY <1>1, <1>2, <1>3, <1>4, OneAtATime DEF GatewayStarts, TheNode, Turns
  <2>3. \A d \in Chain : chain[d] # "starting"
    BY <2>2 DEF Busy
  <2>4. /\ p2pNode' = awaited'[c] /\ startAt'[p2pNode'] # "new"
        /\ UNCHANGED stops /\ Stops' /\ Objects'
        /\ chain' = [chain EXCEPT ![c] = "starting"]
    BY <1>1, <2>1, <2>2, <2>3, QuietStartService
  <2>5. \A d \in Chain : chain'[d] \in {"starting", "backoff"} \/ Busy(d)' => d = c /\ chain'[d] = "starting"
    BY <1>2, <2>2, <2>4 DEF Busy, PluginTypeOK
  <2>6. Turns' /\ TheNode'
    BY <1>3, <2>2, <2>4, <2>5 DEF Turns, TheNode, NotStopping
  <2>7. QED
    BY <2>4, <2>6
<1>5. CASE GatewayStops
  <2>1. \A c \in Chain : ~Busy(c)
    BY <1>5 DEF GatewayStops
  <2>2. \A y \in Caller : NotStopping(y)
    BY <1>1, <1>3, <1>5, <2>1, OneAtATime DEF GatewayStops
  <2>3. p2pNode # Nobody => startAt[p2pNode] \in {"done", "failed"}
    <3>1. \A o \in Object : startAt[o] \notin Await
      BY <1>1, <2>1, OneAtATime DEF Busy
    <3>2. QED
      BY <1>2, <3>1 DEF TheNode, PluginTypeOK, NodeTypeOK
  <2>4. /\ \A y \in Caller \ {Gateway} : stops'[y] = stops[y]
        /\ p2pNode # Nobody => ~NotStopping(Gateway)'
        /\ UNCHANGED startAt /\ Stops'
        /\ \A o \in Object : /\ Matched(o)' /\ SetUp(o)'
                             /\ o # p2pNode => running'[o] \subseteq {"limiter"}
    BY <1>1, <1>3, <1>5, <2>2, <2>3, QuietBeginStop DEF GatewayStops
  <2>5. wanted' = FALSE /\ UNCHANGED <<p2pNode, chain, awaited>>
    BY <1>5 DEF GatewayStops
  <2>6. Turns'
    BY <1>2, <1>3, <2>1, <2>4, <2>5 DEF Turns, Busy, NotStopping
  <2>7. TheNode'
    BY <1>2, <2>4, <2>5 DEF TheNode
  <2>8. Objects'
    BY <1>2, <2>4, <2>5 DEF Objects
  <2>9. QED
    BY <2>4, <2>6, <2>7, <2>8
<1>6. CASE GatewayStopped
  <2>1. EndStop(Gateway) /\ UNCHANGED <<chain, awaited, wanted>> /\ ~NotStopping(Gateway)
    BY <1>6 DEF GatewayStopped, EndStop, StopReturns, NotStopping
  <2>2. /\ p2pNode' = Nobody /\ \A y \in Caller : NotStopping(y)'
        /\ UNCHANGED startAt /\ Stops'
        /\ \A o \in Object : Matched(o)' /\ SetUp(o)' /\ running'[o] \subseteq {"limiter"}
    BY <1>1, <1>3, <2>1, QuietEndStop
  <2>3. \A c \in Chain : ~Busy(c)
    BY <1>2, <2>1 DEF Turns
  <2>4. Turns'
    BY <1>2, <1>3, <2>1, <2>2 DEF Turns, Busy
  <2>5. TheNode'
    BY <2>1, <2>2, <2>3 DEF TheNode, Busy
  <2>6. Objects'
    BY <1>2, <2>1, <2>2 DEF Objects
  <2>7. QED
    BY <2>2, <2>4, <2>5, <2>6
<1>7. CASE NodeStep
  BY <1>1, <1>7, QuietStart, QuietStop DEF NodeStep
<1>8. ASSUME NEW c \in Chain, Retry(c) PROVE Turns' /\ TheNode' /\ Stops' /\ Objects'
  <2>1. /\ chain[c] = "starting" /\ startAt[awaited[c]] \in {"done", "failed"}
        /\ p2pNode = awaited[c] /\ p2pNode # Nobody
    BY <1>2, <1>8, PluginAssumption DEF Retry, TheNode, PluginTypeOK, Nobody
  <2>2. \A y \in Caller : NotStopping(y)
    BY <1>1, <2>1, OneAtATime
  <2>3. /\ \A y \in Caller \ {c} : stops'[y] = stops[y]
        /\ UNCHANGED startAt /\ Stops'
        /\ \A o \in Object : /\ Matched(o)' /\ SetUp(o)'
                             /\ o # p2pNode => running'[o] \subseteq {"limiter"}
    BY <1>1, <1>3, <1>8, <2>1, <2>2, QuietBeginStop DEF Retry
  <2>4. /\ chain' = [chain EXCEPT ![c] = "stopping"] /\ chain'[c] = "stopping"
        /\ UNCHANGED <<p2pNode, awaited, wanted>>
    BY <1>2, <1>8, <2>1 DEF Retry, PluginTypeOK
  <2>5. \A d \in Chain : Busy(d) => d = c
    BY <1>2, <2>1 DEF Turns, Busy
  <2>6. wanted
    BY <1>2, <2>1 DEF Turns, Busy
  <2>7. Turns'
    BY <1>2, <1>3, <2>2, <2>3, <2>4, <2>5, <2>6 DEF Turns, Busy, NotStopping, PluginTypeOK
  <2>8. TheNode'
    BY <1>2, <2>3, <2>4, <2>5, <2>6 DEF TheNode, Busy, PluginTypeOK
  <2>9. \A o \in Object : startAt'[o] \notin Await
    BY <1>2, <2>1, <2>3, <2>5 DEF Objects, Busy, Await
  <2>10. Objects'
    BY <2>3, <2>4, <2>9 DEF Objects
  <2>11. QED
    BY <2>3, <2>7, <2>8, <2>10
<1>9. ASSUME NEW c \in Chain, GiveUp(c) PROVE Turns' /\ TheNode' /\ Stops' /\ Objects'
  <2>1. /\ chain[c] = "starting" /\ startAt[awaited[c]] \in {"done", "failed"}
        /\ chain' = [chain EXCEPT ![c] = "disabled"] /\ chain'[c] = "disabled"
        /\ UNCHANGED <<nodeVars, p2pNode, awaited, wanted>>
    BY <1>2, <1>9 DEF GiveUp, PluginTypeOK
  <2>2. \A y \in Caller : NotStopping(y)
    BY <1>1, <2>1, OneAtATime
  <2>3. Turns' /\ TheNode' /\ Stops'
    BY <1>2, <1>3, <2>1, <2>2 DEF Turns, TheNode, Stops, Busy, NotStopping, PluginTypeOK, nodeVars
  <2>4. Objects'
    BY <1>2, <2>1 DEF Objects, Matched, SetUp, Await, nodeVars, PluginTypeOK
  <2>5. QED
    BY <2>3, <2>4
<1>10. ASSUME NEW c \in Chain, RetryStopped(c) PROVE Turns' /\ TheNode' /\ Stops' /\ Objects'
  <2>1. /\ chain[c] = "stopping" /\ EndStop(c) /\ UNCHANGED <<awaited, wanted>>
        /\ chain' = [chain EXCEPT ![c] = "backoff"] /\ chain'[c] = "backoff"
    BY <1>2, <1>10 DEF RetryStopped, PluginTypeOK
  <2>2. /\ p2pNode' = Nobody /\ \A y \in Caller : NotStopping(y)'
        /\ UNCHANGED startAt /\ Stops'
        /\ \A o \in Object : Matched(o)' /\ SetUp(o)' /\ running'[o] \subseteq {"limiter"}
    BY <1>1, <1>3, <2>1, QuietEndStop
  <2>3. \A d \in Chain : Busy(d) => d = c
    BY <1>2, <2>1 DEF Turns, Busy
  <2>4. wanted
    BY <1>2, <2>1 DEF Turns, Busy
  <2>5. Turns' /\ TheNode'
    BY <1>2, <1>3, <2>1, <2>2, <2>3, <2>4 DEF Turns, TheNode, Busy, PluginTypeOK
  <2>6. Objects'
    BY <1>2, <2>1, <2>2 DEF Objects, PluginTypeOK
  <2>7. QED
    BY <2>2, <2>5, <2>6
<1>11. ASSUME NEW c \in Chain, BackoffOver(c) PROVE Turns' /\ TheNode' /\ Stops' /\ Objects'
  <2>1. chain[c] = "backoff" /\ p2pNode = Nobody /\ UNCHANGED wanted
    BY <1>2, <1>11 DEF BackoffOver, TheNode
  <2>2. \A y \in Caller : NotStopping(y)
    BY <1>1, <2>1, OneAtATime
  <2>3. wanted /\ \A d \in Chain : Busy(d) => d = c
    BY <1>2, <2>1 DEF Turns, Busy
  <2>4. CASE StartService(c)
    <3>1. \A d \in Chain : chain[d] # "starting"
      BY <2>1, <2>3 DEF Busy
    <3>2. /\ p2pNode' = awaited'[c] /\ startAt'[p2pNode'] # "new"
          /\ UNCHANGED stops /\ Stops' /\ Objects'
          /\ chain' = [chain EXCEPT ![c] = "starting"]
      BY <1>1, <2>1, <2>2, <2>4, <3>1, QuietStartService
    <3>3. \A d \in Chain : chain'[d] \in {"starting", "backoff"} \/ Busy(d)' => d = c /\ chain'[d] = "starting"
      BY <1>2, <2>3, <3>2 DEF Busy, PluginTypeOK
    <3>4. Turns' /\ TheNode'
      BY <1>3, <2>1, <2>2, <2>3, <3>2, <3>3 DEF Turns, TheNode, NotStopping
    <3>5. QED
      BY <3>2, <3>4
  <2>5. CASE chain' = [chain EXCEPT ![c] = "over"] /\ UNCHANGED <<nodeVars, p2pNode, awaited>>
    <3>1. Turns' /\ TheNode' /\ Stops'
      BY <1>2, <1>3, <2>1, <2>2, <2>5 DEF Turns, TheNode, Stops, Busy, NotStopping, PluginTypeOK, nodeVars
    <3>2. Objects'
      BY <1>2, <2>1, <2>5 DEF Objects, Matched, SetUp, nodeVars, PluginTypeOK
    <3>3. QED
      BY <3>1, <3>2
  <2>6. QED
    BY <1>11, <2>4, <2>5 DEF BackoffOver
<1>12. CASE UNCHANGED pluginVars
  BY <1>2, <1>12 DEF pluginVars, ownVars, nodeVars, Turns, TheNode, Stops, Objects, Matched, SetUp,
       TakenDown, Busy, NotStopping
<1>13. QED
  BY <1>4, <1>5, <1>6, <1>7, <1>8, <1>9, <1>10, <1>11, <1>12 DEF PluginNext, ChainStep

LEMMA PluginInvariance == PluginSpec => []PluginInv
BY PluginInvInit, PluginInvStep, PTL DEF PluginSpec

(* Whatever fails and is retried, the plugin has at most one libp2p running *)
(* unless a stop() met a start() in progress                                *)
(* (extensions/bsv-p2p/index.ts:67-178, daemon/node.ts:113-226).            *)
THEOREM OneNodeRuns == PluginSpec => []OneNode
<1>1. PluginInv => OneNode
  <2> SUFFICES ASSUME PluginInv, ~raced
               PROVE  Cardinality({o \in Object : "libp2p" \in running[o]}) <= 1
    BY DEF OneNode
  <2> DEFINE S == {o \in Object : "libp2p" \in running[o]}
  <2>1. S \subseteq {p2pNode}
    BY DEF PluginInv, Objects
  <2>2. IsFiniteSet({p2pNode}) /\ Cardinality({p2pNode}) = 1
    BY FS_Singleton
  <2>3. Cardinality(S) <= Cardinality({p2pNode})
    BY <2>1, <2>2, FS_Subset
  <2>4. QED
    BY <2>2, <2>3
<1>2. QED
  BY <1>1, PluginInvariance, PTL

(* A service that was stopped leaves nothing of any node it ever had, but   *)
(* for the limiters that nobody stops (daemon/node.ts:194-226).             *)
THEOREM NothingButLimiters == PluginSpec => []StoppedLeavesLimiters
<1>1. PluginInv => StoppedLeavesLimiters
  <2> SUFFICES ASSUME PluginInv, ~raced, ~wanted, NotStopping(Gateway)
               PROVE  p2pNode = Nobody /\ \A o \in Object : running[o] \subseteq {"limiter"}
    BY DEF StoppedLeavesLimiters
  <2>1. p2pNode = Nobody
    BY DEF PluginInv, TheNode
  <2>2. Nobody \notin Object
    BY PluginAssumption DEF Nobody
  <2>3. QED
    BY <2>1, <2>2 DEF PluginInv, Objects
<1>2. QED
  BY <1>1, PluginInvariance, PTL

(***************************************************************************)
(* PluginService: how many nodes. Every node made has been paid for, by a  *)
(* start of the gateway or by a restart that was counted; a chain that is  *)
(* on its way to another node has paid for it already. This holds whether  *)
(* or not a stop met a start.                                              *)
(***************************************************************************)
Called == {c \in Chain : chain[c] # "none"}
Promised == {c \in Chain : chain[c] \in {"stopping", "backoff"}}

Budget == Cardinality(Made) + Cardinality(Promised) <= Cardinality(Called) + restartCount

(* What runs belongs to a node that was made.                               *)
NothingUnmadeRuns == \A o \in Object : startAt[o] = "new" => running[o] = {}

BudgetInv == PluginTypeOK /\ NothingUnmadeRuns /\ Budget

LEMMA PluginSets ==
  /\ IsFiniteSet(Object) /\ Cardinality(Object) = MaxStarts + MaxRestartAttempts
  /\ IsFiniteSet(Chain) /\ Cardinality(Chain) = MaxStarts
  /\ MaxStarts \in Nat /\ MaxRestartAttempts \in Nat
BY PluginAssumption, FS_Interval DEF Chain

(* The sets that are counted, in every state.                               *)
LEMMA Counts ==
  /\ IsFiniteSet(Made) /\ Cardinality(Made) \in Nat
  /\ IsFiniteSet(Called) /\ Cardinality(Called) \in 0 .. MaxStarts
  /\ IsFiniteSet(Promised) /\ Cardinality(Promised) \in Nat
<1>1. Made \in SUBSET Object /\ Called \in SUBSET Chain /\ Promised \in SUBSET Chain
  BY DEF Made, Called, Promised
<1>2. IsFiniteSet(Made) /\ IsFiniteSet(Called) /\ IsFiniteSet(Promised)
      /\ Cardinality(Called) <= MaxStarts
  BY <1>1, PluginSets, FS_Subset
<1> QED BY <1>2, PluginSets, FS_CardinalityType

(* What a chain that goes from one place to another changes.                *)
LEMMA ChainMoves ==
  ASSUME PluginTypeOK, NEW c \in Chain,
         NEW to \in {"starting", "stopping", "backoff", "over", "disabled"},
         chain' = [chain EXCEPT ![c] = to]
  PROVE  /\ Called' = Called \union {c}
         /\ Promised' = IF to \in {"stopping", "backoff"} THEN Promised \union {c}
                        ELSE Promised \ {c}
<1>1. \A d \in Chain : chain'[d] = IF d = c THEN to ELSE chain[d]
  BY DEF PluginTypeOK
<1>2. Called' = {d \in Chain : chain'[d] # "none"}
      /\ Promised' = {d \in Chain : chain'[d] \in {"stopping", "backoff"}}
  BY DEF Called, Promised
<1>3. Called' = Called \union {c}
  BY <1>1, <1>2 DEF Called
<1>4. CASE to \in {"stopping", "backoff"}
  BY <1>1, <1>2, <1>3, <1>4 DEF Promised
<1>5. CASE to \notin {"stopping", "backoff"}
  BY <1>1, <1>2, <1>3, <1>5 DEF Promised
<1> QED BY <1>3, <1>4, <1>5

(* A stop(), or a start() that goes on, makes no object.                    *)
NoneMade ==
  /\ Made' = Made
  /\ \A o \in Object : startAt'[o] = "new" => running'[o] \subseteq running[o]

LEMMA RunStopMakesNone ==
  ASSUME NodeTypeOK, NEW c \in Caller, NEW o \in Object, NEW ahead, NEW left, NEW lost,
         RunStop(c, o, ahead, left, lost), UNCHANGED startAt
  PROVE  NoneMade
<1>1. Made' = Made
  BY DEF Made
<1>2. PICK gone : running' = [running EXCEPT ![o] = running[o] \ gone]
  BY DEF RunStop
<1>3. \A other \in Object : running'[other] \subseteq running[other]
  BY <1>2 DEF NodeTypeOK
<1> QED BY <1>1, <1>3 DEF NoneMade

LEMMA BeginStopMakesNone ==
  ASSUME PluginTypeOK, NEW c \in Caller, BeginStop(c)
  PROVE  NoneMade
<1>1. CASE p2pNode # Nobody /\ StopNode(c, p2pNode) /\ UNCHANGED startAt
  BY <1>1, RunStopMakesNone DEF StopNode, PluginTypeOK
<1>2. CASE UNCHANGED nodeVars
  BY <1>2 DEF nodeVars, NoneMade, Made
<1> QED BY <1>1, <1>2 DEF BeginStop

LEMMA NodeStepMakesNone ==
  ASSUME PluginTypeOK, NodeStep
  PROVE  NoneMade
<1>0. NodeTypeOK
  BY DEF PluginTypeOK
<1>1. ASSUME NEW o \in Object, StartSteps(o) PROVE NoneMade
  <2>1. /\ startAt[o] # "new" /\ startAt'[o] # "new"
        /\ \A other \in Object \ {o} :
             startAt'[other] = startAt[other] /\ running'[other] = running[other]
    <3> USE <1>0 DEF NodeTypeOK, Await
    <3>1. CASE KeyLoaded(o)
      BY <3>1 DEF KeyLoaded
    <3>2. CASE KeyOrLibp2pFails(o)
      BY <3>2 DEF KeyOrLibp2pFails
    <3>3. CASE Created(o)
      BY <3>3 DEF Created
    <3>4. CASE StartDiscovery(o)
      BY <3>4 DEF StartDiscovery, Launch
    <3>5. CASE StartStatus(o)
      BY <3>5 DEF StartStatus, Launch
    <3>6. CASE StartDone(o)
      BY <3>6 DEF StartDone
    <3>7. CASE PublishFails(o)
      BY <3>7 DEF PublishFails
    <3> QED BY <1>1, <3>1, <3>2, <3>3, <3>4, <3>5, <3>6, <3>7 DEF StartSteps
  <2> QED BY <2>1 DEF NoneMade, Made
<1>2. ASSUME NEW c \in Caller, StopSteps(c) PROVE NoneMade
  <2>1. stops[c].of \in Object
    BY <1>0 DEF NodeTypeOK
  <2>2. CASE ServiceStopped(c)
    BY <1>0, <2>1, <2>2, RunStopMakesNone DEF ServiceStopped
  <2>3. CASE Libp2pStopped(c)
    <3>1. Made' = Made
      BY <2>3 DEF Libp2pStopped, Made
    <3>2. \A o \in Object : running'[o] \subseteq running[o]
      BY <1>0, <2>1, <2>3 DEF Libp2pStopped, NodeTypeOK
    <3> QED BY <3>1, <3>2 DEF NoneMade
  <2> QED BY <1>2, <2>2, <2>3 DEF StopSteps
<1> QED BY <1>1, <1>2 DEF NodeStep

(* A chain that makes its node has one more, and is promised none.          *)
LEMMA StartServiceMakesOne ==
  ASSUME PluginTypeOK, NothingUnmadeRuns, NEW c \in Chain, StartService(c)
  PROVE  /\ Cardinality(Made') = Cardinality(Made) + 1
         /\ NothingUnmadeRuns'
         /\ Called' = Called \union {c}
         /\ Promised' = Promised \ {c}
<1>1. PICK o \in Object \ Made :
        /\ StartNode(o) /\ chain' = [chain EXCEPT ![c] = "starting"]
        /\ running' = running
  BY DEF StartService
<1>2. \A other \in Object : startAt'[other] = IF other = o THEN "key" ELSE startAt[other]
  BY <1>1 DEF StartNode, PluginTypeOK, NodeTypeOK
<1>3. Made' = Made \union {o}
  BY <1>1, <1>2 DEF Made
<1>4. Cardinality(Made') = Cardinality(Made) + 1
  BY <1>1, <1>3, Counts, FS_AddElement
<1>5. NothingUnmadeRuns'
  BY <1>1, <1>2 DEF NothingUnmadeRuns
<1> QED BY <1>1, <1>4, <1>5, ChainMoves

LEMMA BudgetInit == PluginInit => BudgetInv
<1> SUFFICES ASSUME PluginInit PROVE BudgetInv
  OBVIOUS
<1>1. Made = {} /\ Promised = {} /\ Called = {} /\ restartCount = 0
  BY DEF PluginInit, NodeInit, Made, Promised, Called
<1>2. Budget
  BY <1>1, FS_EmptySet DEF Budget
<1>3. NothingUnmadeRuns
  BY DEF PluginInit, NodeInit, NothingUnmadeRuns
<1> QED BY <1>2, <1>3, PluginTypeInit DEF BudgetInv

LEMMA BudgetStep == BudgetInv /\ [PluginNext]_pluginVars => BudgetInv'
<1> SUFFICES ASSUME BudgetInv, [PluginNext]_pluginVars PROVE BudgetInv'
  OBVIOUS
<1>0. PluginTypeOK /\ NothingUnmadeRuns /\ Budget /\ PluginTypeOK'
  BY PluginTypeStep DEF BudgetInv
<1> SUFFICES NothingUnmadeRuns' /\ Budget'
  BY <1>0 DEF BudgetInv
<1>1. restartCount \in Nat
  BY <1>0, PluginSets DEF PluginTypeOK
<1>2. ASSUME NoneMade PROVE NothingUnmadeRuns' /\ Cardinality(Made)' = Cardinality(Made)
  <2>1. \A o \in Object : (startAt'[o] = "new") <=> (startAt[o] = "new")
    BY <1>2 DEF NoneMade, Made
  <2> QED BY <1>0, <1>2, <2>1 DEF NoneMade, NothingUnmadeRuns
<1>3. ASSUME NoneMade, UNCHANGED <<chain, restartCount>>
      PROVE  NothingUnmadeRuns' /\ Budget'
  <2>1. Promised' = Promised /\ Called' = Called
    BY <1>3 DEF Promised, Called
  <2> QED BY <1>0, <1>2, <1>3, <2>1 DEF Budget
<1>4. CASE GatewayStarts
  <2>1. PICK c \in Chain : chain[c] = "none" /\ StartService(c)
    BY <1>4 DEF GatewayStarts
  <2>2. restartCount' = restartCount /\ c \notin Called /\ c \notin Promised
    BY <1>4, <2>1 DEF GatewayStarts, Called, Promised
  <2>3. Cardinality(Called') = Cardinality(Called) + 1
    BY <1>0, <2>1, <2>2, StartServiceMakesOne, Counts, FS_AddElement
  <2>4. Promised' = Promised
    BY <1>0, <2>1, <2>2, StartServiceMakesOne
  <2> QED BY <1>0, <1>1, <2>1, <2>2, <2>3, <2>4, StartServiceMakesOne, Counts DEF Budget
<1>5. CASE GatewayStops
  BY <1>0, <1>3, <1>5, BeginStopMakesNone, PluginAssumption DEF GatewayStops
<1>6. CASE GatewayStopped
  BY <1>3, <1>6 DEF GatewayStopped, EndStop, NoneMade, Made
<1>7. CASE NodeStep
  BY <1>0, <1>3, <1>7, NodeStepMakesNone DEF NodeStep, ownVars
<1>8. ASSUME NEW c \in Chain, Retry(c) PROVE NothingUnmadeRuns' /\ Budget'
  <2>1. /\ chain[c] = "starting" /\ restartCount' = restartCount + 1
        /\ \E to \in {"stopping", "backoff"} : chain' = [chain EXCEPT ![c] = to]
    BY <1>8 DEF Retry
  <2>2. Called' = Called /\ Promised' = Promised \union {c} /\ c \notin Promised
    BY <1>0, <2>1, ChainMoves DEF Called, Promised
  <2>3. Cardinality(Promised') = Cardinality(Promised) + 1
    BY <2>2, Counts, FS_AddElement
  <2>4. NoneMade
    BY <1>0, <1>8, BeginStopMakesNone, PluginAssumption DEF Retry
  <2> QED BY <1>0, <1>1, <1>2, <2>1, <2>2, <2>3, <2>4, Counts DEF Budget
<1>9. ASSUME NEW c \in Chain, GiveUp(c) PROVE NothingUnmadeRuns' /\ Budget'
  <2>1. chain[c] = "starting" /\ chain' = [chain EXCEPT ![c] = "disabled"]
        /\ restartCount' = restartCount
    BY <1>9 DEF GiveUp
  <2>2. Called' = Called /\ Promised' = Promised
    BY <1>0, <2>1, ChainMoves DEF Called, Promised
  <2>3. NoneMade
    BY <1>9 DEF GiveUp, nodeVars, NoneMade, Made
  <2> QED BY <1>0, <1>2, <2>1, <2>2, <2>3 DEF Budget
<1>10. ASSUME NEW c \in Chain, RetryStopped(c) PROVE NothingUnmadeRuns' /\ Budget'
  <2>1. chain[c] = "stopping" /\ chain' = [chain EXCEPT ![c] = "backoff"]
        /\ restartCount' = restartCount
    BY <1>10 DEF RetryStopped
  <2>2. Called' = Called /\ Promised' = Promised
    BY <1>0, <2>1, ChainMoves DEF Called, Promised
  <2>3. NoneMade
    BY <1>10 DEF RetryStopped, EndStop, NoneMade, Made
  <2> QED BY <1>0, <1>2, <2>1, <2>2, <2>3 DEF Budget
<1>11. ASSUME NEW c \in Chain, BackoffOver(c) PROVE NothingUnmadeRuns' /\ Budget'
  <2>1. c \in Promised /\ c \in Called /\ restartCount' = restartCount
    BY <1>11 DEF BackoffOver, Called, Promised
  <2>2. Cardinality(Promised \ {c}) = Cardinality(Promised) - 1
    BY <2>1, Counts, FS_RemoveElement
  <2>3. CASE StartService(c)
    <3>1. Called' = Called /\ Promised' = Promised \ {c}
      BY <1>0, <2>1, <2>3, StartServiceMakesOne
    <3> QED BY <1>0, <1>1, <2>1, <2>2, <2>3, <3>1, StartServiceMakesOne, Counts DEF Budget
  <2>4. CASE chain' = [chain EXCEPT ![c] = "over"] /\ UNCHANGED nodeVars
    <3>1. Called' = Called \union {c} /\ Promised' = Promised \ {c}
      BY <1>0, <2>4, ChainMoves
    <3>2. NoneMade
      BY <2>4 DEF nodeVars, NoneMade, Made
    <3>3. Called' = Called
      BY <2>1, <3>1
    <3>4. NothingUnmadeRuns' /\ Cardinality(Made)' = Cardinality(Made)
      BY <1>2, <3>2
    <3>5. Cardinality(Promised') = Cardinality(Promised) - 1
      BY <2>2, <3>1
    <3>6. Budget'
      BY <1>0, <1>1, <2>1, <3>3, <3>4, <3>5, Counts DEF Budget
    <3> QED BY <3>4, <3>6
  <2> QED BY <1>11, <2>3, <2>4 DEF BackoffOver
<1>12. CASE UNCHANGED pluginVars
  BY <1>3, <1>12 DEF pluginVars, nodeVars, ownVars, NoneMade, Made
<1> QED BY <1>4, <1>5, <1>6, <1>7, <1>8, <1>9, <1>10, <1>11, <1>12 DEF PluginNext, ChainStep

LEMMA BudgetInvariance == PluginSpec => []BudgetInv
BY BudgetInit, BudgetStep, PTL DEF PluginSpec

(* The nodes with anything running, those that a race has left up and the   *)
(* limiters of stopped ones (daemon/node.ts:529) included, are no more than *)
(* the gateway's starts and the restarts counted, whatever starts and stops *)
(* overlap.                                                                 *)
THEOREM RunningNodesAreCounted == PluginSpec => []NodesCounted
<1>1. BudgetInv => NodesCounted
  <2> SUFFICES ASSUME BudgetInv PROVE NodesCounted
    OBVIOUS
  <2> DEFINE Up == {o \in Object : running[o] # {}}
  <2>1. Up \in SUBSET Made
    BY DEF BudgetInv, NothingUnmadeRuns, Made
  <2>2. Cardinality(Up) <= Cardinality(Made) /\ Cardinality(Up) \in Nat
    BY <2>1, Counts, FS_Subset, FS_CardinalityType
  <2>3. restartCount \in Nat
    BY PluginSets DEF BudgetInv, PluginTypeOK
  <2>4. Cardinality(Up) <= Cardinality(Called) + restartCount
    BY <2>2, <2>3, Counts DEF BudgetInv, Budget
  <2> QED BY <2>4 DEF NodesCounted, Called
<1> QED BY <1>1, BudgetInvariance, PTL

(* A start is due at the gateway's call or at the end of a backoff.         *)
StartNeverShort ==
  (\E c \in Chain : chain[c] \in {"none", "backoff"}) => Object \ Made # {}

(* The model has objects enough: one is left whenever a start is due, so    *)
(* that their number hides no behaviour of startService()                   *)
(* (extensions/bsv-p2p/index.ts:67).                                        *)
THEOREM ObjectsSuffice == PluginSpec => []StartNeverShort
<1>1. BudgetInv => StartNeverShort
  <2> SUFFICES ASSUME BudgetInv, NEW c \in Chain, chain[c] \in {"none", "backoff"},
                      Object \ Made = {}
               PROVE  FALSE
    BY DEF StartNeverShort
  <2>1. Made = Object
    BY DEF Made
  <2>2. /\ restartCount \in 0 .. MaxRestartAttempts
        /\ MaxStarts + MaxRestartAttempts + Cardinality(Promised)
             <= Cardinality(Called) + restartCount
    BY <2>1, PluginSets DEF BudgetInv, PluginTypeOK, Budget
  <2>3. CASE chain[c] = "none"
    <3>1. Called \in SUBSET Chain /\ Called # Chain
      BY <2>3 DEF Called
    <3>2. Cardinality(Called) < MaxStarts
      BY <3>1, PluginSets, Counts, FS_Subset
    <3> QED BY <2>2, <3>2, Counts, PluginSets
  <2>4. CASE chain[c] = "backoff"
    <3>1. Promised # {}
      BY <2>4 DEF Promised
    <3>2. Cardinality(Promised) > 0
      BY <3>1, Counts, FS_EmptySet
    <3> QED BY <2>2, <3>2, Counts, PluginSets
  <2> QED BY <2>3, <2>4
<1> QED BY <1>1, BudgetInvariance, PTL

=============================================================================
