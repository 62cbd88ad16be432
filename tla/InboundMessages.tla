-------------------------- MODULE InboundMessages --------------------------
(***************************************************************************)
(* What the daemon does with a message the handler has let in:             *)
(* handleIncomingMessage() of daemon/node.ts with the gateway client, the  *)
(* listeners main() of daemon/index.ts attaches, and the message logger.   *)
(*                                                                         *)
(* An error event without a listener throws; so does an insert into a      *)
(* closed database, or of what it cannot hold, and the formatting of a     *)
(* field that is not what its type says, which nobody has checked. Each    *)
(* rejects handleIncomingMessage(), whose promise nobody looks at: an      *)
(* unhandled rejection, which ends the process. (A request() orphaned by a *)
(* failed send is another one, see MessageHandler; but no caller of        *)
(* sendRequest() runs in the daemon, whose API sends texts and payments.)  *)
(***************************************************************************)
CONSTANTS
  Process,   \* the processes that run the daemon
  Message,   \* the messages that may come in
  Malformed  \* those with a field the log or the text for the agent may not take

ASSUME ProcessAssumption == Process # {} /\ Malformed \subseteq Message

VARIABLES
  main,       \* how far each process's main() is
  stopping,   \* is it in shutdown()
  enabled,    \* is the gateway enabled (the same for all)
  stage,      \* where each message is
  owner       \* the process that handles it

messageVars == <<enabled, stage, owner>>

(* start of main(); from register() to the end of the relay wait; after it. *)
Phase == {"none", "starting", "waiting", "ready", "dead"}

(* Not come; in runAgent(); in wake(); ended: an agent's turn, a wake, no   *)
(* gateway to tell, both told in vain, lost with its process.               *)
Stage == {"none", "running", "waking", "turn", "woken", "untold", "unheard", "lost"}

MessageTypeOK ==
  /\ enabled \in BOOLEAN
  /\ stage \in [Message -> Stage]
  /\ owner \in [Message -> Process]

MessageInit ==
  /\ enabled \in BOOLEAN
  /\ stage = [m \in Message |-> "none"]
  /\ owner = [m \in Message |-> CHOOSE p \in Process : TRUE]

(* A message of p that is in runAgent() or wake().                          *)
Underway(m, p) == owner[m] = p /\ stage[m] \in {"running", "waking"}

(* The listeners are attached in one go with the end of the relay wait, and *)
(* never removed.                                                           *)
Listening(p) == main[p] = "ready"

(* The process ends, with all it was doing.                                 *)
Die(p) ==
  /\ main' = [main EXCEPT ![p] = "dead"]
  /\ stage' = [m \in Message |-> IF Underway(m, p) THEN "lost" ELSE stage[m]]

(* It ends of the message m, which throws as it comes in.                   *)
Lose(m, p) ==
  /\ main' = [main EXCEPT ![p] = "dead"]
  /\ stage' = [n \in Message |-> IF n = m \/ Underway(n, p) THEN "lost" ELSE stage[n]]
  /\ owner' = [owner EXCEPT ![m] = p]
  /\ UNCHANGED enabled

----------------------------------------------------------------------------
(* The emits of handleIncomingMessage(): the listeners, once attached, log  *)
(* the message. Without a gateway that is all.                              *)
Arrive(m, p) ==
  /\ stage[m] = "none"
  /\ main[p] \in {"waiting", "ready"}
  /\ ~(Listening(p) /\ stopping[p])
  /\ stage' = [stage EXCEPT ![m] = IF enabled THEN "running" ELSE "untold"]
  /\ owner' = [owner EXCEPT ![m] = p]
  /\ UNCHANGED <<main, enabled>>

(* deserializeMessage() has validated nothing: the insert of a listener      *)
(* throws, or the text for the gateway cannot be made (a timestamp that is  *)
(* no date, a paid request without payment). Arrive is the message whose    *)
(* odd field does not matter on the way it takes.                           *)
ArriveMalformed(m, p) ==
  /\ m \in Malformed
  /\ stage[m] = "none"
  /\ main[p] \in {"waiting", "ready"}
  /\ Listening(p) \/ enabled
  /\ Lose(m, p)

(* shutdown() closes the log before it stops the node: the insert throws.   *)
ArriveTooLate(m, p) ==
  /\ stage[m] = "none"
  /\ Listening(p) /\ stopping[p]
  /\ Lose(m, p)

(* runAgent() succeeds: the agent takes its turn.                           *)
AgentRuns(m) ==
  /\ stage[m] = "running"
  /\ stage' = [stage EXCEPT ![m] = "turn"]
  /\ UNCHANGED <<main, enabled, owner>>

(* Mutant of AgentFails: the error has no listener in a process that serves.*)
AgentFailsUnheard(m) ==
  /\ stage[m] = "running"
  /\ Die(owner[m])
  /\ UNCHANGED <<enabled, owner>>

(* It fails, and emits an error event: with a listener it returns, and the  *)
(* fallback is tried; without one it throws.                                *)
AgentFails(m) ==
  /\ stage[m] = "running"
  /\ \/ /\ Listening(owner[m])
        /\ stage' = [stage EXCEPT ![m] = "waking"]
        /\ UNCHANGED main
     \/ ~Listening(owner[m]) /\ Die(owner[m])
  /\ UNCHANGED <<enabled, owner>>

(* Mutant of WakeEnds: when nobody hears the wake, the agent is run again.  *)
WakeRetries(m) ==
  /\ stage[m] = "waking"
  /\ \E outcome \in {"woken", "running"} : stage' = [stage EXCEPT ![m] = outcome]
  /\ UNCHANGED <<main, enabled, owner>>

(* The fallback is only ever tried with the listener attached.              *)
WakeEnds(m) ==
  /\ stage[m] = "waking"
  /\ \E outcome \in {"woken", "unheard"} : stage' = [stage EXCEPT ![m] = outcome]
  /\ UNCHANGED <<main, enabled, owner>>

GatewayAnswers(m) == AgentRuns(m) \/ AgentFails(m) \/ WakeEnds(m)

=============================================================================
