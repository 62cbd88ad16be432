--------------------------- MODULE MessageHandler --------------------------
(***************************************************************************)
(* protocol/handler.ts: one node's message handler. request() puts an      *)
(* entry in pendingRequests, with a running timer, and then sends; the     *)
(* inbound handler, the timer and stop() each take the entry out and       *)
(* settle its promise. Node.js runs these one callback at a time, so an    *)
(* action is what runs between two awaits, with the continuations that     *)
(* follow at once.                                                         *)
(***************************************************************************)
EXTENDS Naturals

CONSTANTS
  Requests,     \* ids of the requests this node makes
  Peers,        \* nodes it talks to
  Target,       \* the peer each request goes to
  Limit,        \* messages a peer may send per window
  Window,       \* ticks of the window
  MaxAnswers    \* bound: times a peer answers one request

ASSUME HandlerAssumption ==
  /\ Target \in [Requests -> Peers]
  /\ Limit \in [Peers -> Nat \ {0}]
  /\ Window \in [Peers -> Nat \ {0}]
  /\ MaxAnswers \in Nat \ {0}

VARIABLES
  pendingRequests,   \* the keys of the Map; each entry's timer runs
  promise,           \* responsePromise of each request
  caller,            \* where the request() call of each request is
  delivered,         \* requests that reached their peer
  answered,          \* times the peer answered each request
  answers,           \* answers still on their way
  emitted,           \* answers handed to the 'message' listeners instead
  alive,             \* FALSE once an unhandled rejection has ended the process
  spent, age, verdict   \* the rate limiter, as the quota gate it implements

handlerVars == <<pendingRequests, promise, caller, delivered, answered, answers,
                 emitted, alive>>
gateVars == <<spent, age, verdict>>
vars == <<handlerVars, gateVars>>

Gate == INSTANCE QuotaGate WITH Key <- Peers

(* The awaits of send(): dialPeer, newStream, sendCloseWrite. *)
Sending == {"dialing", "opening", "closing"}

(* How a call ends: the answer, or what it throws. *)
Errors == {"sendFailed", "timedOut", "stopped"}
Settled == {"returned"} \cup Errors

TypeOK ==
  /\ pendingRequests \subseteq Requests
  /\ promise \in [Requests -> {"none", "open", "resolved", "rejected"}]
  /\ caller \in [Requests -> {"idle", "waiting"} \cup Sending \cup Settled]
  /\ delivered \subseteq Requests
  /\ answered \in [Requests -> 0 .. MaxAnswers]
  /\ answers \in [Requests -> 0 .. MaxAnswers]
  /\ emitted \in [Requests -> 0 .. MaxAnswers]
  /\ alive \in BOOLEAN

Init ==
  /\ pendingRequests = {}
  /\ promise = [r \in Requests |-> "none"]
  /\ caller = [r \in Requests |-> "idle"]
  /\ delivered = {}
  /\ answered = [r \in Requests |-> 0]
  /\ answers = [r \in Requests |-> 0]
  /\ emitted = [r \in Requests |-> 0]
  /\ alive = TRUE
  /\ Gate!Init

----------------------------------------------------------------------------

(* request(): the entry and its timer exist before anything is sent. *)
Request(r) ==
  /\ caller[r] = "idle"
  /\ pendingRequests' = pendingRequests \cup {r}
  /\ promise' = [promise EXCEPT ![r] = "open"]
  /\ caller' = [caller EXCEPT ![r] = "dialing"]
  /\ UNCHANGED <<delivered, answered, answers, emitted, alive, gateVars>>

(* dialPeer() returned a connection, one that was open or a new one. *)
Dialed(r) ==
  /\ caller[r] = "dialing"
  /\ caller' = [caller EXCEPT ![r] = "opening"]
  /\ UNCHANGED <<pendingRequests, promise, delivered, answered, answers, emitted,
                 alive, gateVars>>

(* newStream() returned: the bytes go out before sendCloseWrite is awaited. *)
StreamOpened(r) ==
  /\ caller[r] = "opening"
  /\ caller' = [caller EXCEPT ![r] = "closing"]
  /\ delivered' = delivered \cup {r}
  /\ UNCHANGED <<pendingRequests, promise, answered, answers, emitted, alive, gateVars>>

(* Mutant of SendDone: an answer that came during the send is not seen. *)
SendDoneForgetsAnswer(r) ==
  /\ caller[r] = "closing"
  /\ caller' = [caller EXCEPT ![r] = "waiting"]
  /\ UNCHANGED <<pendingRequests, promise, delivered, answered, answers, emitted,
                 alive, gateVars>>

(* send() is done: the promise is awaited now, and may have its answer.     *)
SendDone(r) ==
  /\ caller[r] = "closing"
  /\ caller' = [caller EXCEPT ![r] = IF promise[r] = "resolved" THEN "returned" ELSE "waiting"]
  /\ UNCHANGED <<pendingRequests, promise, delivered, answered, answers, emitted,
                 alive, gateVars>>

(* Any await of send() throws, and request() with it: the entry, its timer *)
(* and the promise stay behind.                                            *)
SendFails(r) ==
  /\ caller[r] \in Sending
  /\ caller' = [caller EXCEPT ![r] = "sendFailed"]
  /\ UNCHANGED <<pendingRequests, promise, delivered, answered, answers, emitted,
                 alive, gateVars>>

(* Mutant of Reject: a rejection that nobody awaits is swallowed. *)
RejectSwallowed(rs, error) ==
  /\ promise' = [r \in Requests |-> IF r \in rs THEN "rejected" ELSE promise[r]]
  /\ caller' = [r \in Requests |->
                  IF r \in rs /\ caller[r] = "waiting" THEN error ELSE caller[r]]
  /\ alive' = alive

(* A rejection reaches the callers that await the promise. One that nobody *)
(* awaits is an unhandled rejection, which ends a Node.js process.         *)
Reject(rs, error) ==
  /\ promise' = [r \in Requests |-> IF r \in rs THEN "rejected" ELSE promise[r]]
  /\ caller' = [r \in Requests |->
                  IF r \in rs /\ caller[r] = "waiting" THEN error ELSE caller[r]]
  /\ alive' = \A r \in rs : caller[r] = "waiting"

(* Mutant of Timeout: the entry stays in the Map. *)
TimeoutKeepsEntry(r) ==
  /\ r \in pendingRequests
  /\ Reject({r}, "timedOut")
  /\ UNCHANGED <<pendingRequests, delivered, answered, answers, emitted, gateVars>>

(* The timer of an entry fires. *)
Timeout(r) ==
  /\ r \in pendingRequests
  /\ pendingRequests' = pendingRequests \ {r}
  /\ Reject({r}, "timedOut")
  /\ UNCHANGED <<delivered, answered, answers, emitted, gateVars>>

(* stop(): clears every timer, rejects every promise, empties the Map. *)
Stop ==
  /\ pendingRequests' = {}
  /\ Reject(pendingRequests, "stopped")
  /\ UNCHANGED <<delivered, answered, answers, emitted, gateVars>>

(* The peer, running the same code, calls respond() on a request it got. *)
Respond(r) ==
  /\ r \in delivered
  /\ answered[r] < MaxAnswers
  /\ answered' = [answered EXCEPT ![r] = @ + 1]
  /\ answers' = [answers EXCEPT ![r] = @ + 1]
  /\ UNCHANGED <<pendingRequests, promise, caller, delivered, emitted, alive, gateVars>>

(* Mutant of Resolve: it also settles a call that has thrown. *)
ResolveSettled(r) ==
  /\ pendingRequests' = pendingRequests \ {r}
  /\ promise' = [promise EXCEPT ![r] = "resolved"]
  /\ caller' = [caller EXCEPT ![r] = IF @ \in Sending THEN @ ELSE "returned"]
  /\ UNCHANGED emitted

(* An answer the limiter admits goes to the caller while the entry is       *)
(* there, also to a caller whose send is still under way or has failed.     *)
Resolve(r) ==
  /\ pendingRequests' = pendingRequests \ {r}
  /\ promise' = [promise EXCEPT ![r] = "resolved"]
  /\ caller' = [caller EXCEPT ![r] = IF @ = "waiting" THEN "returned" ELSE @]
  /\ UNCHANGED emitted

(* Else, when the entry is gone or was never there, to the listeners.       *)
Emit(r) ==
  /\ emitted' = [emitted EXCEPT ![r] = @ + 1]
  /\ UNCHANGED <<pendingRequests, promise, caller>>

(* The inbound handler on an answer, which counts against the peer's quota. *)
ReceiveAnswer(r) ==
  /\ answers[r] > 0
  /\ answers' = [answers EXCEPT ![r] = @ - 1]
  /\ \/ /\ Gate!Admit(Target[r])
        /\ IF r \in pendingRequests THEN Resolve(r) ELSE Emit(r)
     \/ /\ Gate!Refuse(Target[r]) \/ Gate!RefuseSize(Target[r])
        /\ UNCHANGED <<pendingRequests, promise, caller, emitted>>
  /\ UNCHANGED <<delivered, answered, alive>>

(* The inbound handler on any other message of a peer. *)
ReceiveOther(p) ==
  /\ Gate!Admit(p) \/ Gate!Refuse(p) \/ Gate!RefuseSize(p)
  /\ UNCHANGED handlerVars

Tick == Gate!Tick /\ UNCHANGED handlerVars

RequestStep(r) ==
  \/ Request(r) \/ Dialed(r) \/ StreamOpened(r) \/ SendDone(r) \/ SendFails(r)
  \/ Timeout(r) \/ Respond(r) \/ ReceiveAnswer(r)

Next ==
  /\ alive
  /\ \/ \E r \in Requests : RequestStep(r)
     \/ \E p \in Peers : ReceiveOther(p)
     \/ Stop
     \/ Tick

Spec == Init /\ [][Next]_vars

(* libp2p ends every dial, stream opening and close, well or badly, and the *)
(* event loop runs every timer. Nothing is asked of the peer.               *)
Fairness ==
  \A r \in Requests :
    /\ WF_vars(alive /\ (Dialed(r) \/ StreamOpened(r) \/ SendDone(r) \/ SendFails(r)))
    /\ WF_vars(alive /\ Timeout(r))

FairSpec == Spec /\ Fairness

----------------------------------------------------------------------------

(* The Map holds exactly the promises that are not settled, and a caller    *)
(* that waits has its entry there: no promise is settled twice, and nobody  *)
(* waits for one that no timer will end (handler.ts:110-117, 224-237).      *)
EntryMatchesPromise ==
  \A r \in Requests :
    /\ r \in pendingRequests <=> promise[r] = "open"
    /\ caller[r] = "waiting" => r \in pendingRequests

(* The process goes down only on a request whose entry outlived a failed    *)
(* send, or whose send outlived the timer or stop(); every other rejection  *)
(* is thrown to a caller (handler.ts:224-237, 289-299).                     *)
OnlyOrphansKill ==
  /\ alive => \A r \in Requests :
       promise[r] = "rejected" => caller[r] \in {"timedOut", "stopped"}
  /\ ~alive => \E r \in Requests :
       promise[r] = "rejected" /\ caller[r] \in Sending \cup {"sendFailed"}

(* An answer reaches the general listeners only when its request is over:   *)
(* one that comes before send() has returned is not missed                  *)
(* (handler.ts:110-125, and the order of 224-234).                          *)
OnlyLateAnswersEmitted ==
  \A r \in Requests : emitted[r] > 0 => promise[r] \in {"resolved", "rejected"}

Abstract == INSTANCE RequestReply WITH
  outcome <- [r \in Requests |->
                IF caller[r] = "idle" THEN "none"
                ELSE IF caller[r] = "returned" THEN "reply"
                ELSE IF caller[r] \in Errors THEN "error" ELSE "asked"],
  replied <- {r \in Requests : answered[r] > 0},
  up <- alive

(* Every request() ends once, and in a reply only if the peer replied,      *)
(* whatever the order of the send, the answers, the timer and stop()        *)
(* (handler.ts:71-131, 209-239, 289-301).                                   *)
ImplementsRequestReply == Abstract!Spec

(* No caller hangs: a request() ends, unless the process does, even when    *)
(* the peer never answers or the limiter drops the answer                   *)
(* (handler.ts:102-107, 224-237).                                           *)
EveryRequestSettles ==
  \A r \in Requests :
    (caller[r] \in Sending \cup {"waiting"}) ~> (caller[r] \in Settled \/ ~alive)

=============================================================================
