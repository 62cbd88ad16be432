----------------------- MODULE MessageHandler_proofs -----------------------
(***************************************************************************)
(* The safety invariants of the message handler, and that it implements    *)
(* RequestReply, for every set of requests and peers and every quota.      *)
(***************************************************************************)
EXTENDS MessageHandler, TLAPS

(* How far a request, its promise and its answers may be apart: what makes  *)
(* the invariants inductive.                                                *)
RequestProgress ==
  \A r \in Requests :
    /\ caller[r] = "idle" <=> promise[r] = "none"
    /\ caller[r] = "returned" => promise[r] = "resolved"
    /\ caller[r] \in {"timedOut", "stopped"} => promise[r] = "rejected"
    /\ r \in delivered => caller[r] # "idle"
    /\ answered[r] > 0 => r \in delivered
    /\ answers[r] + emitted[r] <= answered[r]
    /\ promise[r] = "resolved" => answered[r] > 0

IInv ==
  /\ TypeOK
  /\ EntryMatchesPromise
  /\ OnlyOrphansKill
  /\ OnlyLateAnswersEmitted
  /\ RequestProgress

LEMMA InitIInv == Init => IInv
  BY HandlerAssumption
  DEF Init, IInv, TypeOK, EntryMatchesPromise, OnlyOrphansKill,
      OnlyLateAnswersEmitted, RequestProgress, Sending, Settled, Errors

(* The cases in which an entry is taken out by a rejection: its timer fires *)
(* or stop() runs (handler.ts:225-228, 294-298).                            *)
LEMMA RejectPreservesIInv ==
  ASSUME IInv, alive, NEW rs \in SUBSET pendingRequests,
         NEW error \in {"timedOut", "stopped"},
         Reject(rs, error), pendingRequests' = pendingRequests \ rs,
         UNCHANGED <<delivered, answered, answers, emitted>>
  PROVE  IInv'
<1> USE DEF IInv, Reject, Sending, Settled, Errors
<1>1. TypeOK'
  BY DEF TypeOK
<1>2. EntryMatchesPromise'
  BY DEF TypeOK, EntryMatchesPromise
<1>3. OnlyOrphansKill'
  <2>1. CASE \A r \in rs : caller[r] = "waiting"
    BY <2>1 DEF TypeOK, OnlyOrphansKill
  <2>2. CASE \E r \in rs : caller[r] # "waiting"
    <3>1. PICK r \in rs : caller[r] # "waiting"
      BY <2>2
    <3>2. r \in Requests /\ promise[r] = "open"
      BY DEF TypeOK, EntryMatchesPromise
    <3>3. caller[r] \in Sending \cup {"sendFailed"}
      BY <3>1, <3>2 DEF TypeOK, OnlyOrphansKill, RequestProgress
    <3>4. caller'[r] = caller[r] /\ promise'[r] = "rejected" /\ ~alive'
      BY <3>1, <3>2 DEF TypeOK
    <3>5. QED
      BY <3>2, <3>3, <3>4 DEF OnlyOrphansKill
  <2>3. QED
    BY <2>1, <2>2
<1>4. OnlyLateAnswersEmitted'
  BY DEF TypeOK, OnlyLateAnswersEmitted
<1>5. RequestProgress'
  BY DEF TypeOK, EntryMatchesPromise, RequestProgress
<1>6. QED
  BY <1>1, <1>2, <1>3, <1>4, <1>5

LEMMA StepIInv == IInv /\ [Next]_vars => IInv'
<1> SUFFICES ASSUME IInv, [Next]_vars PROVE IInv'
  OBVIOUS
<1> USE HandlerAssumption
<1>1. ASSUME alive, NEW r \in Requests, Request(r) PROVE IInv'
  BY <1>1 DEF Request, IInv, TypeOK, EntryMatchesPromise, OnlyOrphansKill,
              OnlyLateAnswersEmitted, RequestProgress, Sending, Settled, Errors
<1>2. ASSUME alive, NEW r \in Requests, Dialed(r) PROVE IInv'
  BY <1>2 DEF Dialed, IInv, TypeOK, EntryMatchesPromise, OnlyOrphansKill,
              OnlyLateAnswersEmitted, RequestProgress, Sending, Settled, Errors
<1>3. ASSUME alive, NEW r \in Requests, StreamOpened(r) PROVE IInv'
  BY <1>3 DEF StreamOpened, IInv, TypeOK, EntryMatchesPromise, OnlyOrphansKill,
              OnlyLateAnswersEmitted, RequestProgress, Sending, Settled, Errors
<1>4. ASSUME alive, NEW r \in Requests, SendDone(r) PROVE IInv'
  BY <1>4 DEF SendDone, IInv, TypeOK, EntryMatchesPromise, OnlyOrphansKill,
              OnlyLateAnswersEmitted, RequestProgress, Sending, Settled, Errors
<1>5. ASSUME alive, NEW r \in Requests, SendFails(r) PROVE IInv'
  BY <1>5 DEF SendFails, IInv, TypeOK, EntryMatchesPromise, OnlyOrphansKill,
              OnlyLateAnswersEmitted, RequestProgress, Sending, Settled, Errors
<1>6. ASSUME alive, NEW r \in Requests, Timeout(r) PROVE IInv'
  <2>1. {r} \in SUBSET pendingRequests
    BY <1>6 DEF Timeout
  <2>2. QED
    BY <1>6, <2>1, RejectPreservesIInv DEF Timeout
<1>7. ASSUME alive, Stop PROVE IInv'
  <2>1. pendingRequests' = pendingRequests \ pendingRequests
    BY <1>7 DEF Stop
  <2>2. QED
    BY <1>7, <2>1, RejectPreservesIInv DEF Stop
<1>8. ASSUME alive, NEW r \in Requests, Respond(r) PROVE IInv'
  BY <1>8 DEF Respond, IInv, TypeOK, EntryMatchesPromise, OnlyOrphansKill,
              OnlyLateAnswersEmitted, RequestProgress
<1>9. ASSUME alive, NEW r \in Requests, ReceiveAnswer(r) PROVE IInv'
  <2>1. CASE r \in pendingRequests /\ Resolve(r)
    BY <1>9, <2>1
    DEF ReceiveAnswer, Resolve, IInv, TypeOK, EntryMatchesPromise, OnlyOrphansKill,
        OnlyLateAnswersEmitted, RequestProgress, Sending, Settled, Errors
  <2>2. CASE r \notin pendingRequests /\ Emit(r)
    BY <1>9, <2>2
    DEF ReceiveAnswer, Emit, IInv, TypeOK, EntryMatchesPromise, OnlyOrphansKill,
        OnlyLateAnswersEmitted, RequestProgress
  <2>3. CASE UNCHANGED <<pendingRequests, promise, caller, emitted>>
    BY <1>9, <2>3
    DEF ReceiveAnswer, IInv, TypeOK, EntryMatchesPromise, OnlyOrphansKill,
        OnlyLateAnswersEmitted, RequestProgress
  <2>4. QED
    BY <1>9, <2>1, <2>2, <2>3 DEF ReceiveAnswer
<1>10. CASE UNCHANGED handlerVars
  BY <1>10 DEF handlerVars, IInv, TypeOK, EntryMatchesPromise, OnlyOrphansKill,
               OnlyLateAnswersEmitted, RequestProgress
<1>11. QED
  BY <1>1, <1>2, <1>3, <1>4, <1>5, <1>6, <1>7, <1>8, <1>9, <1>10
  DEF Next, RequestStep, ReceiveOther, Tick, vars, handlerVars

LEMMA InvariantIInv == Spec => []IInv
  BY InitIInv, StepIInv, PTL DEF Spec

THEOREM TypeCorrect == Spec => []TypeOK
<1>1. IInv => TypeOK
  BY DEF IInv
<1>2. QED
  BY <1>1, InvariantIInv, PTL

(* Each entry of pendingRequests is an unsettled promise, and the other way *)
(* round (handler.ts:110-117, 224-237, 294-298).                            *)
THEOREM EntriesArePromises == Spec => []EntryMatchesPromise
<1>1. IInv => EntryMatchesPromise
  BY DEF IInv
<1>2. QED
  BY <1>1, InvariantIInv, PTL

(* The only way request() ends the process is an entry whose call is not    *)
(* waiting (handler.ts:224-237).                                            *)
THEOREM OrphansAloneKill == Spec => []OnlyOrphansKill
<1>1. IInv => OnlyOrphansKill
  BY DEF IInv
<1>2. QED
  BY <1>1, InvariantIInv, PTL

(* No answer is passed to the listeners while its request is open           *)
(* (handler.ts:110-125).                                                    *)
THEOREM LateAnswersAlone == Spec => []OnlyLateAnswersEmitted
<1>1. IInv => OnlyLateAnswersEmitted
  BY DEF IInv
<1>2. QED
  BY <1>1, InvariantIInv, PTL

----------------------------------------------------------------------------

(* A step that leaves the calls, the answers given and the process as they  *)
(* are leaves the abstract state as it is.                                  *)
LEMMA CallsAlone ==
  ASSUME UNCHANGED <<caller, answered, alive>>
  PROVE  UNCHANGED Abstract!replyVars
  BY DEF Abstract!replyVars

(* ImplementsRequestReply for every value of the constants.                 *)
THEOREM HandlerImplementsRequestReply == Spec => ImplementsRequestReply
<1> USE HandlerAssumption
<1>1. Init => Abstract!Init
  BY DEF Init, Abstract!Init
<1>2. IInv /\ [Next]_vars => [Abstract!Next]_Abstract!replyVars
  <2> SUFFICES ASSUME IInv, [Next]_vars
               PROVE  [Abstract!Next]_Abstract!replyVars
    OBVIOUS
  <2> USE DEF IInv, TypeOK, Sending, Settled, Errors
  <2>1. ASSUME alive, NEW r \in Requests, Request(r) PROVE Abstract!Next
    <3>1. Abstract!Ask(r)
      BY <2>1 DEF Request, Abstract!Ask
    <3>2. QED
      BY <2>1, <3>1 DEF Abstract!Next
  <2>2. ASSUME alive, NEW r \in Requests, Dialed(r) \/ StreamOpened(r)
        PROVE  UNCHANGED Abstract!replyVars
    BY <2>2 DEF Dialed, StreamOpened, Abstract!replyVars
  <2>3. ASSUME alive, NEW r \in Requests, SendDone(r)
        PROVE  [Abstract!Next]_Abstract!replyVars
    <3>1. CASE promise[r] = "resolved"
      <4>1. Abstract!Return(r)
        BY <2>3, <3>1 DEF SendDone, RequestProgress, Abstract!Return
      <4>2. QED
        BY <2>3, <4>1 DEF Abstract!Next
    <3>2. CASE promise[r] # "resolved"
      BY <2>3, <3>2 DEF SendDone, Abstract!replyVars
    <3>3. QED
      BY <3>1, <3>2
  <2>4. ASSUME alive, NEW r \in Requests, SendFails(r) PROVE Abstract!Next
    <3>1. Abstract!Fail({r}) /\ alive' = alive
      BY <2>4 DEF SendFails, Abstract!Fail
    <3>2. QED
      BY <2>4, <3>1 DEF Abstract!Next
  <2>5. ASSUME alive, NEW rs \in SUBSET Requests, NEW error \in {"timedOut", "stopped"},
               Reject(rs, error), UNCHANGED answered
        PROVE  Abstract!Next
    <3>1. PICK failing \in SUBSET Requests : failing = {r \in rs : caller[r] = "waiting"}
      BY <2>5
    <3>2. Abstract!Fail(failing)
      BY <2>5, <3>1 DEF Reject, Abstract!Fail
    <3>3. alive' \in BOOLEAN
      BY <2>5 DEF Reject
    <3>4. QED
      BY <2>5, <3>2, <3>3 DEF Abstract!Next
  <2>6. ASSUME alive, NEW r \in Requests, Timeout(r) PROVE Abstract!Next
    BY <2>5, <2>6 DEF Timeout
  <2>7. ASSUME alive, Stop PROVE Abstract!Next
    BY <2>5, <2>7 DEF Stop
  <2>8. ASSUME alive, NEW r \in Requests, Respond(r) PROVE Abstract!Next
    <3>1. Abstract!Reply(r)
      BY <2>8 DEF Respond, RequestProgress, Abstract!Reply
    <3>2. QED
      BY <2>8, <3>1 DEF Abstract!Next
  <2>9. ASSUME alive, NEW r \in Requests, ReceiveAnswer(r)
        PROVE  [Abstract!Next]_Abstract!replyVars
    <3>1. CASE Resolve(r) /\ caller[r] = "waiting"
      <4>1. answered[r] > 0 /\ UNCHANGED <<answered, alive>>
        BY <2>9 DEF ReceiveAnswer, RequestProgress
      <4>2. caller' = [caller EXCEPT ![r] = "returned"]
        BY <3>1 DEF Resolve
      <4>3. Abstract!Return(r)
        BY <3>1, <4>1, <4>2 DEF Abstract!Return
      <4>4. QED
        BY <2>9, <4>3 DEF Abstract!Next
    <3>2. CASE UNCHANGED caller
      BY <2>9, <3>2, CallsAlone DEF ReceiveAnswer
    <3>3. QED
      BY <2>9, <3>1, <3>2 DEF ReceiveAnswer, Resolve, Emit
  <2>10. CASE UNCHANGED handlerVars
    BY <2>10, CallsAlone DEF handlerVars
  <2>11. QED
    BY <2>1, <2>2, <2>3, <2>4, <2>6, <2>7, <2>8, <2>9, <2>10
    DEF Next, RequestStep, ReceiveOther, Tick, vars
<1>3. QED
  BY <1>1, <1>2, InvariantIInv, PTL DEF Spec, ImplementsRequestReply, Abstract!Spec

=============================================================================
