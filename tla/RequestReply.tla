---------------------------- MODULE RequestReply ---------------------------
(***************************************************************************)
(* What a caller of request() is promised: each request it makes ends      *)
(* once, in a reply only if the peer gave one, else in an error; or the    *)
(* process goes down before it ends.                                       *)
(***************************************************************************)
CONSTANT Requests

VARIABLES
  outcome,   \* what each request has come to
  replied,   \* the requests the peer has answered at least once
  up         \* is the process alive

replyVars == <<outcome, replied, up>>

Init ==
  /\ outcome = [r \in Requests |-> "none"]
  /\ replied = {}
  /\ up = TRUE

Ask(r) ==
  /\ outcome[r] = "none"
  /\ outcome' = [outcome EXCEPT ![r] = "asked"]
  /\ UNCHANGED <<replied, up>>

Reply(r) ==
  /\ outcome[r] # "none"
  /\ replied' = replied \cup {r}
  /\ UNCHANGED <<outcome, up>>

Return(r) ==
  /\ outcome[r] = "asked"
  /\ r \in replied
  /\ outcome' = [outcome EXCEPT ![r] = "reply"]
  /\ UNCHANGED <<replied, up>>

(* Stopping fails any number of requests at once. *)
Fail(failing) ==
  /\ \A r \in failing : outcome[r] = "asked"
  /\ outcome' = [r \in Requests |-> IF r \in failing THEN "error" ELSE outcome[r]]
  /\ UNCHANGED replied

Next ==
  /\ up
  /\ \/ \E r \in Requests : Ask(r) \/ Reply(r) \/ Return(r)
     \/ \E failing \in SUBSET Requests : Fail(failing) /\ up' \in BOOLEAN

Spec == Init /\ [][Next]_replyVars

=============================================================================
