---------------------------- MODULE RateLimiter ----------------------------
(***************************************************************************)
(* daemon/rate-limiter.ts: a fixed window per peer for messages and one    *)
(* for payment requests, a cap on the size of a message, and an interval   *)
(* that sweeps the windows nobody uses.                                    *)
(*                                                                         *)
(* The two Maps are one function over Key (a pair of the Map and the peer).*)
(* A window keeps its age, now - first...At, in place of first...At: the   *)
(* code only ever compares that difference with windowMs and 2 * windowMs, *)
(* so the age stops counting at AgeCap, past both.                         *)
(***************************************************************************)
EXTENDS Naturals

CONSTANTS
  Key,             \* entries the two Maps may hold: (kind of traffic, peer)
  Sized,           \* the keys of checkMessage, which also looks at the size
  Limit,           \* maxMessagesPerWindow, maxPaymentRequestsPerWindow
  Window,          \* windowMs, paymentWindowMs
  RejectOnLimit,   \* rejectOnLimit: refuse, or only warn
  MaxViolations    \* violations kept (1000 in the code)

ASSUME LimiterAssumption ==
  /\ Sized \subseteq Key
  /\ Limit \in [Key -> Nat \ {0}]
  /\ Window \in [Key -> Nat \ {0}]
  /\ RejectOnLimit \in BOOLEAN
  /\ MaxViolations \in Nat \ {0}

VARIABLES
  windows,        \* messageWindows and paymentWindows
  violations,     \* how many violations the list holds
  cleanupTimer,   \* is the sweeping interval set
  verdict         \* what the last check found, and for which key

vars == <<windows, violations, cleanupTimer, verdict>>

Answer == {"within", "over", "oversized"}

AgeCap(k) == 2 * Window[k] + 1

(* No entry in the Map. An entry counts the message that created it. *)
NoWindow == [count |-> 0, age |-> 0]

Tracked(k) == windows[k].count > 0

TypeOK ==
  /\ windows \in [Key -> [count : Nat, age : Nat]]
  /\ \A k \in Key : /\ windows[k].count \in 0 .. Limit[k]
                    /\ windows[k].age \in 0 .. AgeCap(k)
                    /\ ~Tracked(k) => windows[k] = NoWindow
  /\ violations \in 0 .. MaxViolations
  /\ cleanupTimer \in BOOLEAN
  /\ verdict \in [key : Key, answer : Answer]

Init ==
  /\ windows = [k \in Key |-> NoWindow]
  /\ violations = 0
  /\ cleanupTimer = TRUE
  /\ verdict \in [key : Key, answer : {"within"}]

----------------------------------------------------------------------------

Expired(k) == windows[k].age > Window[k]

(* recordViolation: the list keeps the newest MaxViolations. *)
RecordViolation ==
  violations' = IF violations < MaxViolations THEN violations + 1 ELSE violations

(* Mutant of Admit: the limit is compared with <=. *)
AdmitOneMore(k) ==
  /\ \/ /\ ~Tracked(k) \/ Expired(k)
        /\ windows' = [windows EXCEPT ![k] = [count |-> 1, age |-> 0]]
     \/ /\ Tracked(k) /\ ~Expired(k)
        /\ windows[k].count <= Limit[k]
        /\ windows' = [windows EXCEPT ![k].count = @ + 1]
  /\ verdict' = [key |-> k, answer |-> "within"]
  /\ UNCHANGED <<violations, cleanupTimer>>

(* checkMessage and checkPaymentRequest when the answer is yes: no window, *)
(* a window that has expired and starts again, or one with room.           *)
Admit(k) ==
  /\ \/ /\ ~Tracked(k) \/ Expired(k)
        /\ windows' = [windows EXCEPT ![k] = [count |-> 1, age |-> 0]]
     \/ /\ Tracked(k) /\ ~Expired(k)
        /\ windows[k].count < Limit[k]
        /\ windows' = [windows EXCEPT ![k].count = @ + 1]
  /\ verdict' = [key |-> k, answer |-> "within"]
  /\ UNCHANGED <<violations, cleanupTimer>>

(* Mutant of Refuse: a refusal starts the window again. *)
RefuseSliding(k) ==
  /\ Tracked(k) /\ ~Expired(k)
  /\ windows[k].count >= Limit[k]
  /\ RecordViolation
  /\ verdict' = [key |-> k, answer |-> "over"]
  /\ windows' = [windows EXCEPT ![k].age = 0]
  /\ UNCHANGED cleanupTimer

(* checkMessage and checkPaymentRequest at the limit. *)
Refuse(k) ==
  /\ Tracked(k) /\ ~Expired(k)
  /\ windows[k].count >= Limit[k]
  /\ RecordViolation
  /\ verdict' = [key |-> k, answer |-> "over"]
  /\ UNCHANGED <<windows, cleanupTimer>>

(* checkMessage on a message over maxMessageSize: no window is touched. *)
RefuseSize(k) ==
  /\ k \in Sized
  /\ RecordViolation
  /\ verdict' = [key |-> k, answer |-> "oversized"]
  /\ UNCHANGED <<windows, cleanupTimer>>

(* What the two checks return: at a limit they refuse, or only warn. *)
Returned == verdict.answer = "within" \/ ~RejectOnLimit

(* Mutant of Cleanup: it drops windows that are half over. *)
CleanupEarly ==
  /\ cleanupTimer
  /\ windows' = [k \in Key |-> IF Tracked(k) /\ 2 * windows[k].age > Window[k]
                               THEN NoWindow ELSE windows[k]]
  /\ UNCHANGED <<violations, cleanupTimer, verdict>>

(* cleanup: the interval drops the windows twice as old as they may get. *)
Cleanup ==
  /\ cleanupTimer
  /\ windows' = [k \in Key |-> IF windows[k].age > 2 * Window[k]
                               THEN NoWindow ELSE windows[k]]
  /\ UNCHANGED <<violations, cleanupTimer, verdict>>

Clear ==
  /\ windows' = [k \in Key |-> NoWindow]
  /\ violations' = 0
  /\ UNCHANGED <<cleanupTimer, verdict>>

(* stop clears the interval; the checks go on working. *)
Stop ==
  /\ cleanupTimer' = FALSE
  /\ UNCHANGED <<windows, violations, verdict>>

(* Date.now() advances by one tick. *)
Tick ==
  /\ windows' = [k \in Key |->
                   IF Tracked(k) /\ windows[k].age < AgeCap(k)
                   THEN [windows[k] EXCEPT !.age = @ + 1] ELSE windows[k]]
  /\ UNCHANGED <<violations, cleanupTimer, verdict>>

Next ==
  \/ \E k \in Key : Admit(k) \/ Refuse(k) \/ RefuseSize(k)
  \/ Cleanup
  \/ Clear
  \/ Stop
  \/ Tick

Spec == Init /\ [][Next]_vars

----------------------------------------------------------------------------

(* The quota a window stands for: it runs while its window has not expired, *)
(* whether or not an expired window is still in the Map.                    *)
Runs(k) == Tracked(k) /\ ~Expired(k)

SpentOf(k) == IF Runs(k) THEN windows[k].count ELSE 0

AgeOf(k) == IF Runs(k) THEN windows[k].age ELSE Window[k] + 1

Gate == INSTANCE QuotaGate WITH
  spent <- [k \in Key |-> SpentOf(k)],
  age   <- [k \in Key |-> AgeOf(k)]

(* The limiter is a quota per key: what the Map still holds, and when the   *)
(* sweep runs, never shows in an answer (rate-limiter.ts:84-160, 285-308).  *)
ImplementsGate == Gate!Spec

(* A peer that used up its window is served again however often it is       *)
(* refused meanwhile: a refusal does not push the window forward            *)
(* (rate-limiter.ts:104-117).                                               *)
BlockedPeerRecovers ==
  \A k \in Key :
    (Runs(k) /\ windows[k].count = Limit[k]) ~> ~(Runs(k) /\ windows[k].count = Limit[k])

=============================================================================
