-------------------------- MODULE ReplayProtection -------------------------
(***************************************************************************)
(* What stands between a message that arrives and its handler, in          *)
(* messages/: validateMessage(), as far as the timestamp goes, and         *)
(* checkAndMark() of ReplayProtection, with the sweep that forgets ids.    *)
(* Every copy of a message is the same id with the same timestamp; the     *)
(* network may deliver it at any time, and as often as it likes.           *)
(***************************************************************************)
EXTENDS Integers

CONSTANTS
  Id,         \* ids of messages
  MaxAge,     \* maxAge, 5 minutes in the code
  MaxFuture,  \* maxFuture, 30 seconds
  Retention,  \* retentionTime, 10 minutes
  Skew,       \* by how much a sender's clock may be off
  MaxTime     \* bound: the clock stops here

ASSUME ReplayAssumption ==
  /\ {MaxAge, MaxFuture, Retention, MaxTime} \subseteq Nat
  /\ Retention >= MaxAge + MaxFuture
  /\ Skew \subseteq Int

VARIABLES
  now,     \* Date.now() of the receiver
  stamp,   \* the timestamp in a message, or Never
  seen,    \* seenMessages: when an id was marked, or Never
  passed   \* history: how often a message got through since the last clear()

gateVars == <<now, stamp, seen, passed>>

Never == -1

GateTypeOK ==
  /\ now \in 0 .. MaxTime
  /\ stamp \in [Id -> Nat \union {Never}]
  /\ seen \in [Id -> 0 .. MaxTime \union {Never}]
  /\ passed \in [Id -> Nat]

GateInit ==
  /\ now = 0
  /\ stamp = [i \in Id |-> Never]
  /\ seen = [i \in Id |-> Never]
  /\ passed = [i \in Id |-> 0]

(* A message is made, by a clock that is s off. *)
Stamp(i) ==
  /\ stamp[i] = Never
  /\ \E s \in Skew : now + s >= 0 /\ stamp' = [stamp EXCEPT ![i] = now + s]
  /\ UNCHANGED <<now, seen, passed>>

(* validateMessage(): neither too old nor too far in the future. *)
InTime(i) ==
  /\ stamp[i] # Never
  /\ stamp[i] >= now - MaxAge
  /\ stamp[i] <= now + MaxFuture

(* checkAndMark() of an id that was not seen before: not a replay. *)
Pass(i) ==
  /\ InTime(i)
  /\ seen[i] = Never
  /\ seen' = [seen EXCEPT ![i] = now]
  /\ passed' = [passed EXCEPT ![i] = @ + 1]
  /\ UNCHANGED <<now, stamp>>

(* Mutant of Forgotten: an id is forgotten by the next sweep. *)
ForgottenAtOnce == {i \in Id : seen[i] < now}

(* cleanup() forgets an id when its retention is over. *)
Forgotten == {i \in Id : seen[i] < now - Retention}

(* The interval, which start() may or may not have set. *)
Sweep ==
  /\ seen' = [i \in Id |-> IF i \in Forgotten THEN Never ELSE seen[i]]
  /\ UNCHANGED <<now, stamp, passed>>

(* clear(), or a restart: the Map is only in memory. *)
Clear ==
  /\ seen' = [i \in Id |-> Never]
  /\ passed' = [i \in Id |-> 0]
  /\ UNCHANGED <<now, stamp>>

Tick ==
  /\ now < MaxTime
  /\ now' = now + 1
  /\ UNCHANGED <<stamp, seen, passed>>

GateNext ==
  \/ \E i \in Id : Stamp(i) \/ Pass(i)
  \/ Sweep \/ Clear \/ Tick

GateSpec == GateInit /\ [][GateNext]_gateVars

----------------------------------------------------------------------------

(* No copy of a message gets through twice, however late it comes: by the   *)
(* time the sweep forgets an id the timestamp is too old                    *)
(* (replay-protection.ts:53-89, validation.ts:41-53).                       *)
NoReplay == \A i \in Id : passed[i] <= 1

=============================================================================
