----------------------------- MODULE QuotaGate -----------------------------
(***************************************************************************)
(* What the rate limiter promises, without the Map it keeps or the timer   *)
(* that sweeps it: every key (a peer, and the kind of traffic counted) has *)
(* a quota that starts to run at the first message admitted, lasts Window  *)
(* ticks, and is then whole again.                                         *)
(***************************************************************************)
EXTENDS Naturals

CONSTANTS
  Key,      \* what is counted: one key per kind of traffic and peer
  Limit,    \* messages a key may spend while its quota runs
  Window    \* ticks a quota runs

VARIABLES
  spent,    \* what a running quota has spent, 0 when none runs
  age,      \* ticks a quota has run, Window + 1 when none runs
  verdict   \* the last answer given, and the key it was given to

gateVars == <<spent, age, verdict>>

Running(k) == age[k] <= Window[k]

Init ==
  /\ spent = [k \in Key |-> 0]
  /\ age = [k \in Key |-> Window[k] + 1]
  /\ verdict \in [key : Key, answer : {"within"}]

(* A message within the quota, which starts a quota when none runs. *)
Admit(k) ==
  /\ Running(k) => spent[k] < Limit[k]
  /\ spent' = [spent EXCEPT ![k] = IF Running(k) THEN @ + 1 ELSE 1]
  /\ age' = [age EXCEPT ![k] = IF Running(k) THEN @ ELSE 0]
  /\ verdict' = [key |-> k, answer |-> "within"]

(* A message over the quota spends nothing, and does not prolong it. *)
Refuse(k) ==
  /\ Running(k) /\ spent[k] = Limit[k]
  /\ verdict' = [key |-> k, answer |-> "over"]
  /\ UNCHANGED <<spent, age>>

(* A message too large for any quota. *)
RefuseSize(k) ==
  /\ verdict' = [key |-> k, answer |-> "oversized"]
  /\ UNCHANGED <<spent, age>>

(* Time passes for every quota; one that has run its Window is over. *)
Tick ==
  /\ age' = [k \in Key |-> IF Running(k) THEN age[k] + 1 ELSE age[k]]
  /\ spent' = [k \in Key |-> IF age'[k] <= Window[k] THEN spent[k] ELSE 0]
  /\ UNCHANGED verdict

(* Every count is forgotten at once. *)
Clear ==
  /\ spent' = [k \in Key |-> 0]
  /\ age' = [k \in Key |-> Window[k] + 1]
  /\ UNCHANGED verdict

Next ==
  \/ \E k \in Key : Admit(k) \/ Refuse(k) \/ RefuseSize(k)
  \/ Tick
  \/ Clear

Spec == Init /\ [][Next]_gateVars

=============================================================================
