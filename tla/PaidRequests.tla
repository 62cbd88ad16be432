---------------------------- MODULE PaidRequests ---------------------------
(***************************************************************************)
(* Requests that carry a payment: every update of a PaymentChannel goes    *)
(* out in a message of its own, and the other end looks at it only if the  *)
(* message gets through the gate of ReplayProtection. That order is the    *)
(* one the two files are made for (validation.ts, replay-protection.ts,    *)
(* state-machine.ts); the caller that puts them together is not in this    *)
(* repository.                                                             *)
(***************************************************************************)
EXTENDS PaymentChannel, ReplayProtection

vars == <<channelVars, gateVars>>

IdOf(m) == <<m.from, m.seq>>

ASSUME IdAssumption == Id = Party \X (1 .. MaxSeq)

TypeOK == ChannelTypeOK /\ GateTypeOK

Init == ChannelInit /\ GateInit

(* createMessage(): a new id and the time of the sender's clock. *)
SendPaid(p, amount) ==
  /\ Pay(p, amount)
  /\ Stamp(<<p, seq[p] + 1>>)

(* The message got through: its payment is stored, or refused as stale.     *)
ReceivePaid(p, m) ==
  /\ m.type = "update" /\ m.from = Other(p)
  /\ ValidPayment(m)
  /\ Pass(IdOf(m))
  /\ IF Acceptable(p, m) THEN AcceptUpdate(p, m) ELSE UNCHANGED channelVars

Next ==
  \/ (Opening \/ Closing) /\ UNCHANGED gateVars
  \/ \E p \in Party, amount \in Amounts : SendPaid(p, amount)
  \/ \E p \in Party, m \in net : ReceivePaid(p, m)
  \/ (Sweep \/ Clear \/ Tick) /\ UNCHANGED channelVars

Spec == Init /\ [][Next]_vars

=============================================================================
