--------------------------- MODULE PaymentChannel --------------------------
(***************************************************************************)
(* Two ends of a payment channel, each a Channel record that changes only  *)
(* as ChannelStateMachine allows (channels/state-machine.ts), and the      *)
(* transactions that channels/transactions.ts builds of it. Who calls the  *)
(* two is not in this repository: the caller modelled here stores what     *)
(* they accept, sends the messages of channels/types.ts and messages/      *)
(* types.ts, and signs nothing else. Messages are never taken out of the   *)
(* network: they can be lost, repeated and reordered.                      *)
(***************************************************************************)
EXTENDS Integers

CONSTANTS
  Initiator, Responder,       \* the two ends
  Capacities,                 \* capacities somebody may propose
  Amounts,                    \* what a request may be paid
  MinCapacity, MaxCapacity,   \* ChannelConfig
  Dust,                       \* 546: outputs up to it are left out
  SequenceStart,              \* SEQUENCE_START; SEQUENCE_FINAL is one more
  MaxSeq                      \* bound: updates of a channel

Party == {Initiator, Responder}

ASSUME ChannelAssumption ==
  /\ Initiator # Responder
  /\ Capacities \subseteq Nat /\ Amounts \subseteq Nat
  /\ {MinCapacity, MaxCapacity, Dust, SequenceStart, MaxSeq} \subseteq Nat
  /\ MaxSeq < SequenceStart

VARIABLES
  state,      \* Channel.state, "none" while there is no Channel
  capacity,   \* capacitySats
  local,      \* localBalanceSats
  remote,     \* remoteBalanceSats
  seq,        \* commitmentSeq
  net,        \* the messages sent
  spend,      \* the transaction that spends the funding output, if any
  settled,    \* has that transaction been confirmed
  paid,       \* history: what each end has paid
  served      \* history: what each end was paid for and served

channel == <<state, capacity, local, remote, seq>>
chain == <<spend, settled>>
ledger == <<paid, served>>
channelVars == <<channel, net, chain, ledger>>

Other(p) == IF p = Initiator THEN Responder ELSE Initiator

ValidTransitions ==
  [proposed      |-> {"accepted", "rejected", "failed"},
   accepted      |-> {"funding", "failed"},
   funding       |-> {"open", "failed"},
   open          |-> {"closing", "force_closing"},
   closing       |-> {"closed", "force_closing"},
   closed        |-> {},
   rejected      |-> {},
   failed        |-> {},
   force_closing |-> {"resolved"},
   resolved      |-> {}]

ChannelState == DOMAIN ValidTransitions

SequenceFinal == SequenceStart + 1

(* What a transaction pays each end: an output that is dust is left out. *)
Output(sats) == IF sats > Dust THEN sats ELSE 0
Payout(p, mine, theirs) ==
  [q \in Party |-> IF q = p THEN Output(mine) ELSE Output(theirs)]

NoTx == [sequence |-> -1, payout |-> [p \in Party |-> 0]]

(* Mutant of CommitmentTx: the two outputs go to the wrong ends. *)
CommitmentTxSwapped(p) == [sequence |-> SequenceStart - seq[p],
                           payout |-> Payout(p, remote[p], local[p])]

(* Mutant of CommitmentTx: a newer commitment has a higher nSequence. *)
CommitmentTxRising(p) == [sequence |-> SequenceStart - MaxSeq + seq[p],
                          payout |-> Payout(p, local[p], remote[p])]

(* buildCommitmentTx(): a newer commitment has a lower nSequence. *)
CommitmentTx(p) == [sequence |-> SequenceStart - seq[p],
                    payout |-> Payout(p, local[p], remote[p])]

(* buildSettlementTx(): the same outputs, and not replaceable. *)
SettlementTx(p) == [sequence |-> SequenceFinal, payout |-> CommitmentTx(p).payout]

Update == [type : {"update"}, from : Party, seq : Nat, amount : Nat, mine : Nat, theirs : Nat]

Message ==
  [type : {"open"}, capacity : Nat]
  \union [type : {"accept", "reject", "funded"}]
  \union [type : {"close"}, from : Party]
  \union Update

ChannelTypeOK ==
  /\ state \in [Party -> ChannelState \union {"none"}]
  /\ capacity \in [Party -> Nat]
  /\ local \in [Party -> Nat] /\ remote \in [Party -> Nat]
  /\ seq \in [Party -> 0 .. MaxSeq]
  /\ net \subseteq Message
  /\ spend \in [sequence : Int, payout : [Party -> Nat]]
  /\ settled \in BOOLEAN
  /\ paid \in [Party -> Nat] /\ served \in [Party -> Nat]

ChannelInit ==
  /\ state = [p \in Party |-> "none"]
  /\ capacity = [p \in Party |-> 0]
  /\ local = [p \in Party |-> 0] /\ remote = [p \in Party |-> 0]
  /\ seq = [p \in Party |-> 0]
  /\ net = {}
  /\ spend = NoTx /\ settled = FALSE
  /\ paid = [p \in Party |-> 0] /\ served = [p \in Party |-> 0]

----------------------------------------------------------------------------
(* Opening.                                                                 *)

CanTransition(from, to) == from \in ChannelState /\ to \in ValidTransitions[from]

(* transition(), and the caller stores the new state. *)
Transition(p, new) ==
  /\ CanTransition(state[p], new)
  /\ state' = [state EXCEPT ![p] = new]
  /\ UNCHANGED <<capacity, local, remote, seq>>

(* createProposed(): all of the capacity is the initiator's. *)
CreateProposed(p, c) ==
  /\ state[p] = "none"
  /\ c >= MinCapacity /\ c <= MaxCapacity
  /\ state' = [state EXCEPT ![p] = "proposed"]
  /\ capacity' = [capacity EXCEPT ![p] = c]
  /\ local' = [local EXCEPT ![p] = IF p = Initiator THEN c ELSE 0]
  /\ remote' = [remote EXCEPT ![p] = IF p = Initiator THEN 0 ELSE c]
  /\ UNCHANGED seq

Sends(m) == net' = net \union {m}

Propose(c) ==
  /\ CreateProposed(Initiator, c)
  /\ Sends([type |-> "open", capacity |-> c])
  /\ UNCHANGED <<chain, ledger>>

ReceiveOpen(m) ==
  /\ m.type = "open"
  /\ CreateProposed(Responder, m.capacity)
  /\ UNCHANGED <<net, chain, ledger>>

Answer(new) ==
  /\ new \in {"accepted", "rejected"}
  /\ Transition(Responder, new)
  /\ Sends([type |-> IF new = "accepted" THEN "accept" ELSE "reject"])
  /\ UNCHANGED <<chain, ledger>>

ReceiveAnswer(m) ==
  /\ m.type \in {"accept", "reject"}
  /\ Transition(Initiator, IF m.type = "accept" THEN "accepted" ELSE "rejected")
  /\ UNCHANGED <<net, chain, ledger>>

(* buildFundingTx(): the funding transaction goes out. *)
Fund ==
  /\ Transition(Initiator, "funding")
  /\ Sends([type |-> "funded"])
  /\ UNCHANGED <<chain, ledger>>

ReceiveFunded(m) ==
  /\ m.type = "funded"
  /\ Transition(Responder, "funding")
  /\ UNCHANGED <<net, chain, ledger>>

(* The funding is confirmed; each end finds that out for itself. *)
Confirm(p) ==
  /\ Transition(p, "open")
  /\ UNCHANGED <<net, chain, ledger>>

(* A timeout on the way. *)
Fail(p) ==
  /\ Transition(p, "failed")
  /\ UNCHANGED <<net, chain, ledger>>

----------------------------------------------------------------------------
(* Paying.                                                                  *)

(* Mutant of ValidUpdate: a balance may be negative. *)
ValidUpdateNegative(p, n, mine, theirs) ==
  /\ state[p] = "open"
  /\ n > seq[p]
  /\ mine + theirs = capacity[p]

(* Mutant of ValidUpdate: any sequence number will do. *)
ValidUpdateAnySeq(p, n, mine, theirs) ==
  /\ state[p] = "open"
  /\ mine + theirs = capacity[p]
  /\ mine >= 0 /\ theirs >= 0

(* validateUpdate(). *)
ValidUpdate(p, n, mine, theirs) ==
  /\ state[p] = "open"
  /\ n > seq[p]
  /\ mine + theirs = capacity[p]
  /\ mine >= 0 /\ theirs >= 0

(* The caller stores an update that is valid. *)
Store(p, n, mine, theirs) ==
  /\ seq' = [seq EXCEPT ![p] = n]
  /\ local' = [local EXCEPT ![p] = mine]
  /\ remote' = [remote EXCEPT ![p] = theirs]
  /\ UNCHANGED <<state, capacity>>

(* A request goes out with a payment in it. The payer stores the update as  *)
(* it sends it, and so holds the commitment that pays the other end.        *)
Pay(p, amount) ==
  /\ seq[p] < MaxSeq
  /\ ValidUpdate(p, seq[p] + 1, local[p] - amount, remote[p] + amount)
  /\ Store(p, seq[p] + 1, local[p] - amount, remote[p] + amount)
  /\ Sends([type |-> "update", from |-> p, seq |-> seq[p] + 1, amount |-> amount,
            mine |-> local[p] - amount, theirs |-> remote[p] + amount])
  /\ paid' = [paid EXCEPT ![p] = @ + amount]
  /\ UNCHANGED <<chain, served>>

(* validateRequest() and validateChannelUpdate(). *)
ValidPayment(m) == m.amount > 0 /\ m.seq >= 0 /\ m.mine >= 0 /\ m.theirs >= 0

Acceptable(p, m) == ValidPayment(m) /\ ValidUpdate(p, m.seq, m.theirs, m.mine)

(* The other end sees the update from its side; what it accepts it serves.  *)
AcceptUpdate(p, m) ==
  /\ m.type = "update" /\ m.from = Other(p)
  /\ Acceptable(p, m)
  /\ Store(p, m.seq, m.theirs, m.mine)
  /\ served' = [served EXCEPT ![p] = @ + m.amount]
  /\ UNCHANGED <<net, chain, paid>>

----------------------------------------------------------------------------
(* Closing.                                                                 *)

Close(p) ==
  /\ Transition(p, "closing")
  /\ Sends([type |-> "close", from |-> p])
  /\ UNCHANGED <<chain, ledger>>

ReceiveClose(p, m) ==
  /\ m.type = "close" /\ m.from = Other(p)
  /\ Transition(p, "closing")
  /\ UNCHANGED <<net, chain, ledger>>

(* Both ends have signed the same settlement, and one sends it out. *)
Settle ==
  /\ \A p \in Party : state[p] = "closing"
  /\ SettlementTx(Initiator) = SettlementTx(Responder)
  /\ spend = NoTx
  /\ spend' = SettlementTx(Initiator)
  /\ UNCHANGED <<channel, net, settled, ledger>>

(* Whether the network takes tx: nothing is spent, or the commitment that   *)
(* waits to be confirmed is an older one.                                   *)
Replaces(tx) ==
  \/ spend = NoTx
  \/ ~settled /\ spend.sequence # SequenceFinal /\ tx.sequence < spend.sequence

(* One end goes to the chain with its last commitment. *)
ForceClose(p) ==
  /\ Transition(p, "force_closing")
  /\ spend' = IF Replaces(CommitmentTx(p)) THEN CommitmentTx(p) ELSE spend
  /\ UNCHANGED <<net, settled, ledger>>

(* A block confirms the transaction. *)
Mine ==
  /\ spend # NoTx /\ ~settled
  /\ settled' = TRUE
  /\ UNCHANGED <<channel, net, spend, ledger>>

(* An end that was closing, or had forced it, learns that it is over. *)
Over(p) ==
  /\ settled
  /\ \E new \in {"closed", "resolved"} :
       /\ new = "closed" => spend.sequence = SequenceFinal
       /\ Transition(p, new)
  /\ UNCHANGED <<net, chain, ledger>>

----------------------------------------------------------------------------

Opening ==
  \/ \E c \in Capacities : Propose(c)
  \/ \E m \in net : ReceiveOpen(m) \/ ReceiveAnswer(m) \/ ReceiveFunded(m)
  \/ \E new \in {"accepted", "rejected"} : Answer(new)
  \/ Fund
  \/ \E p \in Party : Confirm(p) \/ Fail(p)

Closing ==
  \/ \E p \in Party : Close(p) \/ ForceClose(p) \/ Over(p)
  \/ \E p \in Party, m \in net : ReceiveClose(p, m)
  \/ Settle \/ Mine

ChannelNext ==
  \/ Opening
  \/ \E p \in Party, amount \in Amounts : Pay(p, amount)
  \/ \E p \in Party, m \in net : AcceptUpdate(p, m)
  \/ Closing

ChannelSpec == ChannelInit /\ [][ChannelNext]_channelVars

----------------------------------------------------------------------------

(* What an end has a right to: what it put in and was paid for serving,     *)
(* less what it has paid.                                                   *)
Due(p) == (IF p = Initiator THEN capacity[p] ELSE 0) + served[p] - paid[p]

(* However updates are lost, repeated, reordered or sent by both ends at    *)
(* the same time, no end ever holds a commitment that gives either end less *)
(* than its due (state-machine.ts:70-96).                                   *)
NobodyLoses ==
  \A p \in Party : state[p] # "none" =>
    /\ local[p] >= Due(p)
    /\ state[Other(p)] # "none" => remote[p] >= Due(Other(p))

(* The chain pays each end its due, whoever closes the channel, how and     *)
(* with which of their commitments; an output that is dust may be missing   *)
(* (transactions.ts:150-229).                                               *)
ChainPaysDue ==
  settled => \A p \in Party : Due(p) > Dust => spend.payout[p] >= Due(p)

(* While nothing is mined, what waits is the settlement or a commitment at   *)
(* least as new as that of every end that forced the close: nSequence falls  *)
(* with each update, and never runs out (transactions.ts:184-195).           *)
LatestWaits ==
  spend # NoTx /\ ~settled => \A p \in Party : state[p] = "force_closing" =>
    spend.sequence \in 0 .. SequenceStart - seq[p] \union {SequenceFinal}

=============================================================================
