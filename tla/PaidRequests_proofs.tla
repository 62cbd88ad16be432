------------------------- MODULE PaidRequests_proofs -----------------------
(***************************************************************************)
(* No end of a channel loses, on either side, in any commitment, or on the *)
(* chain, and no message gets through twice: for any capacity, any number  *)
(* of updates and any clocks.                                              *)
(***************************************************************************)
EXTENDS PaidRequests, TLAPS

Shut == {"closing", "closed", "force_closing", "resolved"}

(* The channels: what an end holds adds up, and both speak of the same.     *)
Shape ==
  /\ \A p \in Party :
       IF state[p] = "none"
       THEN /\ seq[p] = 0 /\ paid[p] = 0 /\ served[p] = 0 /\ served[Other(p)] = 0
            /\ capacity[p] = 0
       ELSE local[p] + remote[p] = capacity[p] /\ capacity[p] = capacity[Initiator]
  /\ state[Responder] # "none" => state[Initiator] # "none"
  /\ \A m \in net : m.type = "open" =>
       state[Initiator] # "none" /\ m.capacity = capacity[Initiator]

(* The updates that were sent.                                              *)
Sent ==
  \A m \in net : m.type = "update" =>
    state[m.from] # "none" /\ m.seq \in 1 .. seq[m.from]

(* An update that can still be accepted gives both ends their due.          *)
Fair ==
  \A m \in net : m.type = "update" /\ m.seq > seq[Other(m.from)] =>
    /\ m.theirs >= Due(Other(m.from)) + m.amount
    /\ m.mine >= Due(m.from)
    /\ remote[m.from] >= m.theirs

(* Of two of them the later one gives at least as much.                     *)
Rising ==
  \A m, n \in net :
    /\ m.type = "update" /\ n.type = "update" /\ m.from = n.from
    /\ m.seq > seq[Other(m.from)] /\ m.seq < n.seq
    => n.theirs - n.amount >= m.theirs

Held ==
  \A p \in Party : state[p] # "none" =>
    local[p] >= Due(p) /\ remote[p] >= Due(Other(p))

(* What spends the funding output is a transaction of an end that has shut. *)
Spent ==
  /\ settled => spend # NoTx
  /\ spend # NoTx => \E p \in Party :
       state[p] \in Shut /\ spend.payout = Payout(p, local[p], remote[p])

ChannelInv == ChannelTypeOK /\ Shape /\ Sent /\ Fair /\ Rising /\ Held /\ Spent

(* A message that got through is known, or too old to get through again.    *)
Known ==
  \A i \in Id :
    /\ passed[i] <= 1
    /\ passed[i] = 1 =>
         /\ stamp[i] # Never
         /\ IF seen[i] = Never THEN stamp[i] < now - MaxAge
                               ELSE stamp[i] <= seen[i] + MaxFuture

GateInv == GateTypeOK /\ Known

----------------------------------------------------------------------------
(* The gate.                                                                *)

LEMMA GateInitial == GateInit => GateInv
BY ReplayAssumption DEF GateInit, GateInv, GateTypeOK, Known, Never

LEMMA GateStep == GateInv /\ [GateNext]_gateVars => GateInv'
<1> SUFFICES ASSUME GateInv, [GateNext]_gateVars PROVE GateInv'
    OBVIOUS
<1> USE ReplayAssumption DEF GateInv, GateTypeOK, Known, Never
<1>1. CASE \E i \in Id : Stamp(i)
      BY <1>1 DEF Stamp
<1>2. CASE \E i \in Id : Pass(i)
      BY <1>2 DEF Pass, InTime
<1>3. CASE Sweep
      BY <1>3 DEF Sweep, Forgotten
<1>4. CASE Clear
      BY <1>4 DEF Clear
<1>5. CASE Tick
      BY <1>5 DEF Tick
<1>6. CASE UNCHANGED gateVars
      BY <1>6 DEF gateVars
<1> QED BY <1>1, <1>2, <1>3, <1>4, <1>5, <1>6 DEF GateNext

(* Every step of the whole is one of the gate, or none; the messages that   *)
(* were sent have their ids.                                                *)
LEMMA StepOfGate ==
  ASSUME ChannelInv, [Next]_vars
  PROVE  [GateNext]_gateVars
<1>1. ASSUME NEW p \in Party, NEW amount \in Amounts, SendPaid(p, amount)
      PROVE  GateNext
  <2>1. seq[p] \in 0 .. MaxSeq /\ seq[p] < MaxSeq /\ Stamp(<<p, seq[p] + 1>>)
        BY <1>1 DEF SendPaid, Pay, ChannelInv, ChannelTypeOK
  <2>2. <<p, seq[p] + 1>> \in Id
        BY <2>1, IdAssumption, ChannelAssumption
  <2> QED BY <2>1, <2>2 DEF GateNext
<1>2. ASSUME NEW p \in Party, NEW m \in net, ReceivePaid(p, m)
      PROVE  GateNext
  <2>1. m.type = "update" /\ m.from = Other(p) /\ Pass(IdOf(m))
        BY <1>2 DEF ReceivePaid
  <2>2. m.from \in Party /\ seq[m.from] \in 0 .. MaxSeq /\ m.seq \in 1 .. seq[m.from]
        BY <2>1 DEF Other, Party, ChannelInv, ChannelTypeOK, Sent
  <2>3. IdOf(m) \in Id
        BY <2>2, IdAssumption, ChannelAssumption DEF IdOf
  <2> QED BY <2>1, <2>3 DEF GateNext
<1>3. CASE (Opening \/ Closing) /\ UNCHANGED gateVars
      BY <1>3
<1>4. CASE (Sweep \/ Clear \/ Tick) /\ UNCHANGED channelVars
      BY <1>4 DEF GateNext
<1>5. CASE UNCHANGED vars
      BY <1>5 DEF vars
<1> QED BY <1>1, <1>2, <1>3, <1>4, <1>5 DEF Next

LEMMA StepOfChannel == [Next]_vars => [ChannelNext]_channelVars
<1> SUFFICES ASSUME [Next]_vars PROVE [ChannelNext]_channelVars
    OBVIOUS
<1>1. ASSUME NEW p \in Party, NEW amount \in Amounts, SendPaid(p, amount)
      PROVE  ChannelNext
      BY <1>1 DEF SendPaid, ChannelNext
<1>2. ASSUME NEW p \in Party, NEW m \in net, ReceivePaid(p, m)
      PROVE  [ChannelNext]_channelVars
      BY <1>2 DEF ReceivePaid, ChannelNext
<1>3. CASE (Opening \/ Closing) /\ UNCHANGED gateVars
      BY <1>3 DEF ChannelNext
<1>4. CASE (Sweep \/ Clear \/ Tick) /\ UNCHANGED channelVars
      BY <1>4
<1>5. CASE UNCHANGED vars
      BY <1>5 DEF vars
<1> QED BY <1>1, <1>2, <1>3, <1>4, <1>5 DEF Next

----------------------------------------------------------------------------
(* The channel.                                                             *)

LEMMA Transitions ==
  ASSUME NEW from, NEW to, CanTransition(from, to)
  PROVE  /\ from \in ChannelState /\ to \in ChannelState
         /\ from # "none" /\ to # "none"
         /\ from \in Shut => to \in Shut
BY DEF CanTransition, ValidTransitions, ChannelState, Shut

LEMMA Ends ==
  ASSUME NEW p \in Party
  PROVE  Other(p) \in Party /\ Other(p) # p /\ Other(Other(p)) = p
         /\ Party = {p, Other(p)}
BY ChannelAssumption DEF Party, Other

LEMMA ChannelInitial == ChannelInit => ChannelInv
<1> SUFFICES ASSUME ChannelInit PROVE ChannelInv
    OBVIOUS
<1> USE ChannelAssumption DEF ChannelInit
<1>1. ChannelTypeOK
  <2>1. NoTx \in [sequence : Int, payout : [Party -> Nat]]
        BY DEF NoTx
  <2>2. 0 \in 0 .. MaxSeq
        OBVIOUS
  <2> QED BY <2>1, <2>2 DEF ChannelTypeOK
<1>2. Shape /\ Sent /\ Fair /\ Rising
      BY Ends DEF Shape, Sent, Fair, Rising, Party
<1>3. Held /\ Spent
      BY DEF Held, Spent
<1> QED BY <1>1, <1>2, <1>3 DEF ChannelInv

LEMMA Transactions ==
  ASSUME ChannelTypeOK, NEW p \in Party
  PROVE  /\ Payout(p, local[p], remote[p]) \in [Party -> Nat]
         /\ CommitmentTx(p) \in [sequence : Int, payout : [Party -> Nat]]
         /\ CommitmentTx(p).payout = Payout(p, local[p], remote[p])
         /\ CommitmentTx(p) # NoTx
         /\ SettlementTx(p) \in [sequence : Int, payout : [Party -> Nat]]
         /\ SettlementTx(p).payout = Payout(p, local[p], remote[p])
         /\ SettlementTx(p) # NoTx
<1>1. seq[p] \in 0 .. MaxSeq /\ local[p] \in Nat /\ remote[p] \in Nat
      BY DEF ChannelTypeOK
<1>2. Payout(p, local[p], remote[p]) \in [Party -> Nat]
      BY <1>1 DEF Payout, Output
<1>3. SequenceStart - seq[p] \in Int /\ SequenceStart - seq[p] # -1
      /\ SequenceFinal \in Int /\ SequenceFinal # -1
      BY <1>1, ChannelAssumption DEF SequenceFinal
<1> QED BY <1>2, <1>3 DEF CommitmentTx, SettlementTx, NoTx

(* A step that leaves balances, sequence numbers and updates alone.         *)
LEMMA Quiet ==
  ASSUME ChannelInv,
         UNCHANGED <<capacity, local, remote, seq, ledger>>,
         \A p \in Party : state'[p] = "none" <=> state[p] = "none",
         \A m \in net' : m \in net \/ m.type \notin {"open", "update"}
  PROVE  Shape' /\ Sent' /\ Fair' /\ Rising' /\ Held'
<1> USE Ends, ChannelAssumption DEF ChannelInv, ledger
<1> \A p \in Party : Due(p)' = Due(p)
    BY DEF Due
<1>1. Initiator \in Party /\ Responder \in Party
      BY DEF Party
<1>2. \A m \in net' : m.type = "update" => m \in net /\ m.from \in Party
      BY DEF ChannelTypeOK, Message, Update
<1>3. Shape'
      BY <1>1 DEF Shape
<1>4. Sent'
      BY <1>2 DEF Sent
<1>5. Fair'
      BY <1>2 DEF Fair
<1>6. Rising'
      BY <1>2 DEF Rising
<1>7. Held'
      BY DEF Held
<1> QED BY <1>3, <1>4, <1>5, <1>6, <1>7

(* Ends that have shut stay as they are.                                    *)
LEMMA Frozen ==
  ASSUME ChannelInv, UNCHANGED spend, settled' => settled \/ spend # NoTx,
         \A p \in Party : state[p] \in Shut =>
           state'[p] \in Shut /\ local'[p] = local[p] /\ remote'[p] = remote[p]
  PROVE  Spent'
BY DEF ChannelInv, Spent

(* transition() leaves the rest of a Channel alone.                         *)
LEMMA TransitionStep ==
  ASSUME ChannelTypeOK, NEW p \in Party, NEW new, Transition(p, new)
  PROVE  /\ state' \in [Party -> ChannelState \union {"none"}]
         /\ \A q \in Party : state'[q] = "none" <=> state[q] = "none"
         /\ \A q \in Party : state[q] \in Shut => state'[q] \in Shut
         /\ new \in Shut => state'[p] \in Shut
         /\ UNCHANGED <<capacity, local, remote, seq>>
<1>1. CanTransition(state[p], new) /\ state' = [state EXCEPT ![p] = new]
      /\ UNCHANGED <<capacity, local, remote, seq>>
      BY DEF Transition
<1>2. /\ state[p] \in ChannelState /\ new \in ChannelState
      /\ state[p] # "none" /\ new # "none"
      /\ state[p] \in Shut => new \in Shut
      BY <1>1, Transitions
<1> QED BY <1>1, <1>2 DEF ChannelTypeOK

(* A message or a transition, with nothing new on the chain.                *)
LEMMA PlainStep ==
  ASSUME ChannelInv, NEW p \in Party, NEW new, Transition(p, new),
         UNCHANGED <<chain, ledger>>,
         net' \subseteq Message,
         \A m \in net' : m \in net \/ m.type \notin {"open", "update"}
  PROVE  ChannelInv'
<1>1. ChannelTypeOK
      BY DEF ChannelInv
<1>2. ChannelTypeOK'
      BY <1>1, TransitionStep DEF ChannelTypeOK, chain, ledger
<1>3. Shape' /\ Sent' /\ Fair' /\ Rising' /\ Held'
      BY <1>1, TransitionStep, Quiet DEF ledger
<1>4. Spent'
      BY <1>1, TransitionStep, Frozen DEF chain, ChannelInv, Spent
<1> QED BY <1>2, <1>3, <1>4 DEF ChannelInv

LEMMA CreateStep ==
  ASSUME ChannelInv, NEW p \in Party, NEW c \in Nat, CreateProposed(p, c),
         p = Responder => state[Initiator] # "none" /\ c = capacity[Initiator],
         net' \subseteq Message,
         \A m \in net' : m \in net \/ (p = Initiator /\ m.type = "open" /\ m.capacity = c),
         UNCHANGED <<chain, ledger>>
  PROVE  ChannelInv'
<1> USE Ends, ChannelAssumption DEF ChannelInv, ledger, chain
<1>1. /\ state[p] = "none" /\ state' = [state EXCEPT ![p] = "proposed"]
      /\ capacity' = [capacity EXCEPT ![p] = c]
      /\ local' = [local EXCEPT ![p] = IF p = Initiator THEN c ELSE 0]
      /\ remote' = [remote EXCEPT ![p] = IF p = Initiator THEN 0 ELSE c]
      /\ seq' = seq
      BY DEF CreateProposed
<1>2. ChannelTypeOK'
  <2>1. "proposed" \in ChannelState
        BY DEF ChannelState, ValidTransitions
  <2> QED BY <1>1, <2>1 DEF ChannelTypeOK
<1>3. p = Initiator \/ p = Responder
      BY DEF Party
<1>4. Initiator \in Party /\ Responder \in Party
      /\ Other(Initiator) = Responder /\ Other(Responder) = Initiator
      BY DEF Party, Other
<1>5. p = Initiator => state[Responder] = "none"
      BY <1>1 DEF Shape
<1>6. \A m \in net' : m.type = "update" => m \in net /\ m.from \in Party
      BY DEF ChannelTypeOK, Message, Update
<1>7. \A m \in net : m.type = "update" => m.from # p
      BY <1>1, <1>6 DEF Sent
<1>8. Shape'
  <2>1. CASE p = Initiator
        BY <2>1, <1>1, <1>4, <1>5, <1>2 DEF Shape, ChannelTypeOK, Party
  <2>2. CASE p = Responder
        BY <2>2, <1>1, <1>4, <1>2 DEF Shape, ChannelTypeOK, Party
  <2> QED BY <2>1, <2>2, <1>3
<1>9. Sent'
      BY <1>1, <1>6, <1>7 DEF Sent, ChannelTypeOK
<1>10. Due(Responder)' = Due(Responder)
       /\ Due(Initiator)' = capacity'[Initiator] + served[Initiator] - paid[Initiator]
       BY <1>4 DEF Due
<1>11. Fair'
       BY <1>1, <1>3, <1>4, <1>5, <1>6, <1>7, <1>10 DEF Fair, Sent, Due, ChannelTypeOK
<1>12. Rising'
       BY <1>1, <1>6, <1>7 DEF Rising
<1>13. Held'
  <2>1. CASE p = Initiator
        BY <2>1, <1>1, <1>4, <1>5, <1>2 DEF Held, Shape, ChannelTypeOK, Party, Due
  <2>2. CASE p = Responder
        BY <2>2, <1>1, <1>4, <1>2 DEF Held, Shape, ChannelTypeOK, Party, Due
  <2> QED BY <2>1, <2>2, <1>3
<1>14. Spent'
  <2>1. \A q \in Party : state[q] \in Shut =>
          state'[q] \in Shut /\ local'[q] = local[q] /\ remote'[q] = remote[q]
        BY <1>1 DEF Shut, ChannelTypeOK
  <2> QED BY <2>1, Frozen DEF Spent
<1> QED BY <1>2, <1>8, <1>9, <1>11, <1>12, <1>13, <1>14

LEMMA OpeningStep == ASSUME ChannelInv, Opening PROVE ChannelInv'
<1> USE ChannelAssumption
<1>1. Initiator \in Party /\ Responder \in Party
      BY DEF Party
<1>2. net \subseteq Message
      BY DEF ChannelInv, ChannelTypeOK
<1>3. ASSUME NEW c \in Capacities, Propose(c)
      PROVE  ChannelInv'
  <2>1. net' = net \union {[type |-> "open", capacity |-> c]} /\ c \in Nat
        BY <1>3 DEF Propose, Sends
  <2>2. net' \subseteq Message
        BY <2>1, <1>2 DEF Message
  <2> QED BY <1>1, <1>3, <2>1, <2>2, CreateStep DEF Propose
<1>4. ASSUME NEW m \in net, ReceiveOpen(m)
      PROVE  ChannelInv'
  <2>1. m.capacity \in Nat /\ m.type = "open"
        BY <1>4, <1>2 DEF ReceiveOpen, Message, Update
  <2>2. state[Initiator] # "none" /\ m.capacity = capacity[Initiator]
        BY <2>1 DEF ChannelInv, Shape
  <2> QED BY <1>1, <1>2, <1>4, <2>1, <2>2, CreateStep DEF ReceiveOpen
<1>5. ASSUME NEW new \in {"accepted", "rejected"}, Answer(new)
      PROVE  ChannelInv'
  <2> DEFINE m == [type |-> IF new = "accepted" THEN "accept" ELSE "reject"]
  <2>1. net' = net \union {m} /\ m \in Message /\ m.type \notin {"open", "update"}
        BY <1>5 DEF Answer, Sends, Message
  <2> QED BY <1>1, <1>2, <1>5, <2>1, PlainStep DEF Answer
<1>6. ASSUME NEW m \in net, ReceiveAnswer(m)
      PROVE  ChannelInv'
      BY <1>1, <1>2, <1>6, PlainStep DEF ReceiveAnswer
<1>7. CASE Fund
  <2>1. net' = net \union {[type |-> "funded"]}
        BY <1>7 DEF Fund, Sends
  <2>2. [type |-> "funded"] \in Message
        BY DEF Message
  <2> QED BY <1>1, <1>2, <1>7, <2>1, <2>2, PlainStep DEF Fund
<1>8. ASSUME NEW m \in net, ReceiveFunded(m)
      PROVE  ChannelInv'
      BY <1>1, <1>2, <1>8, PlainStep DEF ReceiveFunded
<1>9. ASSUME NEW p \in Party, Confirm(p) \/ Fail(p)
      PROVE  ChannelInv'
      BY <1>2, <1>9, PlainStep DEF Confirm, Fail
<1> QED BY <1>3, <1>4, <1>5, <1>6, <1>7, <1>8, <1>9 DEF Opening

LEMMA PayStep ==
  ASSUME ChannelInv, NEW p \in Party, NEW amount \in Amounts, Pay(p, amount)
  PROVE  ChannelInv'
<1> DEFINE q == Other(p)
           u == [type |-> "update", from |-> p, seq |-> seq[p] + 1, amount |-> amount,
                 mine |-> local[p] - amount, theirs |-> remote[p] + amount]
<1> USE Ends, ChannelAssumption DEF ChannelInv, ledger, chain
<1>1. /\ state[p] = "open" /\ seq[p] < MaxSeq /\ local[p] - amount >= 0
      /\ seq' = [seq EXCEPT ![p] = seq[p] + 1]
      /\ local' = [local EXCEPT ![p] = local[p] - amount]
      /\ remote' = [remote EXCEPT ![p] = remote[p] + amount]
      /\ net' = net \union {u}
      /\ paid' = [paid EXCEPT ![p] = paid[p] + amount]
      /\ UNCHANGED <<state, capacity, spend, settled, served>>
      BY DEF Pay, ValidUpdate, Store, Sends
<1>2. /\ amount \in Nat /\ seq[p] \in 0 .. MaxSeq /\ seq[q] \in 0 .. MaxSeq
      /\ local[p] \in Nat /\ remote[p] \in Nat /\ local[q] \in Nat /\ remote[q] \in Nat
      /\ paid[p] \in Nat /\ q \in Party /\ q # p
      BY DEF ChannelTypeOK
<1>3. u \in Update
      BY <1>1, <1>2 DEF Update
<1>4. ChannelTypeOK'
  <2>1. net' \subseteq Message
        BY <1>1, <1>3 DEF ChannelTypeOK, Message
  <2> QED BY <1>1, <1>2, <2>1 DEF ChannelTypeOK
<1>5. Due(p) \in Int /\ Due(q) \in Int /\ Due(p)' = Due(p) - amount /\ Due(q)' = Due(q)
      BY <1>1, <1>2 DEF Due, ChannelTypeOK, Party
<1>6. \A m \in net : m.type = "update" =>
        /\ m.from \in Party /\ m.seq \in Nat /\ m.amount \in Nat
        /\ m.mine \in Nat /\ m.theirs \in Nat
      BY DEF ChannelTypeOK, Message, Update
<1>7. local[p] >= Due(p) /\ remote[p] >= Due(q)
      BY <1>1 DEF Held
<1>8. Shape'
      BY <1>1, <1>2, <1>4 DEF Shape, ChannelTypeOK, Party
<1>9. Sent'
      BY <1>1, <1>2, <1>6 DEF Sent, ChannelTypeOK
<1>10. ASSUME NEW m \in net', m.type = "update", m.seq > seq'[Other(m.from)]
       PROVE  /\ m.theirs >= Due(Other(m.from))' + m.amount
              /\ m.mine >= Due(m.from)'
              /\ remote'[m.from] >= m.theirs
  <2>1. CASE m = u
        BY <2>1, <1>1, <1>2, <1>5, <1>7 DEF ChannelTypeOK
  <2>2. CASE m \in net /\ m.from = p
    <3>1. /\ m.theirs >= Due(q) + m.amount /\ m.mine >= Due(p)
          /\ remote[p] >= m.theirs
          BY <2>2, <1>1, <1>10, <1>2 DEF Fair, ChannelTypeOK
    <3> QED BY <3>1, <2>2, <1>1, <1>2, <1>5, <1>6, <1>10 DEF ChannelTypeOK
  <2>3. CASE m \in net /\ m.from = q
    <3>1. m.seq > seq[p]
          BY <2>3, <1>1, <1>2, <1>6, <1>10 DEF ChannelTypeOK
    <3>2. /\ m.theirs >= Due(p) + m.amount /\ m.mine >= Due(q)
          /\ remote[q] >= m.theirs
          BY <2>3, <3>1, <1>10 DEF Fair
    <3> QED BY <3>2, <2>3, <1>1, <1>2, <1>5, <1>6, <1>10 DEF ChannelTypeOK
  <2>4. m = u \/ (m \in net /\ (m.from = p \/ m.from = q))
        BY <1>1, <1>6, <1>10
  <2> QED BY <2>1, <2>2, <2>3, <2>4
<1>11. Fair'
       BY <1>10 DEF Fair
<1>12. ASSUME NEW m \in net', NEW n \in net',
              m.type = "update", n.type = "update", m.from = n.from,
              m.seq > seq'[Other(m.from)], m.seq < n.seq
       PROVE  n.theirs - n.amount >= m.theirs
  <2>1. m # u
        BY <1>1, <1>2, <1>6, <1>12 DEF Sent, ChannelTypeOK
  <2>2. m \in net /\ m.seq > seq[Other(m.from)]
        BY <2>1, <1>1, <1>2, <1>6, <1>12 DEF ChannelTypeOK
  <2>3. CASE n \in net
        BY <2>2, <2>3, <1>12 DEF Rising
  <2>4. CASE n = u
    <3>1. remote[p] >= m.theirs
          BY <2>2, <2>4, <1>12 DEF Fair
    <3> QED BY <3>1, <2>4, <1>2
  <2> QED BY <2>3, <2>4, <1>1
<1>13. Rising'
       BY <1>12 DEF Rising
<1>14. Held'
  <2>1. local'[p] >= Due(p)' /\ remote'[p] >= Due(q)'
        BY <1>1, <1>2, <1>5, <1>7 DEF ChannelTypeOK
  <2>2. state[q] # "none" => local'[q] >= Due(q)' /\ remote'[q] >= Due(p)'
        BY <1>1, <1>2, <1>5 DEF ChannelTypeOK, Held
  <2> QED BY <2>1, <2>2, <1>1, <1>2 DEF Held
<1>15. Spent'
  <2>1. \A r \in Party : state[r] \in Shut =>
          state'[r] \in Shut /\ local'[r] = local[r] /\ remote'[r] = remote[r]
        BY <1>1 DEF Shut, ChannelTypeOK
  <2> QED BY <2>1, <1>1, Frozen DEF Spent
<1> QED BY <1>4, <1>8, <1>9, <1>11, <1>13, <1>14, <1>15

LEMMA AcceptStep ==
  ASSUME ChannelInv, NEW q \in Party, NEW u \in net, AcceptUpdate(q, u)
  PROVE  ChannelInv'
<1> DEFINE p == Other(q)
<1> USE Ends, ChannelAssumption DEF ChannelInv, ledger, chain
<1>1. /\ u.type = "update" /\ u.from = p
      /\ state[q] = "open" /\ u.seq > seq[q] /\ u.theirs + u.mine = capacity[q]
      /\ seq' = [seq EXCEPT ![q] = u.seq]
      /\ local' = [local EXCEPT ![q] = u.theirs]
      /\ remote' = [remote EXCEPT ![q] = u.mine]
      /\ served' = [served EXCEPT ![q] = served[q] + u.amount]
      /\ UNCHANGED <<state, capacity, net, spend, settled, paid>>
      BY DEF AcceptUpdate, Acceptable, ValidUpdate, Store
<1>2. /\ seq[p] \in 0 .. MaxSeq /\ seq[q] \in 0 .. MaxSeq
      /\ local[p] \in Nat /\ remote[p] \in Nat /\ local[q] \in Nat /\ remote[q] \in Nat
      /\ served[q] \in Nat /\ p \in Party /\ q # p
      BY DEF ChannelTypeOK
<1>3. \A m \in net : m.type = "update" =>
        /\ m.from \in Party /\ m.seq \in Nat /\ m.amount \in Nat
        /\ m.mine \in Nat /\ m.theirs \in Nat
      BY DEF ChannelTypeOK, Message, Update
<1>4. u.seq \in 1 .. seq[p] /\ state[p] # "none"
      BY <1>1 DEF Sent
<1>5. ChannelTypeOK'
  <2>1. u.seq \in 0 .. MaxSeq
        BY <1>2, <1>4
  <2> QED BY <2>1, <1>1, <1>2, <1>3 DEF ChannelTypeOK
<1>6. Due(p) \in Int /\ Due(q) \in Int /\ Due(q)' = Due(q) + u.amount /\ Due(p)' = Due(p)
      BY <1>1, <1>2, <1>3 DEF Due, ChannelTypeOK, Party
<1>7. /\ u.theirs >= Due(q) + u.amount /\ u.mine >= Due(p)
      /\ remote[p] >= u.theirs
      BY <1>1 DEF Fair
<1>8. Shape'
      BY <1>1, <1>2, <1>3, <1>4, <1>5 DEF Shape, ChannelTypeOK, Party
<1>9. Sent'
      BY <1>1, <1>2, <1>3 DEF Sent, ChannelTypeOK
<1>10. \A m \in net : m.type = "update" /\ m.seq > seq'[Other(m.from)] =>
         m.from = p /\ m.seq > u.seq /\ m.seq > seq[q]
  <2> SUFFICES ASSUME NEW m \in net, m.type = "update", m.seq > seq'[Other(m.from)]
               PROVE  m.from = p /\ m.seq > u.seq /\ m.seq > seq[q]
      OBVIOUS
  <2>1. CASE m.from = p
        BY <2>1, <1>1, <1>2, <1>3 DEF ChannelTypeOK
  <2>2. CASE m.from = q
    <3>1. m.seq \in 1 .. seq[q] /\ seq'[p] = seq[p]
          BY <2>2, <1>1, <1>2 DEF Sent, ChannelTypeOK
    <3> QED BY <3>1, <2>2, <1>1, <1>2, <1>3, <1>4
  <2> QED BY <2>1, <2>2, <1>3
<1>11. Fair'
  <2> SUFFICES ASSUME NEW m \in net, m.type = "update", m.seq > seq'[Other(m.from)]
               PROVE  /\ m.theirs >= Due(Other(m.from))' + m.amount
                      /\ m.mine >= Due(m.from)'
                      /\ remote'[m.from] >= m.theirs
      BY <1>1 DEF Fair
  <2>1. m.from = p /\ m.seq > u.seq /\ m.seq > seq[q]
        BY <1>10
  <2>2. m.theirs - m.amount >= u.theirs
        BY <2>1, <1>1 DEF Rising
  <2>3. m.mine >= Due(p) /\ remote[p] >= m.theirs
        BY <2>1 DEF Fair
  <2>4. remote'[p] = remote[p]
        BY <1>1, <1>2 DEF ChannelTypeOK
  <2>5. /\ m.theirs \in Nat /\ m.amount \in Nat /\ u.theirs \in Nat /\ u.amount \in Nat
        BY <1>1, <1>3
  <2>6. m.theirs >= Due(q)' + m.amount
        BY <2>2, <2>5, <1>6, <1>7
  <2>7. Other(m.from) = q
        BY <2>1
  <2> QED BY <2>1, <2>3, <2>4, <2>6, <2>7, <1>6
<1>12. Rising'
       BY <1>1, <1>10 DEF Rising
<1>13. Held'
  <2>1. local'[q] >= Due(q)' /\ remote'[q] >= Due(p)'
        BY <1>1, <1>2, <1>3, <1>6, <1>7 DEF ChannelTypeOK
  <2>2. local'[p] >= Due(p)' /\ remote'[p] >= Due(q)'
    <3>1. local[p] >= Due(p) /\ local'[p] = local[p] /\ remote'[p] = remote[p]
          BY <1>1, <1>2, <1>4 DEF Held, ChannelTypeOK
    <3> QED BY <3>1, <1>1, <1>2, <1>3, <1>6, <1>7
  <2> QED BY <2>1, <2>2, <1>2 DEF Held
<1>14. Spent'
  <2>1. \A r \in Party : state[r] \in Shut =>
          state'[r] \in Shut /\ local'[r] = local[r] /\ remote'[r] = remote[r]
        BY <1>1 DEF Shut, ChannelTypeOK
  <2> QED BY <2>1, <1>1, Frozen DEF Spent
<1> QED BY <1>5, <1>8, <1>9, <1>11, <1>12, <1>13, <1>14

LEMMA ClosingStep == ASSUME ChannelInv, Closing PROVE ChannelInv'
<1> USE ChannelAssumption DEF ChannelInv
<1>1. net \subseteq Message /\ ChannelTypeOK
      BY DEF ChannelTypeOK
<1>2. ASSUME NEW p \in Party, Close(p)
      PROVE  ChannelInv'
  <2>1. net' = net \union {[type |-> "close", from |-> p]}
        BY <1>2 DEF Close, Sends
  <2>2. [type |-> "close", from |-> p] \in Message
        BY DEF Message
  <2> QED BY <1>1, <1>2, <2>1, <2>2, PlainStep DEF Close
<1>3. ASSUME NEW p \in Party, NEW m \in net, ReceiveClose(p, m)
      PROVE  ChannelInv'
      BY <1>1, <1>3, PlainStep DEF ReceiveClose
<1>4. ASSUME NEW p \in Party, Over(p)
      PROVE  ChannelInv'
      BY <1>1, <1>4, PlainStep DEF Over
<1>5. CASE Settle
  <2>1. /\ Initiator \in Party /\ state[Initiator] = "closing" /\ spend = NoTx
        /\ spend' = SettlementTx(Initiator)
        /\ UNCHANGED <<state, capacity, local, remote, seq, net, settled, paid, served>>
        BY <1>5 DEF Settle, Party, channel, ledger
  <2>2. spend' \in [sequence : Int, payout : [Party -> Nat]]
        /\ spend'.payout = Payout(Initiator, local[Initiator], remote[Initiator])
        BY <2>1, <1>1, Transactions
  <2>3. ChannelTypeOK'
        BY <1>1, <2>1, <2>2 DEF ChannelTypeOK
  <2>4. Shape' /\ Sent' /\ Fair' /\ Rising' /\ Held'
        BY <2>1, Quiet DEF ledger
  <2>5. Spent'
        BY <2>1, <2>2 DEF Spent, Shut
  <2> QED BY <2>3, <2>4, <2>5
<1>6. ASSUME NEW p \in Party, ForceClose(p)
      PROVE  ChannelInv'
  <2>1. /\ Transition(p, "force_closing")
        /\ spend' = IF Replaces(CommitmentTx(p)) THEN CommitmentTx(p) ELSE spend
        /\ UNCHANGED <<net, settled, paid, served>>
        BY <1>6 DEF ForceClose, ledger
  <2>2. /\ state' \in [Party -> ChannelState \union {"none"}]
        /\ \A q \in Party : state'[q] = "none" <=> state[q] = "none"
        /\ \A q \in Party : state[q] \in Shut => state'[q] \in Shut
        /\ state'[p] \in Shut
        /\ UNCHANGED <<capacity, local, remote, seq>>
        BY <1>1, <2>1, TransitionStep DEF Shut
  <2>3. /\ CommitmentTx(p) \in [sequence : Int, payout : [Party -> Nat]]
        /\ CommitmentTx(p).payout = Payout(p, local[p], remote[p])
        /\ CommitmentTx(p) # NoTx
        BY <1>1, Transactions
  <2>4. ChannelTypeOK'
        BY <1>1, <2>1, <2>2, <2>3 DEF ChannelTypeOK
  <2>5. Shape' /\ Sent' /\ Fair' /\ Rising' /\ Held'
        BY <2>1, <2>2, Quiet DEF ledger
  <2>6. Spent'
    <3>1. CASE spend' = spend
          BY <3>1, <2>1, <2>2, Frozen DEF Spent
    <3>2. CASE spend' = CommitmentTx(p)
          BY <3>2, <2>1, <2>2, <2>3 DEF Spent
    <3> QED BY <3>1, <3>2, <2>1
  <2> QED BY <2>4, <2>5, <2>6
<1>7. CASE Mine
  <2>1. spend # NoTx /\ settled' = TRUE
        /\ UNCHANGED <<state, capacity, local, remote, seq, net, spend, paid, served>>
        BY <1>7 DEF Mine, channel, ledger
  <2>2. ChannelTypeOK'
        BY <1>1, <2>1 DEF ChannelTypeOK
  <2>3. Shape' /\ Sent' /\ Fair' /\ Rising' /\ Held'
        BY <2>1, Quiet DEF ledger
  <2>4. Spent'
        BY <2>1, Frozen
  <2> QED BY <2>2, <2>3, <2>4
<1> QED BY <1>2, <1>3, <1>4, <1>5, <1>6, <1>7 DEF Closing

LEMMA ChannelStep == ChannelInv /\ [ChannelNext]_channelVars => ChannelInv'
<1> SUFFICES ASSUME ChannelInv, [ChannelNext]_channelVars PROVE ChannelInv'
    OBVIOUS
<1>1. CASE UNCHANGED channelVars
  <2>1. UNCHANGED <<state, capacity, local, remote, seq, net, spend, settled, paid, served>>
        BY <1>1 DEF channelVars, channel, chain, ledger
  <2>2. ChannelTypeOK'
        BY <2>1 DEF ChannelInv, ChannelTypeOK
  <2>3. Shape' /\ Sent' /\ Fair' /\ Rising' /\ Held'
        BY <2>1, Quiet DEF ledger
  <2>4. Spent'
        BY <2>1, Frozen DEF ChannelInv, Spent
  <2> QED BY <2>2, <2>3, <2>4 DEF ChannelInv
<1> QED BY <1>1, OpeningStep, PayStep, AcceptStep, ClosingStep DEF ChannelNext

----------------------------------------------------------------------------
(* The chain, before a block.                                               *)

(* What waits is as new as the commitment of every end that forced it.      *)
Waiting ==
  /\ spend # NoTx => spend.sequence \in 0 .. SequenceFinal
  /\ ~settled => \A p \in Party : state[p] = "force_closing" =>
       /\ spend # NoTx
       /\ spend.sequence \in 0 .. SequenceStart - seq[p] \union {SequenceFinal}

(* Nobody forces the close, and nothing is sent to the chain.               *)
LEMMA StillWaiting ==
  ASSUME Waiting, UNCHANGED <<spend, settled>>,
         \A p \in Party : state'[p] = "force_closing" =>
           state[p] = "force_closing" /\ seq'[p] = seq[p]
  PROVE  Waiting'
BY DEF Waiting

LEMMA PlainTransition ==
  ASSUME ChannelTypeOK, Waiting, UNCHANGED <<spend, settled>>,
         NEW p \in Party, NEW new, new # "force_closing", Transition(p, new)
  PROVE  Waiting'
<1>1. state' = [state EXCEPT ![p] = new] /\ seq' = seq
      BY DEF Transition
<1> QED BY <1>1, StillWaiting DEF ChannelTypeOK

LEMMA PlainCreation ==
  ASSUME ChannelTypeOK, Waiting, UNCHANGED <<spend, settled>>,
         NEW p \in Party, NEW c, CreateProposed(p, c)
  PROVE  Waiting'
<1>1. state' = [state EXCEPT ![p] = "proposed"] /\ seq' = seq
      BY DEF CreateProposed
<1> QED BY <1>1, StillWaiting DEF ChannelTypeOK

(* Sequence numbers change only in a channel that is open.                  *)
LEMMA PlainUpdate ==
  ASSUME ChannelTypeOK, Waiting, UNCHANGED <<state, spend, settled>>,
         NEW p \in Party, NEW n, state[p] = "open", seq' = [seq EXCEPT ![p] = n]
  PROVE  Waiting'
BY StillWaiting DEF ChannelTypeOK

LEMMA ForceCloseWaits ==
  ASSUME ChannelTypeOK, Waiting, settled => spend # NoTx, NEW p \in Party, ForceClose(p)
  PROVE  Waiting'
<1> DEFINE tx == CommitmentTx(p)
<1>1. /\ state' = [state EXCEPT ![p] = "force_closing"]
      /\ spend' = IF Replaces(tx) THEN tx ELSE spend
      /\ seq' = seq /\ settled' = settled
      BY DEF ForceClose, Transition
<1>2. \A q \in Party : seq[q] \in 0 .. MaxSeq
      BY DEF ChannelTypeOK
<1>3. /\ tx.sequence = SequenceStart - seq[p] /\ tx.sequence \in 0 .. SequenceStart
      /\ tx # NoTx
      BY <1>2, ChannelAssumption, Transactions DEF CommitmentTx
<1>4. \A q \in Party : state'[q] = "force_closing" => q = p \/ state[q] = "force_closing"
      BY <1>1 DEF ChannelTypeOK
<1>5. CASE Replaces(tx)
  <2>1. spend' = tx
        BY <1>1, <1>5
  <2>2. spend # NoTx => ~settled /\ spend.sequence # SequenceFinal
                        /\ tx.sequence < spend.sequence
        BY <1>5 DEF Replaces
  <2>3. ASSUME NEW q \in Party, state'[q] = "force_closing", ~settled'
        PROVE  tx.sequence \in 0 .. SequenceStart - seq[q]
    <3>1. CASE q = p
          BY <3>1, <1>3
    <3>2. CASE state[q] = "force_closing"
      <4>1. spend # NoTx /\ spend.sequence \in 0 .. SequenceStart - seq[q] \union {SequenceFinal}
            BY <3>2, <2>3, <1>1 DEF Waiting
      <4> QED BY <4>1, <2>2, <1>2, <1>3, ChannelAssumption
    <3> QED BY <3>1, <3>2, <2>3, <1>4
  <2> QED BY <2>1, <2>3, <1>1, <1>3, ChannelAssumption DEF Waiting, SequenceFinal
<1>6. CASE ~Replaces(tx)
  <2>1. spend' = spend /\ spend # NoTx
        BY <1>1, <1>6 DEF Replaces
  <2>2. ~settled => spend.sequence = SequenceFinal \/ ~(tx.sequence < spend.sequence)
        BY <1>6 DEF Replaces
  <2>3. spend.sequence \in 0 .. SequenceFinal
        BY <2>1 DEF Waiting
  <2>4. ASSUME NEW q \in Party, state'[q] = "force_closing", ~settled'
        PROVE  spend.sequence \in 0 .. SequenceStart - seq[q] \union {SequenceFinal}
    <3>1. CASE q = p
          BY <3>1, <2>2, <2>3, <2>4, <1>1, <1>2, <1>3, ChannelAssumption DEF SequenceFinal
    <3>2. CASE state[q] = "force_closing"
          BY <3>2, <2>4, <1>1 DEF Waiting
    <3> QED BY <3>1, <3>2, <2>4, <1>4
  <2> QED BY <2>1, <2>3, <2>4, <1>1 DEF Waiting
<1> QED BY <1>5, <1>6

LEMMA WaitingStep ==
  ASSUME ChannelInv, Waiting, [ChannelNext]_channelVars
  PROVE  Waiting'
<1> USE DEF chain, channel
<1>1. ChannelTypeOK /\ (settled => spend # NoTx)
      BY DEF ChannelInv, Spent
<1>2. Initiator \in Party /\ Responder \in Party
      BY DEF Party
<1>3. CASE UNCHANGED channelVars
      BY <1>3, StillWaiting DEF channelVars
<1>4. CASE Opening
  <2>1. ASSUME NEW c \in Capacities, Propose(c)
        PROVE  Waiting'
        BY <2>1, <1>1, <1>2, PlainCreation DEF Propose
  <2>2. ASSUME NEW m \in net, ReceiveOpen(m)
        PROVE  Waiting'
        BY <2>2, <1>1, <1>2, PlainCreation DEF ReceiveOpen
  <2>3. ASSUME NEW m \in net, ReceiveAnswer(m) \/ ReceiveFunded(m)
        PROVE  Waiting'
        BY <2>3, <1>1, <1>2, PlainTransition DEF ReceiveAnswer, ReceiveFunded
  <2>4. ASSUME NEW new \in {"accepted", "rejected"}, Answer(new)
        PROVE  Waiting'
        BY <2>4, <1>1, <1>2, PlainTransition DEF Answer
  <2>5. CASE Fund
        BY <2>5, <1>1, <1>2, PlainTransition DEF Fund
  <2>6. ASSUME NEW p \in Party, Confirm(p) \/ Fail(p)
        PROVE  Waiting'
        BY <2>6, <1>1, PlainTransition DEF Confirm, Fail
  <2> QED BY <1>4, <2>1, <2>2, <2>3, <2>4, <2>5, <2>6 DEF Opening
<1>5. ASSUME NEW p \in Party, NEW amount \in Amounts, Pay(p, amount)
      PROVE  Waiting'
      BY <1>5, <1>1, PlainUpdate DEF Pay, ValidUpdate, Store
<1>6. ASSUME NEW p \in Party, NEW m \in net, AcceptUpdate(p, m)
      PROVE  Waiting'
      BY <1>6, <1>1, PlainUpdate DEF AcceptUpdate, Acceptable, ValidUpdate, Store
<1>7. CASE Closing
  <2>1. ASSUME NEW p \in Party, Close(p)
        PROVE  Waiting'
        BY <2>1, <1>1, PlainTransition DEF Close
  <2>2. ASSUME NEW p \in Party, NEW m \in net, ReceiveClose(p, m)
        PROVE  Waiting'
        BY <2>2, <1>1, PlainTransition DEF ReceiveClose
  <2>3. ASSUME NEW p \in Party, Over(p)
        PROVE  Waiting'
        BY <2>3, <1>1, PlainTransition DEF Over
  <2>4. CASE Settle
    <3>1. /\ \A p \in Party : state'[p] = "closing"
          /\ spend'.sequence = SequenceFinal
          BY <2>4 DEF Settle, SettlementTx
    <3> QED BY <3>1, ChannelAssumption DEF Waiting, SequenceFinal
  <2>5. CASE Mine
        BY <2>5 DEF Mine, Waiting
  <2> QED BY <1>1, <1>7, <2>1, <2>2, <2>3, <2>4, <2>5, ForceCloseWaits DEF Closing
<1> QED BY <1>3, <1>4, <1>5, <1>6, <1>7 DEF ChannelNext

----------------------------------------------------------------------------
(* The whole.                                                               *)

Inv == ChannelInv /\ Waiting /\ GateInv

LEMMA Invariance == Spec => []Inv
<1>1. Init => Inv
  <2>1. ChannelInit => Waiting
        BY DEF ChannelInit, Waiting
  <2> QED BY <2>1, ChannelInitial, GateInitial DEF Init, Inv
<1>2. Inv /\ [Next]_vars => Inv'
      BY ChannelStep, WaitingStep, GateStep, StepOfChannel, StepOfGate DEF Inv
<1> QED BY <1>1, <1>2, PTL DEF Spec

(* The channels, the messages, the chain and the gate keep their types.     *)
THEOREM TypeCorrect == Spec => []TypeOK
<1>1. Inv => TypeOK
      BY DEF Inv, ChannelInv, GateInv, TypeOK
<1> QED BY <1>1, Invariance, PTL

(* No end holds a commitment that gives either end less than its due,       *)
(* however the updates are lost, repeated, reordered or crossed             *)
(* (state-machine.ts:78-103).                                               *)
THEOREM NoLoss == Spec => []NobodyLoses
<1>1. Inv => NobodyLoses
      BY DEF Inv, ChannelInv, Held, NobodyLoses
<1> QED BY <1>1, Invariance, PTL

(* The chain pays each end its due, less dust (transactions.ts:162-229).    *)
THEOREM ChainPays == Spec => []ChainPaysDue
<1>1. ASSUME ChannelInv, settled, NEW q \in Party, Due(q) > Dust
      PROVE  spend.payout[q] >= Due(q)
  <2>1. PICK p \in Party : state[p] \in Shut /\ spend.payout = Payout(p, local[p], remote[p])
        BY <1>1 DEF ChannelInv, Spent
  <2>2. local[p] >= Due(p) /\ remote[p] >= Due(Other(p))
        BY <1>1, <2>1 DEF ChannelInv, Held, Shut
  <2>3. local[p] \in Nat /\ remote[p] \in Nat /\ Due(q) \in Int /\ Dust \in Nat
        BY <1>1, <2>1, ChannelAssumption, Ends DEF ChannelInv, ChannelTypeOK, Due, Party
  <2>4. q = p \/ (q = Other(p) /\ q # p)
        BY <2>1, Ends
  <2> QED BY <1>1, <2>1, <2>2, <2>3, <2>4 DEF Payout, Output
<1>2. Inv => ChainPaysDue
      BY <1>1 DEF Inv, ChainPaysDue
<1> QED BY <1>2, Invariance, PTL

(* Until a block confirms it, what waits is the settlement, or as new as     *)
(* the commitment of every end that forced the close, and nSequence does    *)
(* not run out (transactions.ts:184-195, 221-229).                          *)
THEOREM NewestWaits == Spec => []LatestWaits
<1>1. Inv => LatestWaits
      BY DEF Inv, Waiting, LatestWaits
<1> QED BY <1>1, Invariance, PTL

(* No copy of a message gets through twice, for any clocks that are as far  *)
(* off as they like (replay-protection.ts:56-94, validation.ts:41-53).      *)
THEOREM NoSecondCopy == Spec => []NoReplay
<1>1. Inv => NoReplay
      BY DEF Inv, GateInv, Known, NoReplay
<1> QED BY <1>1, Invariance, PTL

=============================================================================
