--------------------------- MODULE PeerReputation --------------------------
(***************************************************************************)
(* The scores, the blacklist and the connection counts of daemon/peer-     *)
(* reputation.ts. The caller is not in this repository: it records events, *)
(* asks, and takes every connection it has recorded away again, the ones   *)
(* that were refused too. Times are kept as what is left of them, so that  *)
(* the clock needs no bound.                                               *)
(***************************************************************************)
EXTENDS Integers, FiniteSets

CONSTANTS
  Peer,
  Deltas,              \* what an event may add to a score
  Penalty,             \* the delta of RATE_LIMIT_EXCEEDED
  InitialScore, MinScore, MaxScore,
  RateLimitThreshold, BlacklistThreshold,
  Neutral, DecayRate,  \* 50, and the points per hour towards it
  Hour,                \* the time a score must have been left alone to decay
  BlacklistDuration,
  MaxConnections,      \* maxConnectionsPerPeer
  MaxLinks,            \* bound: connections of a peer, refused ones too
  MaxManual            \* bound: times a peer is blacklisted by hand

ASSUME ReputationAssumption ==
  /\ Deltas \subseteq Int /\ Penalty \in Int
  /\ {InitialScore, MinScore, MaxScore, RateLimitThreshold, BlacklistThreshold, Neutral}
       \subseteq Int
  /\ MinScore <= BlacklistThreshold /\ BlacklistThreshold < RateLimitThreshold
  /\ BlacklistThreshold < InitialScore /\ InitialScore <= MaxScore
  /\ BlacklistThreshold < Neutral /\ Neutral <= MaxScore
  /\ {DecayRate, MaxConnections, MaxLinks, MaxManual} \subseteq Nat
  /\ {Hour, BlacklistDuration} \subseteq Nat \ {0}

VARIABLES
  known,    \* the peers in the Map
  score,
  idle,     \* the time since lastUpdated, up to an hour
  barred,   \* the peers that have a blacklistedUntil
  left,     \* the time until then; -1 when it is over
  count,    \* connectionCount
  open,     \* history: connections that were allowed and are not closed
  refused,  \* history: connections that were refused and are not closed
  manual    \* what MaxManual counts

reputationVars == <<known, score, idle, barred, left, count, open, refused, manual>>
links == <<count, open, refused>>

ReputationTypeOK ==
  /\ known \subseteq Peer
  /\ score \in [Peer -> MinScore .. MaxScore]
  /\ idle \in [Peer -> 0 .. Hour]
  /\ barred \subseteq known
  /\ left \in [Peer -> -1 .. BlacklistDuration]
  /\ count \in [Peer -> Nat] /\ open \in [Peer -> Nat] /\ refused \in [Peer -> Nat]
  /\ manual \in 0 .. MaxManual

(* getOrCreatePeer(): a peer that is not known has the values of a new one. *)
ReputationInit ==
  /\ known = {}
  /\ score = [p \in Peer |-> InitialScore]
  /\ idle = [p \in Peer |-> 0]
  /\ barred = {}
  /\ left = [p \in Peer |-> 0]
  /\ count = [p \in Peer |-> 0]
  /\ open = [p \in Peer |-> 0] /\ refused = [p \in Peer |-> 0]
  /\ manual = 0

Clamp(n) == IF n < MinScore THEN MinScore ELSE IF n > MaxScore THEN MaxScore ELSE n

(* Mutant of Bars: a score at the threshold is still good enough. *)
BarsBelow(p, s) == s < BlacklistThreshold /\ p \notin barred

(* recordEvent() blacklists a peer that is not on the list already. *)
Bars(p, s) == s <= BlacklistThreshold /\ p \notin barred

(* Mutant of Scored: every offence starts the blacklisting anew. *)
ScoredAnew(p, delta) ==
  LET s == Clamp(score[p] + delta) IN
  /\ known' = known \union {p}
  /\ score' = [score EXCEPT ![p] = s]
  /\ idle' = [idle EXCEPT ![p] = 0]
  /\ IF s <= BlacklistThreshold
     THEN barred' = barred \union {p} /\ left' = [left EXCEPT ![p] = BlacklistDuration]
     ELSE UNCHANGED <<barred, left>>

(* recordEvent(). *)
Scored(p, delta) ==
  LET s == Clamp(score[p] + delta) IN
  /\ known' = known \union {p}
  /\ score' = [score EXCEPT ![p] = s]
  /\ idle' = [idle EXCEPT ![p] = 0]
  /\ IF Bars(p, s)
     THEN barred' = barred \union {p} /\ left' = [left EXCEPT ![p] = BlacklistDuration]
     ELSE UNCHANGED <<barred, left>>

RecordEvent(p, delta) == Scored(p, delta) /\ UNCHANGED <<links, manual>>

(* blacklistPeer(), by hand. *)
BlacklistPeer(p) ==
  /\ manual < MaxManual
  /\ manual' = manual + 1
  /\ known' = known \union {p}
  /\ barred' = barred \union {p}
  /\ left' = [left EXCEPT ![p] = BlacklistDuration]
  /\ idle' = IF p \in known THEN idle ELSE [idle EXCEPT ![p] = 0]
  /\ UNCHANGED <<score, links>>

(* unblacklistPeer() of a peer that is on the list: the score starts over. *)
Pardon(p) ==
  /\ barred' = barred \ {p}
  /\ left' = [left EXCEPT ![p] = 0]
  /\ score' = [score EXCEPT ![p] = InitialScore]
  /\ UNCHANGED <<known, idle, links, manual>>

UnblacklistPeer(p) == p \in barred /\ Pardon(p)

IsBlacklisted(p) == p \in barred /\ left[p] >= 0

(* isBlacklisted() of a peer whose time is over; its other answers change   *)
(* nothing.                                                                 *)
AskExpired(p) == p \in barred /\ ~IsBlacklisted(p) /\ Pardon(p)

ShouldRateLimit(p) ==
  p \in known /\ score[p] < RateLimitThreshold /\ score[p] > BlacklistThreshold

(* Mutant of RecordConnection: the comparison is done before the increment. *)
RecordConnectionLate(p) ==
  /\ count[p] < MaxLinks
  /\ count' = [count EXCEPT ![p] = @ + 1]
  /\ IF count[p] > MaxConnections
     THEN Scored(p, Penalty) /\ refused' = [refused EXCEPT ![p] = @ + 1] /\ UNCHANGED open
     ELSE Scored(p, 0) /\ open' = [open EXCEPT ![p] = @ + 1] /\ UNCHANGED refused
  /\ UNCHANGED manual

(* recordConnection(): one that is refused is counted, too. *)
RecordConnection(p) ==
  /\ count[p] < MaxLinks
  /\ count' = [count EXCEPT ![p] = @ + 1]
  /\ IF count'[p] > MaxConnections
     THEN Scored(p, Penalty) /\ refused' = [refused EXCEPT ![p] = @ + 1] /\ UNCHANGED open
     ELSE Scored(p, 0) /\ open' = [open EXCEPT ![p] = @ + 1] /\ UNCHANGED refused
  /\ UNCHANGED manual

(* removeConnection(), once for every connection that was recorded. *)
RemoveConnection(p) ==
  /\ \/ open[p] > 0 /\ open' = [open EXCEPT ![p] = @ - 1] /\ UNCHANGED refused
     \/ refused[p] > 0 /\ refused' = [refused EXCEPT ![p] = @ - 1] /\ UNCHANGED open
  /\ count' = [count EXCEPT ![p] = IF @ > 0 THEN @ - 1 ELSE 0]
  /\ known' = known \union {p}
  /\ UNCHANGED <<score, idle, barred, left, manual>>

Towards(s) ==
  IF s > Neutral THEN (IF s - DecayRate > Neutral THEN s - DecayRate ELSE Neutral)
  ELSE (IF s + DecayRate < Neutral THEN s + DecayRate ELSE Neutral)

(* applyScoreDecay(), by an interval that may be late. *)
ApplyScoreDecay ==
  LET due == {p \in known : idle[p] = Hour} IN
  /\ score' = [p \in Peer |-> IF p \in due THEN Towards(score[p]) ELSE score[p]]
  /\ idle' = [p \in Peer |-> IF p \in due THEN 0 ELSE idle[p]]
  /\ UNCHANGED <<known, barred, left, links, manual>>

(* A new process has an empty Map, and no connections. clear() alone, which *)
(* keeps them, is for the tests.                                            *)
Restart ==
  /\ known' = {} /\ barred' = {}
  /\ score' = [p \in Peer |-> InitialScore]
  /\ idle' = [p \in Peer |-> 0] /\ left' = [p \in Peer |-> 0]
  /\ count' = [p \in Peer |-> 0]
  /\ open' = [p \in Peer |-> 0] /\ refused' = [p \in Peer |-> 0]
  /\ UNCHANGED manual

(* Time passes. *)
TimePasses ==
  /\ idle' = [p \in Peer |-> IF p \in known /\ idle[p] < Hour THEN idle[p] + 1 ELSE idle[p]]
  /\ left' = [p \in Peer |-> IF p \in barred /\ left[p] >= 0 THEN left[p] - 1 ELSE left[p]]
  /\ UNCHANGED <<known, score, barred, links, manual>>

PeerStep(p) ==
  \/ \E delta \in Deltas : RecordEvent(p, delta)
  \/ BlacklistPeer(p) \/ UnblacklistPeer(p) \/ AskExpired(p)
  \/ RecordConnection(p) \/ RemoveConnection(p)

ReputationNext ==
  \/ \E p \in Peer : PeerStep(p)
  \/ ApplyScoreDecay \/ Restart \/ TimePasses

(* Time goes on, and the caller goes on asking about every peer. *)
Fairness == WF_reputationVars(TimePasses) /\ \A p \in Peer : WF_reputationVars(AskExpired(p))

ReputationSpec == ReputationInit /\ [][ReputationNext]_reputationVars /\ Fairness

----------------------------------------------------------------------------

(* A peer never has more connections than it may, however it opens and      *)
(* closes them, is refused, scored and pardoned in between; nor is it shut  *)
(* out by connections it no longer has (peer-reputation.ts:196-215).        *)
ConnectionsBounded ==
  \A p \in Peer : open[p] <= MaxConnections /\ count[p] = open[p] + refused[p]

(* A peer whose score is low and whom nothing holds back is one whose       *)
(* blacklisting has run out without anybody asking: decay, pardons, refused *)
(* connections and blacklistings by hand leave no other one between the two *)
(* thresholds (peer-reputation.ts:132-135, 155-190).                        *)
OnlyExpiredEscape ==
  \A p \in known :
    score[p] < RateLimitThreshold /\ ~ShouldRateLimit(p) /\ ~IsBlacklisted(p)
      => p \in barred /\ left[p] < 0

(* peer-reputation.test.ts:55, "should blacklist peer when score drops      *)
(* below threshold": an offender whose blacklisting has run out, and whom   *)
(* nobody has asked about, offends again and is not blacklisted, because    *)
(* recordEvent() takes the old entry for a blacklisting                     *)
(* (peer-reputation.ts:133).                                                *)
DropIsBlacklisted ==
  [][\A p \in Peer :
       score'[p] < score[p] /\ score'[p] <= BlacklistThreshold => IsBlacklisted(p)']_reputationVars

(* A peer that is blacklisted is let in again, even if it goes on offending *)
(* all the time (peer-reputation.ts:133, 170-181).                          *)
BlacklistEnds == \A p \in Peer : p \in barred ~> p \notin barred

=============================================================================
