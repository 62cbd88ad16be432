----------------------------- MODULE Discovery -----------------------------
(***************************************************************************)
(* daemon/discovery.ts, and daemon/node.ts around it: one node announces   *)
(* the services it offers, at every interval and whenever they change, and *)
(* another keeps the last announcement it was delivered, until that is too *)
(* old. Gossip delays announcements, loses them and changes their order.   *)
(*                                                                         *)
(* A timestamp is kept as its age. The listener compares the announcer's   *)
(* clock with its own: skew is how far the announcer's is ahead.           *)
(***************************************************************************)
EXTENDS Integers, FiniteSets

CONSTANTS
  Service,         \* ids of services
  Terms,           \* what a service may be offered for
  NotOffered,
  AnnounceEvery,   \* announceIntervalMs (5 minutes)
  StaleAfter,      \* staleTimeoutMs (15 minutes)
  CleanupEvery,    \* cleanupIntervalMs (1 minute)
  MaxDelay,        \* ticks gossip may hold an announcement
  Skews,           \* how far apart the two clocks may be
  MaxInFlight      \* bound: announcements on their way

ASSUME DiscoveryAssumption ==
  /\ NotOffered \notin Terms
  /\ AnnounceEvery \in Nat \ {0} /\ StaleAfter \in Nat \ {0} /\ CleanupEvery \in Nat \ {0}
  /\ MaxDelay \in Nat /\ MaxDelay < AnnounceEvery
  /\ Skews \subseteq Int
  /\ MaxInFlight \in Nat \ {0}

VARIABLES
  skew,            \* constant
  started,         \* isStarted of the announcer
  services,        \* the announcer's services, as id -> terms
  sinceAnnounce,   \* ticks since its interval fired
  inFlight,        \* announcements on their way
  entry,           \* what the listener's Map has for the announcer
  nodePeer,        \* what its LRU cache node.peers has
  sinceCleanup,    \* ticks since its cleanup interval fired
  lastLost,        \* history: the last interval announcement did not arrive
  expected         \* history: one did arrive, and no two in a row were lost since

announcerVars == <<started, services, sinceAnnounce>>
listenerVars == <<entry, nodePeer>>
historyVars == <<lastLost, expected>>
vars == <<skew, announcerVars, inFlight, listenerVars, sinceCleanup, historyVars>>

Offer == [Service -> Terms \cup {NotOffered}]
NoServices == [s \in Service |-> NotOffered]

(* An announcement: made by the interval (or the start), or by a change.    *)
Announcement == [services : Offer, age : 0 .. MaxDelay, periodic : BOOLEAN]

NoEntry == [listed |-> FALSE, services |-> NoServices, age |-> 0]

Later(a, b) == IF a >= b THEN a ELSE b

(* An entry goes at the first cleanup after it is stale.                    *)
OldestEntry == Later(StaleAfter + skew, MaxDelay) + CleanupEvery

TypeOK ==
  /\ skew \in Skews
  /\ started \in BOOLEAN
  /\ services \in Offer
  /\ sinceAnnounce \in 0 .. AnnounceEvery
  /\ inFlight \subseteq Announcement
  /\ entry \in [listed : BOOLEAN, services : Offer, age : 0 .. OldestEntry]
  /\ nodePeer \in [cached : BOOLEAN, services : Offer]
  /\ sinceCleanup \in 0 .. CleanupEvery
  /\ lastLost \in BOOLEAN
  /\ expected \in BOOLEAN

NotCached == [cached |-> FALSE, services |-> NoServices]

Init ==
  /\ skew \in Skews
  /\ started = FALSE
  /\ services = NoServices
  /\ sinceAnnounce = 0
  /\ inFlight = {}
  /\ entry = NoEntry
  /\ nodePeer = NotCached
  /\ sinceCleanup = 0
  /\ lastLost = FALSE
  /\ expected = FALSE

----------------------------------------------------------------------------
(* The announcer.                                                           *)

(* What becomes of an interval announcement that does not arrive.           *)
Missed ==
  /\ lastLost' = TRUE
  /\ expected' = (expected /\ ~lastLost)

Publish(offer, periodic) ==
  /\ Cardinality(inFlight) < MaxInFlight
  /\ inFlight' = inFlight \cup {[services |-> offer, age |-> 0, periodic |-> periodic]}
  /\ UNCHANGED historyVars

PublishFails(periodic) ==
  /\ UNCHANGED inFlight
  /\ IF periodic THEN Missed ELSE UNCHANGED historyVars

(* announce(): the services as they are now, encoded before the publish is  *)
(* awaited. A publish that fails is logged, and is not tried again.         *)
Announce(offer, periodic) == Publish(offer, periodic) \/ PublishFails(periodic)

(* start() of a new process: it has no services, and announces that; a      *)
(* publish that fails here makes the start fail.                            *)
Start ==
  /\ ~started
  /\ started' = TRUE
  /\ sinceAnnounce' = 0
  /\ Publish(services, TRUE)
  /\ UNCHANGED <<skew, services, listenerVars, sinceCleanup>>

(* stop(), or the end of the process: nothing tells the others.             *)
Stop ==
  /\ started
  /\ started' = FALSE
  /\ services' = NoServices
  /\ sinceAnnounce' = 0
  /\ lastLost' = FALSE
  /\ expected' = FALSE
  /\ UNCHANGED <<skew, inFlight, listenerVars, sinceCleanup>>

(* Mutant of IntervalAnnounce: it announces what the node started with. *)
IntervalAnnouncesStart ==
  /\ started /\ sinceAnnounce = AnnounceEvery
  /\ sinceAnnounce' = 0
  /\ Announce(NoServices, TRUE)
  /\ UNCHANGED <<skew, started, services, listenerVars, sinceCleanup>>

IntervalAnnounce ==
  /\ started /\ sinceAnnounce = AnnounceEvery
  /\ sinceAnnounce' = 0
  /\ Announce(services, TRUE)
  /\ UNCHANGED <<skew, started, services, listenerVars, sinceCleanup>>

(* A service of the same id is replaced. The interval is not moved.         *)
RegisterService(s, terms) ==
  /\ started
  /\ services' = [services EXCEPT ![s] = terms]
  /\ Announce(services', FALSE)
  /\ UNCHANGED <<skew, started, sinceAnnounce, listenerVars, sinceCleanup>>

UnregisterService(s) ==
  /\ started
  /\ services[s] # NotOffered
  /\ services' = [services EXCEPT ![s] = NotOffered]
  /\ Announce(services', FALSE)
  /\ UNCHANGED <<skew, started, sinceAnnounce, listenerVars, sinceCleanup>>

----------------------------------------------------------------------------
(* The listener.                                                            *)

(* handleAnnouncement: the last one delivered is kept, also when it is      *)
(* older than the one before; node.ts caches what discovery.ts emits.       *)
HandleAnnouncement(a) ==
  /\ entry' = [listed |-> TRUE, services |-> a.services, age |-> a.age]
  /\ nodePeer' = [cached |-> TRUE, services |-> a.services]

Deliver(a) ==
  /\ a \in inFlight
  /\ inFlight' = inFlight \ {a}
  /\ HandleAnnouncement(a)
  /\ IF a.periodic /\ started
     THEN lastLost' = FALSE /\ expected' = TRUE
     ELSE UNCHANGED historyVars
  /\ UNCHANGED <<skew, announcerVars, sinceCleanup>>

Lose(a) ==
  /\ a \in inFlight
  /\ inFlight' = inFlight \ {a}
  /\ IF a.periodic THEN Missed ELSE UNCHANGED historyVars
  /\ UNCHANGED <<skew, announcerVars, listenerVars, sinceCleanup>>

(* Mutant of Stale: an entry exactly as old as the timeout is stale. *)
StaleTooEarly == entry.listed /\ entry.age - skew >= StaleAfter

(* lastSeen < now - staleTimeoutMs, where lastSeen is the announcer's time. *)
Stale == entry.listed /\ entry.age - skew > StaleAfter

(* Mutant of Cleanup: node.ts does not hear that the peer is stale. *)
CleanupKeepsCache ==
  /\ sinceCleanup = CleanupEvery
  /\ sinceCleanup' = 0
  /\ entry' = IF Stale THEN NoEntry ELSE entry
  /\ UNCHANGED <<skew, announcerVars, inFlight, nodePeer, historyVars>>

(* cleanupStalePeers, and the peer:stale handler of node.ts.                *)
Cleanup ==
  /\ sinceCleanup = CleanupEvery
  /\ sinceCleanup' = 0
  /\ entry' = IF Stale THEN NoEntry ELSE entry
  /\ nodePeer' = IF Stale THEN NotCached ELSE nodePeer
  /\ UNCHANGED <<skew, announcerVars, inFlight, historyVars>>

(* Other peers, or its hour, push the announcer out of the LRU cache.       *)
Evict ==
  /\ nodePeer.cached
  /\ nodePeer' = NotCached
  /\ UNCHANGED <<skew, announcerVars, inFlight, entry, sinceCleanup, historyVars>>

(* Time passes when no timer is due and gossip holds nothing for too long.  *)
Tick ==
  /\ started => sinceAnnounce < AnnounceEvery
  /\ sinceCleanup < CleanupEvery
  /\ \A a \in inFlight : a.age < MaxDelay
  /\ sinceAnnounce' = IF started THEN sinceAnnounce + 1 ELSE 0
  /\ sinceCleanup' = sinceCleanup + 1
  /\ inFlight' = {[a EXCEPT !.age = @ + 1] : a \in inFlight}
  /\ entry' = IF entry.listed THEN [entry EXCEPT !.age = @ + 1] ELSE entry
  /\ UNCHANGED <<skew, started, services, nodePeer, historyVars>>

Next ==
  \/ Start \/ Stop \/ IntervalAnnounce
  \/ \E s \in Service : UnregisterService(s) \/ \E terms \in Terms : RegisterService(s, terms)
  \/ \E a \in inFlight : Deliver(a) \/ Lose(a)
  \/ Cleanup \/ Evict \/ Tick

Spec == Init /\ [][Next]_vars

(* Time passes and timers fire. Gossip delivers or loses what it holds; it  *)
(* does not fail for ever to publish, or lose for ever, what is announced   *)
(* for ever.                                                                *)
FairSpec ==
  /\ Spec
  /\ WF_vars(Tick) /\ WF_vars(Cleanup) /\ WF_vars(IntervalAnnounce)
  /\ WF_vars(\E a \in inFlight : Deliver(a) \/ Lose(a))
  /\ SF_vars(IntervalAnnounce /\ Publish(services, TRUE))
  /\ SF_vars(\E a \in inFlight : a.services = services /\ Deliver(a))

----------------------------------------------------------------------------
(* Properties.                                                              *)

(* What node.peers has of a peer is what the discovery service has of it:   *)
(* getPeers() never shows a peer the service forgot, or services it has     *)
(* replaced (discovery.ts:166-176, 191-198; node.ts:426-446).               *)
CacheFollowsMap ==
  nodePeer.cached => entry.listed /\ nodePeer.services = entry.services

(* A running node of whose interval announcements no two in a row are lost  *)
(* stays listed from the first one on, delays, losses and an older          *)
(* announcement that arrives last included, if the timeout covers two       *)
(* intervals, two delays and what its clock is behind                       *)
(* (discovery.ts:21-22, 163-167, 186-203).                                  *)
LivePeerListed ==
  expected /\ 2 * AnnounceEvery + 2 * MaxDelay - skew <= StaleAfter => entry.listed

(* A node that has stopped is forgotten, in both places, although nothing   *)
(* announces its end and its last announcements may still be on their way   *)
(* (discovery.ts:93-112, 186-203).                                          *)
GoneIsForgotten == <>[](~started) => <>[](~entry.listed /\ ~nodePeer.cached)

(* Services that no longer change are, again and again, what the listener   *)
(* has, and at last nothing else is: an older announcement that overwrote   *)
(* a newer one is itself replaced by the next interval                      *)
(* (discovery.ts:73-78, 166-167, 208-240).                                  *)
ServicesSpread ==
  \A offer \in Offer :
    <>[](started /\ services = offer) =>
      /\ []<>(entry.listed /\ entry.services = offer)
      /\ <>[](entry.listed => entry.services = offer)

=============================================================================
