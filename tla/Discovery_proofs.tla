-------------------------- MODULE Discovery_proofs --------------------------
(***************************************************************************)
(* For any intervals, delays and clocks: the cache follows the Map, and a  *)
(* node of which no two interval announcements in a row are lost stays     *)
(* listed.                                                                 *)
(***************************************************************************)
EXTENDS Discovery, TLAPS

(* An entry older than it may get is seen by the next cleanup.             *)
EntryAged ==
  entry.listed => entry.age <= Later(StaleAfter + skew, MaxDelay) + sinceCleanup

(* An interval announcement on its way was not made before the last tick   *)
(* of the interval, so none is left when the interval fires again.         *)
PeriodicIsRecent ==
  \A a \in inFlight : a.periodic /\ started => sinceAnnounce <= a.age

Outstanding == \E a \in inFlight : a.periodic

TimeoutCovers == 2 * AnnounceEvery + 2 * MaxDelay - skew <= StaleAfter

(* How old the entry of an expected node may be: what was delivered last   *)
(* was MaxDelay old at most, and one interval went by for the announcement *)
(* that was lost, one for the one on its way.                              *)
OldestExpected ==
  MaxDelay + sinceAnnounce + (IF lastLost THEN AnnounceEvery ELSE 0)
    + (IF Outstanding THEN AnnounceEvery ELSE 0)

ExpectedIsYoung ==
  expected /\ TimeoutCovers => started /\ entry.listed /\ entry.age <= OldestExpected

IInv ==
  /\ TypeOK
  /\ EntryAged
  /\ CacheFollowsMap
  /\ PeriodicIsRecent
  /\ ExpectedIsYoung

LEMMA LaterBounds ==
  ASSUME NEW a \in Int, NEW b \in Int
  PROVE  Later(a, b) \in Int /\ a <= Later(a, b) /\ b <= Later(a, b)
BY DEF Later

LEMMA SkewIsInt == TypeOK => skew \in Int
BY DiscoveryAssumption DEF TypeOK

LEMMA OfferTypes == NoServices \in Offer
BY DEF NoServices, Offer

LEMMA CounterTypes ==
  /\ 0 \in 0 .. AnnounceEvery /\ 0 \in 0 .. CleanupEvery
  /\ {} \subseteq Announcement
BY DiscoveryAssumption

(* An entry no older than EntryAged says has the type of an entry.         *)
LEMMA OldestEntryBounds ==
  ASSUME skew \in Int
  PROVE  /\ Later(StaleAfter + skew, MaxDelay) \in Int
         /\ StaleAfter + skew <= Later(StaleAfter + skew, MaxDelay)
         /\ MaxDelay <= Later(StaleAfter + skew, MaxDelay)
         /\ OldestEntry = Later(StaleAfter + skew, MaxDelay) + CleanupEvery
         /\ OldestEntry \in Nat
<1>1. StaleAfter + skew \in Int /\ MaxDelay \in Int /\ MaxDelay >= 0 /\ CleanupEvery \in Nat
  BY DiscoveryAssumption
<1>2. /\ Later(StaleAfter + skew, MaxDelay) \in Int
      /\ StaleAfter + skew <= Later(StaleAfter + skew, MaxDelay)
      /\ MaxDelay <= Later(StaleAfter + skew, MaxDelay)
  BY <1>1, LaterBounds
<1>3. OldestEntry = Later(StaleAfter + skew, MaxDelay) + CleanupEvery
  BY DEF OldestEntry
<1> QED BY <1>1, <1>2, <1>3

(* The two delays and two intervals an expected entry may be old.          *)
LEMMA OldestExpectedBounds ==
  ASSUME TypeOK
  PROVE  /\ OldestExpected \in Int
         /\ MaxDelay <= OldestExpected
         /\ ~Outstanding => OldestExpected <= MaxDelay + 2 * AnnounceEvery
         /\ Outstanding => OldestExpected <= MaxDelay + sinceAnnounce + 2 * AnnounceEvery
BY DiscoveryAssumption DEF TypeOK, OldestExpected

----------------------------------------------------------------------------

LEMMA InitIInv == Init => IInv
<1> SUFFICES ASSUME Init PROVE IInv
  OBVIOUS
<1>1. OldestEntry \in Nat
  BY OldestEntryBounds, DiscoveryAssumption DEF Init
<1>2. entry \in [listed : BOOLEAN, services : Offer, age : 0 .. OldestEntry]
  BY <1>1, OfferTypes DEF Init, NoEntry
<1>3. nodePeer \in [cached : BOOLEAN, services : Offer]
  BY OfferTypes DEF Init, NotCached
<1>4. TypeOK
  BY <1>2, <1>3, OfferTypes, CounterTypes, Zenon DEF Init, TypeOK
<1>5. EntryAged /\ CacheFollowsMap /\ PeriodicIsRecent /\ ExpectedIsYoung
  BY DEF Init, NoEntry, NotCached, EntryAged, CacheFollowsMap, PeriodicIsRecent, ExpectedIsYoung
<1> QED BY <1>4, <1>5 DEF IInv

(* What does not touch the listener.                                       *)
LEMMA ListenerAlone ==
  ASSUME IInv, UNCHANGED <<skew, listenerVars, sinceCleanup>>
  PROVE  /\ skew' \in Skews
         /\ entry' \in [listed : BOOLEAN, services : Offer, age : 0 .. OldestEntry']
         /\ nodePeer' \in [cached : BOOLEAN, services : Offer]
         /\ sinceCleanup' \in 0 .. CleanupEvery
         /\ EntryAged' /\ CacheFollowsMap'
<1>1. OldestEntry' = OldestEntry
  BY DEF OldestEntry
<1> QED BY <1>1 DEF listenerVars, IInv, TypeOK, EntryAged, CacheFollowsMap

(* What a publish adds is an announcement made now.                        *)
LEMMA PublishedNow ==
  ASSUME IInv, NEW offer \in Offer, NEW periodic \in BOOLEAN,
         inFlight' = inFlight \cup {[services |-> offer, age |-> 0, periodic |-> periodic]}
  PROVE  /\ inFlight' \subseteq Announcement
         /\ Outstanding' <=> Outstanding \/ periodic
<1>1. [services |-> offer, age |-> 0, periodic |-> periodic] \in Announcement
  BY DiscoveryAssumption DEF Announcement
<1> QED BY <1>1 DEF IInv, TypeOK, Outstanding

LEMMA StartIInv == IInv /\ Start => IInv'
<1> SUFFICES ASSUME IInv, Start PROVE IInv'
  OBVIOUS
<1>1. /\ ~started /\ started' = TRUE /\ sinceAnnounce' = 0
      /\ inFlight' = inFlight \cup {[services |-> services, age |-> 0, periodic |-> TRUE]}
      /\ UNCHANGED <<skew, services, listenerVars, sinceCleanup, historyVars>>
  BY DEF Start, Publish
<1>2. /\ skew' \in Skews
      /\ entry' \in [listed : BOOLEAN, services : Offer, age : 0 .. OldestEntry']
      /\ nodePeer' \in [cached : BOOLEAN, services : Offer]
      /\ sinceCleanup' \in 0 .. CleanupEvery
      /\ EntryAged' /\ CacheFollowsMap'
  BY <1>1, ListenerAlone
<1>3. inFlight' \subseteq Announcement
  BY <1>1, PublishedNow DEF IInv, TypeOK
<1>4. TypeOK'
  BY <1>1, <1>2, <1>3, DiscoveryAssumption DEF IInv, TypeOK, historyVars
<1>5. PeriodicIsRecent'
  BY <1>1, <1>3 DEF PeriodicIsRecent, Announcement
<1>6. ExpectedIsYoung'
  BY <1>1 DEF IInv, historyVars, ExpectedIsYoung, TimeoutCovers
<1> QED BY <1>2, <1>4, <1>5, <1>6 DEF IInv

LEMMA StopIInv == IInv /\ Stop => IInv'
<1> SUFFICES ASSUME IInv, Stop PROVE IInv'
  OBVIOUS
<1>1. /\ started' = FALSE /\ services' = NoServices /\ sinceAnnounce' = 0
      /\ lastLost' = FALSE /\ expected' = FALSE
      /\ UNCHANGED <<skew, inFlight, listenerVars, sinceCleanup>>
  BY DEF Stop
<1>2. /\ skew' \in Skews
      /\ entry' \in [listed : BOOLEAN, services : Offer, age : 0 .. OldestEntry']
      /\ nodePeer' \in [cached : BOOLEAN, services : Offer]
      /\ sinceCleanup' \in 0 .. CleanupEvery
      /\ EntryAged' /\ CacheFollowsMap'
  BY <1>1, ListenerAlone
<1>3. TypeOK'
  BY <1>1, <1>2, OfferTypes, CounterTypes, Zenon DEF IInv, TypeOK
<1>4. PeriodicIsRecent' /\ ExpectedIsYoung'
  BY <1>1 DEF PeriodicIsRecent, ExpectedIsYoung
<1> QED BY <1>2, <1>3, <1>4 DEF IInv

(* What a registration or a failed publish leaves: the interval, and what  *)
(* is expected of it.                                                      *)
LEMMA ChangeIInv ==
  ASSUME IInv, started, NEW offer \in Offer, services' = offer, Announce(offer, FALSE),
         UNCHANGED <<skew, started, sinceAnnounce, listenerVars, sinceCleanup>>
  PROVE  IInv'
<1>1. /\ skew' \in Skews
      /\ entry' \in [listed : BOOLEAN, services : Offer, age : 0 .. OldestEntry']
      /\ nodePeer' \in [cached : BOOLEAN, services : Offer]
      /\ sinceCleanup' \in 0 .. CleanupEvery
      /\ EntryAged' /\ CacheFollowsMap'
  BY ListenerAlone
<1>2. UNCHANGED historyVars
  BY DEF Announce, Publish, PublishFails
<1>3. /\ inFlight' \subseteq Announcement
      /\ Outstanding' <=> Outstanding
      /\ \A a \in inFlight' : a.periodic => a \in inFlight
  <2>1. CASE Publish(offer, FALSE)
    <3>1. inFlight' = inFlight \cup {[services |-> offer, age |-> 0, periodic |-> FALSE]}
      BY <2>1 DEF Publish
    <3>2. inFlight' \subseteq Announcement /\ (Outstanding' <=> Outstanding)
      BY <3>1, PublishedNow
    <3>3. \A a \in inFlight' : a.periodic => a \in inFlight
      BY <3>1
    <3> QED BY <3>2, <3>3
  <2>2. CASE PublishFails(FALSE)
    BY <2>2 DEF PublishFails, IInv, TypeOK, Outstanding
  <2> QED BY <2>1, <2>2 DEF Announce
<1>4. TypeOK'
  BY <1>1, <1>2, <1>3, Zenon DEF IInv, TypeOK, historyVars
<1>5. PeriodicIsRecent'
  BY <1>3 DEF IInv, PeriodicIsRecent
<1>6. OldestExpected' = OldestExpected
  BY <1>2, <1>3 DEF OldestExpected, historyVars
<1>7. ExpectedIsYoung'
  BY <1>2, <1>6 DEF IInv, ExpectedIsYoung, TimeoutCovers, historyVars, listenerVars
<1> QED BY <1>1, <1>4, <1>5, <1>7 DEF IInv

LEMMA RegisterIInv ==
  ASSUME IInv, NEW s \in Service, NEW terms \in Terms, RegisterService(s, terms)
  PROVE  IInv'
<1> DEFINE offer == [services EXCEPT ![s] = terms]
<1>1. offer \in Offer
  BY DEF IInv, TypeOK, Offer
<1>2. /\ started /\ services' = offer /\ Announce(offer, FALSE)
      /\ UNCHANGED <<skew, started, sinceAnnounce, listenerVars, sinceCleanup>>
  BY DEF RegisterService, Announce, Publish, PublishFails
<1> HIDE DEF offer
<1> QED BY <1>1, <1>2, ChangeIInv

LEMMA UnregisterIInv ==
  ASSUME IInv, NEW s \in Service, UnregisterService(s)
  PROVE  IInv'
<1> DEFINE offer == [services EXCEPT ![s] = NotOffered]
<1>1. offer \in Offer
  BY DEF IInv, TypeOK, Offer
<1>2. /\ started /\ services' = offer /\ Announce(offer, FALSE)
      /\ UNCHANGED <<skew, started, sinceAnnounce, listenerVars, sinceCleanup>>
  BY DEF UnregisterService, Announce, Publish, PublishFails
<1> HIDE DEF offer
<1> QED BY <1>1, <1>2, ChangeIInv

(* When the interval fires, the interval announcement before it has        *)
(* arrived or is lost.                                                     *)
LEMMA NoneOutstanding ==
  ASSUME IInv, started, sinceAnnounce = AnnounceEvery
  PROVE  ~Outstanding
<1> SUFFICES ASSUME NEW a \in inFlight, a.periodic PROVE FALSE
  BY DEF Outstanding
<1>1. a.age \in 0 .. MaxDelay
  BY DEF IInv, TypeOK, Announcement
<1>2. AnnounceEvery <= a.age
  BY DEF IInv, PeriodicIsRecent
<1> QED BY <1>1, <1>2, DiscoveryAssumption

LEMMA IntervalIInv == IInv /\ IntervalAnnounce => IInv'
<1> SUFFICES ASSUME IInv, IntervalAnnounce PROVE IInv'
  OBVIOUS
<1>1. /\ started /\ sinceAnnounce = AnnounceEvery /\ sinceAnnounce' = 0
      /\ UNCHANGED <<skew, started, services, listenerVars, sinceCleanup>>
  BY DEF IntervalAnnounce
<1>2. /\ skew' \in Skews
      /\ entry' \in [listed : BOOLEAN, services : Offer, age : 0 .. OldestEntry']
      /\ nodePeer' \in [cached : BOOLEAN, services : Offer]
      /\ sinceCleanup' \in 0 .. CleanupEvery
      /\ EntryAged' /\ CacheFollowsMap'
  BY <1>1, ListenerAlone
<1>3. ~Outstanding /\ services \in Offer
  BY <1>1, NoneOutstanding DEF IInv, TypeOK
<1>4. inFlight' \subseteq Announcement /\ lastLost' \in BOOLEAN /\ expected' \in BOOLEAN
  <2>1. CASE Publish(services, TRUE)
    BY <2>1, <1>3, PublishedNow DEF Publish, historyVars, IInv, TypeOK
  <2>2. CASE PublishFails(TRUE)
    BY <2>2, Zenon DEF PublishFails, Missed, IInv, TypeOK
  <2> QED BY <2>1, <2>2 DEF IntervalAnnounce, Announce
<1>5. TypeOK'
  BY <1>1, <1>2, <1>4, CounterTypes, Zenon DEF IInv, TypeOK
<1>6. PeriodicIsRecent'
  <2> SUFFICES ASSUME NEW a \in inFlight' PROVE 0 <= a.age
    BY <1>1 DEF PeriodicIsRecent
  <2>1. a.age \in 0 .. MaxDelay
    BY <1>4 DEF Announcement
  <2> QED BY <2>1, DiscoveryAssumption
<1>7. ASSUME expected', TimeoutCovers'
      PROVE  started' /\ entry'.listed /\ entry'.age <= OldestExpected'
  <2>1. /\ expected /\ TimeoutCovers /\ started' /\ entry' = entry
        /\ (~lastLost /\ lastLost' /\ ~Outstanding') \/ (lastLost' = lastLost /\ Outstanding')
    <3>1. CASE Publish(services, TRUE)
      BY <3>1, <1>1, <1>3, <1>7, PublishedNow
        DEF Publish, historyVars, listenerVars, TimeoutCovers, IInv, TypeOK
    <3>2. CASE PublishFails(TRUE)
      BY <3>2, <1>1, <1>3, <1>7
        DEF PublishFails, Missed, listenerVars, TimeoutCovers, Outstanding
    <3> QED BY <3>1, <3>2 DEF IntervalAnnounce, Announce
  <2>2. entry.listed /\ entry.age <= OldestExpected
    BY <2>1 DEF IInv, ExpectedIsYoung
  <2>3. OldestExpected <= OldestExpected'
    BY <2>1, <1>1, <1>3, DiscoveryAssumption DEF OldestExpected
  <2>4. OldestExpected \in Int /\ OldestExpected' \in Int /\ entry.age \in Int
    BY <1>1, DiscoveryAssumption DEF OldestExpected, IInv, TypeOK, OldestEntry
  <2> QED BY <2>1, <2>2, <2>3, <2>4
<1>8. ExpectedIsYoung'
  BY <1>7 DEF ExpectedIsYoung
<1> QED BY <1>2, <1>5, <1>6, <1>8 DEF IInv

(* What is delivered or lost was on its way, and is no longer.             *)
LEMMA LandedNow ==
  ASSUME IInv, NEW a \in inFlight, inFlight' = inFlight \ {a}
  PROVE  /\ inFlight' \subseteq Announcement
         /\ a.services \in Offer /\ a.periodic \in BOOLEAN
         /\ a.age \in Int /\ 0 <= a.age /\ a.age <= MaxDelay
         /\ a.periodic => Outstanding
         /\ ~a.periodic => (Outstanding' <=> Outstanding)
<1>1. inFlight' \subseteq Announcement
  BY DEF IInv, TypeOK
<1>2. a.services \in Offer /\ a.periodic \in BOOLEAN /\ a.age \in 0 .. MaxDelay
  BY DEF IInv, TypeOK, Announcement
<1>3. a.age \in Int /\ 0 <= a.age /\ a.age <= MaxDelay
  BY <1>2, DiscoveryAssumption
<1>4. a.periodic => Outstanding
  BY DEF Outstanding
<1>5. ~a.periodic => (Outstanding' <=> Outstanding)
  BY DEF Outstanding
<1> QED BY <1>1, <1>2, <1>3, <1>4, <1>5

LEMMA DeliverIInv ==
  ASSUME IInv, NEW a \in inFlight, Deliver(a)
  PROVE  IInv'
<1>1. /\ inFlight' = inFlight \ {a}
      /\ entry' = [listed |-> TRUE, services |-> a.services, age |-> a.age]
      /\ nodePeer' = [cached |-> TRUE, services |-> a.services]
      /\ UNCHANGED <<skew, started, services, sinceAnnounce, sinceCleanup>>
  BY DEF Deliver, HandleAnnouncement, announcerVars
<1>2. /\ inFlight' \subseteq Announcement
      /\ a.services \in Offer /\ a.periodic \in BOOLEAN
      /\ a.age \in Int /\ 0 <= a.age /\ a.age <= MaxDelay
  BY <1>1, LandedNow
<1>3. /\ skew \in Int /\ OldestEntry' = OldestEntry /\ OldestEntry \in Nat
      /\ MaxDelay <= Later(StaleAfter + skew, MaxDelay)
      /\ Later(StaleAfter + skew, MaxDelay) \in Int
      /\ OldestEntry = Later(StaleAfter + skew, MaxDelay) + CleanupEvery
      /\ sinceCleanup \in Int /\ 0 <= sinceCleanup
  BY <1>1, SkewIsInt, OldestEntryBounds, DiscoveryAssumption DEF IInv, TypeOK, OldestEntry
<1>4. a.age \in 0 .. OldestEntry /\ MaxDelay \in Nat /\ CleanupEvery \in Nat
  BY <1>2, <1>3, DiscoveryAssumption
<1>5. /\ entry' \in [listed : BOOLEAN, services : Offer, age : 0 .. OldestEntry']
      /\ nodePeer' \in [cached : BOOLEAN, services : Offer]
  BY <1>1, <1>2, <1>3, <1>4
<1>6. lastLost' \in BOOLEAN /\ expected' \in BOOLEAN
  BY Zenon DEF Deliver, historyVars, IInv, TypeOK
<1>7. TypeOK'
  BY <1>1, <1>2, <1>5, <1>6, Zenon DEF IInv, TypeOK
<1>8. EntryAged' /\ CacheFollowsMap' /\ PeriodicIsRecent'
  BY <1>1, <1>2, <1>3, <1>4 DEF IInv, EntryAged, CacheFollowsMap, PeriodicIsRecent
<1>9. ASSUME expected', TimeoutCovers'
      PROVE  started' /\ entry'.listed /\ entry'.age <= OldestExpected'
  <2>1. started
    BY <1>1, <1>9 DEF Deliver, historyVars, IInv, ExpectedIsYoung, TimeoutCovers
  <2>2. OldestExpected' \in Int /\ MaxDelay <= OldestExpected'
    <3>1. sinceAnnounce' = sinceAnnounce /\ sinceAnnounce \in Int /\ 0 <= sinceAnnounce
      BY <1>1, DiscoveryAssumption DEF IInv, TypeOK
    <3> QED BY <3>1, DiscoveryAssumption DEF OldestExpected
  <2> QED BY <2>1, <2>2, <1>1, <1>2, <1>4
<1>10. ExpectedIsYoung'
  BY <1>9 DEF ExpectedIsYoung
<1> QED BY <1>7, <1>8, <1>10 DEF IInv

LEMMA LoseIInv ==
  ASSUME IInv, NEW a \in inFlight, Lose(a)
  PROVE  IInv'
<1>1. /\ inFlight' = inFlight \ {a}
      /\ UNCHANGED <<skew, started, services, sinceAnnounce, listenerVars, sinceCleanup>>
  BY DEF Lose, announcerVars
<1>2. /\ inFlight' \subseteq Announcement
      /\ a.periodic \in BOOLEAN
      /\ a.periodic => Outstanding
      /\ ~a.periodic => (Outstanding' <=> Outstanding)
  BY <1>1, LandedNow
<1>3. /\ skew' \in Skews
      /\ entry' \in [listed : BOOLEAN, services : Offer, age : 0 .. OldestEntry']
      /\ nodePeer' \in [cached : BOOLEAN, services : Offer]
      /\ sinceCleanup' \in 0 .. CleanupEvery
      /\ EntryAged' /\ CacheFollowsMap'
  BY <1>1, ListenerAlone
<1>4. lastLost' \in BOOLEAN /\ expected' \in BOOLEAN
  BY Zenon DEF Lose, Missed, historyVars, IInv, TypeOK
<1>5. TypeOK'
  BY <1>1, <1>2, <1>3, <1>4, Zenon DEF IInv, TypeOK
<1>6. PeriodicIsRecent'
  BY <1>1 DEF IInv, PeriodicIsRecent
<1>7. ASSUME expected', TimeoutCovers'
      PROVE  started' /\ entry'.listed /\ entry'.age <= OldestExpected'
  <2>1. /\ expected /\ TimeoutCovers /\ started' = started /\ entry' = entry
        /\ \/ ~lastLost /\ lastLost' /\ Outstanding
           \/ lastLost' = lastLost /\ (Outstanding' <=> Outstanding)
    BY <1>1, <1>2, <1>7 DEF Lose, Missed, historyVars, listenerVars, TimeoutCovers
  <2>2. started /\ entry.listed /\ entry.age <= OldestExpected
    BY <2>1 DEF IInv, ExpectedIsYoung
  <2>3. OldestExpected <= OldestExpected'
    BY <2>1, <1>1, DiscoveryAssumption DEF OldestExpected, IInv, TypeOK
  <2>4. OldestExpected \in Int /\ OldestExpected' \in Int
    BY <1>1, DiscoveryAssumption DEF OldestExpected, IInv, TypeOK
  <2>5. entry.age \in Int
    BY SkewIsInt, OldestEntryBounds DEF IInv, TypeOK
  <2> QED BY <2>1, <2>2, <2>3, <2>4, <2>5
<1>8. ExpectedIsYoung'
  BY <1>7 DEF ExpectedIsYoung
<1> QED BY <1>3, <1>5, <1>6, <1>8 DEF IInv

(* What the cleanup drops is not expected.                                 *)
LEMMA ExpectedIsNotStale ==
  ASSUME IInv, expected, TimeoutCovers
  PROVE  ~Stale
<1>1. started /\ entry.listed /\ entry.age <= OldestExpected
  BY DEF IInv, ExpectedIsYoung
<1>2. OldestExpected \in Int /\ OldestExpected <= 2 * MaxDelay + 2 * AnnounceEvery
  <2>1. CASE Outstanding
    <3>1. PICK a \in inFlight : a.periodic
      BY <2>1 DEF Outstanding
    <3>2. sinceAnnounce <= a.age /\ a.age \in 0 .. MaxDelay
      BY <1>1, <3>1 DEF IInv, PeriodicIsRecent, TypeOK, Announcement
    <3>3. sinceAnnounce <= MaxDelay
      BY <3>2, DiscoveryAssumption DEF IInv, TypeOK
    <3> QED BY <2>1, <3>3, DiscoveryAssumption DEF IInv, TypeOK, OldestExpected
  <2>2. CASE ~Outstanding
    BY <2>2, DiscoveryAssumption DEF IInv, TypeOK, OldestExpected
  <2> QED BY <2>1, <2>2
<1>3. entry.age \in Int /\ skew \in Int
  BY SkewIsInt, OldestEntryBounds DEF IInv, TypeOK
<1> QED BY <1>1, <1>2, <1>3, DiscoveryAssumption DEF Stale, TimeoutCovers

LEMMA CleanupIInv == IInv /\ Cleanup => IInv'
<1> SUFFICES ASSUME IInv, Cleanup PROVE IInv'
  OBVIOUS
<1>1. /\ sinceCleanup' = 0
      /\ entry' = IF Stale THEN NoEntry ELSE entry
      /\ nodePeer' = IF Stale THEN NotCached ELSE nodePeer
      /\ UNCHANGED <<skew, started, services, sinceAnnounce, inFlight, lastLost, expected>>
  BY DEF Cleanup, announcerVars, historyVars
<1>2. /\ skew \in Int /\ OldestEntry' = OldestEntry /\ OldestEntry \in Nat
      /\ StaleAfter + skew <= Later(StaleAfter + skew, MaxDelay)
      /\ Later(StaleAfter + skew, MaxDelay) \in Int
      /\ entry.age \in Int
  BY <1>1, SkewIsInt, OldestEntryBounds DEF IInv, TypeOK, OldestEntry
<1>3. NoEntry \in [listed : BOOLEAN, services : Offer, age : 0 .. OldestEntry]
  BY <1>2, OfferTypes DEF NoEntry
<1>4. NotCached \in [cached : BOOLEAN, services : Offer]
  BY OfferTypes DEF NotCached
<1>5. TypeOK'
  BY <1>1, <1>2, <1>3, <1>4, CounterTypes, Zenon DEF IInv, TypeOK
<1>6. EntryAged'
  <2>1. CASE Stale
    BY <2>1, <1>1 DEF EntryAged, NoEntry
  <2>2. CASE ~Stale
    BY <2>2, <1>1, <1>2, DiscoveryAssumption DEF EntryAged, Stale
  <2> QED BY <2>1, <2>2
<1>7. CacheFollowsMap'
  BY <1>1 DEF IInv, CacheFollowsMap, NotCached
<1>8. PeriodicIsRecent'
  BY <1>1 DEF IInv, PeriodicIsRecent
<1>9. OldestExpected' = OldestExpected
  BY <1>1 DEF OldestExpected, Outstanding
<1>10. ExpectedIsYoung'
  BY <1>1, <1>9, ExpectedIsNotStale DEF IInv, ExpectedIsYoung, TimeoutCovers
<1> QED BY <1>5, <1>6, <1>7, <1>8, <1>10 DEF IInv

LEMMA EvictIInv == IInv /\ Evict => IInv'
<1> SUFFICES ASSUME IInv, Evict PROVE IInv'
  OBVIOUS
<1>1. /\ nodePeer' = NotCached
      /\ UNCHANGED <<skew, started, services, sinceAnnounce, inFlight, entry, sinceCleanup,
                     lastLost, expected>>
  BY DEF Evict, announcerVars, historyVars
<1>2. NotCached \in [cached : BOOLEAN, services : Offer]
  BY OfferTypes DEF NotCached
<1>3. OldestEntry' = OldestEntry /\ OldestExpected' = OldestExpected
  BY <1>1 DEF OldestEntry, OldestExpected, Outstanding
<1>4. TypeOK'
  BY <1>1, <1>2, <1>3, Zenon DEF IInv, TypeOK
<1>5. EntryAged' /\ CacheFollowsMap' /\ PeriodicIsRecent' /\ ExpectedIsYoung'
  BY <1>1, <1>3
    DEF IInv, EntryAged, CacheFollowsMap, NotCached, PeriodicIsRecent, ExpectedIsYoung,
        TimeoutCovers
<1> QED BY <1>4, <1>5 DEF IInv

(* A tick makes everything one older.                                      *)
LEMMA TickIInv == IInv /\ Tick => IInv'
<1> SUFFICES ASSUME IInv, Tick PROVE IInv'
  OBVIOUS
<1> DEFINE older(a) == [a EXCEPT !.age = @ + 1]
<1>1. /\ started => sinceAnnounce < AnnounceEvery
      /\ sinceCleanup < CleanupEvery
      /\ \A a \in inFlight : a.age < MaxDelay
      /\ sinceAnnounce' = IF started THEN sinceAnnounce + 1 ELSE 0
      /\ sinceCleanup' = sinceCleanup + 1
      /\ inFlight' = {older(a) : a \in inFlight}
      /\ entry' = IF entry.listed THEN [entry EXCEPT !.age = @ + 1] ELSE entry
      /\ UNCHANGED <<skew, started, services, nodePeer, lastLost, expected>>
  BY DEF Tick, historyVars
<1>2. ASSUME NEW a \in inFlight
      PROVE  /\ older(a) \in Announcement
             /\ older(a).periodic = a.periodic /\ older(a).age = a.age + 1
             /\ a.age \in Int
  <2>1. a \in Announcement /\ a.age < MaxDelay
    BY <1>1 DEF IInv, TypeOK
  <2>2. a.age \in 0 .. MaxDelay
    BY <2>1 DEF Announcement
  <2>3. a.age + 1 \in 0 .. MaxDelay /\ a.age \in Int
    BY <2>1, <2>2, DiscoveryAssumption
  <2>4. ASSUME NEW later \in 0 .. MaxDelay
        PROVE  /\ [a EXCEPT !.age = later] \in Announcement
               /\ [a EXCEPT !.age = later].periodic = a.periodic
               /\ [a EXCEPT !.age = later].age = later
    BY <2>1 DEF Announcement
  <2> QED BY <2>3, <2>4
<1>3. inFlight' \subseteq Announcement /\ (Outstanding' <=> Outstanding)
  BY <1>1, <1>2 DEF Outstanding
<1>4. /\ sinceAnnounce \in Int /\ 0 <= sinceAnnounce
      /\ sinceAnnounce' \in 0 .. AnnounceEvery
      /\ sinceCleanup \in Int /\ 0 <= sinceCleanup
      /\ sinceCleanup' \in 0 .. CleanupEvery
  BY <1>1, DiscoveryAssumption DEF IInv, TypeOK
<1>5. /\ OldestEntry' = OldestEntry /\ OldestEntry \in Nat
      /\ Later(StaleAfter + skew, MaxDelay) \in Int
      /\ OldestEntry = Later(StaleAfter + skew, MaxDelay) + CleanupEvery
  BY <1>1, SkewIsInt, OldestEntryBounds DEF IInv, OldestEntry
<1>6. /\ entry.age \in Int /\ 0 <= entry.age
      /\ entry.listed => entry.age + 1 \in 0 .. OldestEntry
      /\ entry.listed => entry.age + 1 <= Later(StaleAfter + skew, MaxDelay) + sinceCleanup'
  <2>1. entry.age \in 0 .. OldestEntry
    BY DEF IInv, TypeOK
  <2>2. entry.listed => entry.age <= Later(StaleAfter + skew, MaxDelay) + sinceCleanup
    BY DEF IInv, EntryAged
  <2> QED BY <2>1, <2>2, <1>1, <1>4, <1>5, DiscoveryAssumption
<1>7. /\ entry' \in [listed : BOOLEAN, services : Offer, age : 0 .. OldestEntry']
      /\ entry'.listed = entry.listed /\ entry'.services = entry.services
      /\ entry.listed => entry'.age = entry.age + 1
  <2>1. entry \in [listed : BOOLEAN, services : Offer, age : 0 .. OldestEntry]
    BY DEF IInv, TypeOK
  <2> DEFINE next == entry.age + 1
  <2>2. entry.listed => next \in 0 .. OldestEntry
    BY <1>6
  <2>3. entry' = IF entry.listed THEN [entry EXCEPT !.age = next] ELSE entry
    BY <1>1
  <2> HIDE DEF next
  <2>4. /\ entry' \in [listed : BOOLEAN, services : Offer, age : 0 .. OldestEntry]
        /\ entry'.listed = entry.listed /\ entry'.services = entry.services
        /\ entry.listed => entry'.age = next
    BY <2>1, <2>2, <2>3
  <2> QED BY <2>4, <1>5 DEF next
<1>8. TypeOK'
  BY <1>1, <1>3, <1>4, <1>7, Zenon DEF IInv, TypeOK
<1>9. EntryAged'
  BY <1>1, <1>5, <1>6, <1>7 DEF EntryAged
<1>10. CacheFollowsMap'
  BY <1>1, <1>7 DEF IInv, CacheFollowsMap
<1>11. PeriodicIsRecent'
  <2> SUFFICES ASSUME NEW a \in inFlight, older(a).periodic, started
               PROVE  sinceAnnounce' <= older(a).age
    BY <1>1 DEF PeriodicIsRecent
  <2>1. older(a).periodic = a.periodic /\ older(a).age = a.age + 1 /\ a.age \in Int
    BY <1>2
  <2> HIDE DEF older
  <2>2. sinceAnnounce <= a.age
    BY <2>1 DEF IInv, PeriodicIsRecent
  <2>3. sinceAnnounce' = sinceAnnounce + 1
    BY <1>1
  <2> QED BY <2>1, <2>2, <2>3, <1>4
<1>12. ASSUME expected', TimeoutCovers'
       PROVE  started' /\ entry'.listed /\ entry'.age <= OldestExpected'
  <2>1. started /\ entry.listed /\ entry.age <= OldestExpected
    BY <1>1, <1>12 DEF IInv, ExpectedIsYoung, TimeoutCovers
  <2>2. OldestExpected' = OldestExpected + 1 /\ OldestExpected \in Int
    BY <2>1, <1>1, <1>3, <1>4, DiscoveryAssumption DEF OldestExpected
  <2> QED BY <2>1, <2>2, <1>1, <1>6, <1>7
<1>13. ExpectedIsYoung'
  BY <1>12 DEF ExpectedIsYoung
<1> QED BY <1>8, <1>9, <1>10, <1>11, <1>13 DEF IInv

----------------------------------------------------------------------------

LEMMA StepIInv == IInv /\ [Next]_vars => IInv'
<1> SUFFICES ASSUME IInv, [Next]_vars PROVE IInv'
  OBVIOUS
<1>1. CASE Start
  BY <1>1, StartIInv
<1>2. CASE Stop
  BY <1>2, StopIInv
<1>3. CASE IntervalAnnounce
  BY <1>3, IntervalIInv
<1>4. CASE \E s \in Service : UnregisterService(s)
  BY <1>4, UnregisterIInv
<1>5. CASE \E s \in Service, terms \in Terms : RegisterService(s, terms)
  BY <1>5, RegisterIInv
<1>6. CASE \E a \in inFlight : Deliver(a)
  BY <1>6, DeliverIInv
<1>7. CASE \E a \in inFlight : Lose(a)
  BY <1>7, LoseIInv
<1>8. CASE Cleanup
  BY <1>8, CleanupIInv
<1>9. CASE Evict
  BY <1>9, EvictIInv
<1>10. CASE Tick
  BY <1>10, TickIInv
<1>11. CASE UNCHANGED vars
  <2>1. /\ OldestEntry' = OldestEntry /\ OldestExpected' = OldestExpected
        /\ UNCHANGED <<skew, started, services, sinceAnnounce, inFlight, entry, nodePeer,
                       sinceCleanup, lastLost, expected>>
    BY <1>11
      DEF vars, announcerVars, listenerVars, historyVars, OldestEntry, OldestExpected, Outstanding
  <2>2. TypeOK'
    BY <2>1, Zenon DEF IInv, TypeOK
  <2>3. EntryAged' /\ CacheFollowsMap' /\ PeriodicIsRecent' /\ ExpectedIsYoung'
    BY <2>1
      DEF IInv, EntryAged, CacheFollowsMap, PeriodicIsRecent, ExpectedIsYoung, TimeoutCovers
  <2> QED BY <2>2, <2>3 DEF IInv
<1> QED
  BY <1>1, <1>2, <1>3, <1>4, <1>5, <1>6, <1>7, <1>8, <1>9, <1>10, <1>11, Zenon DEF Next

LEMMA Invariance == Spec => []IInv
BY InitIInv, StepIInv, PTL DEF Spec

(* The announcer and the listener keep their types: an entry is gone one   *)
(* cleanup interval after the timeout, by the announcer's clock, also when *)
(* nothing arrives any more (discovery.ts:186-203).                        *)
THEOREM TypeCorrect == Spec => []TypeOK
<1>1. IInv => TypeOK
  BY DEF IInv
<1> QED BY Invariance, <1>1, PTL

(* node.peers never shows a peer that the discovery service forgot, or     *)
(* services it has replaced (discovery.ts:166-176, 191-198;                *)
(* node.ts:426-446).                                                       *)
THEOREM CacheFollows == Spec => []CacheFollowsMap
<1>1. IInv => CacheFollowsMap
  BY DEF IInv
<1> QED BY Invariance, <1>1, PTL

(* A running node stays listed unless two of its interval announcements in *)
(* a row are lost, whatever the intervals, the delays and the clocks, when *)
(* the timeout covers two intervals, two delays and what its clock is      *)
(* behind (discovery.ts:21-22, 163-167, 186-203).                          *)
THEOREM LivePeersListed == Spec => []LivePeerListed
<1>1. IInv => LivePeerListed
  BY DEF IInv, ExpectedIsYoung, LivePeerListed, TimeoutCovers
<1> QED BY Invariance, <1>1, PTL

=============================================================================
