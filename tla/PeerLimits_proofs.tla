-------------------------- MODULE PeerLimits_proofs -------------------------
(***************************************************************************)
(* What keeps one peer from taking too much, for any peers and any limits: *)
(* the rate limiter - its types, that it implements the quota gate, and    *)
(* what it lets through in any interval - and the reputation of peers -    *)
(* its types, the bound on connections, and that no low score is without a *)
(* consequence.                                                            *)
(***************************************************************************)
EXTENDS RateLimiterHistory, PeerReputation, TLAPS

LEMMA TypeInit == Init => TypeOK
BY LimiterAssumption DEF Init, TypeOK, NoWindow, Tracked, AgeCap, Answer

LEMMA TypeStep == TypeOK /\ [Next]_vars => TypeOK'
<1> USE LimiterAssumption
<1> SUFFICES ASSUME TypeOK, [Next]_vars PROVE TypeOK'
  OBVIOUS
<1> USE DEF TypeOK, Tracked, NoWindow, AgeCap, Answer
<1>1. ASSUME NEW k \in Key, Admit(k) PROVE TypeOK'
  BY <1>1 DEF Admit, Expired
<1>2. ASSUME NEW k \in Key, Refuse(k) PROVE TypeOK'
  BY <1>2 DEF Refuse, RecordViolation
<1>3. ASSUME NEW k \in Key, RefuseSize(k) PROVE TypeOK'
  BY <1>3 DEF RefuseSize, RecordViolation
<1>4. CASE Cleanup
  BY <1>4 DEF Cleanup
<1>5. CASE Clear
  BY <1>5 DEF Clear
<1>6. CASE Stop
  BY <1>6 DEF Stop
<1>7. CASE Tick
  BY <1>7 DEF Tick
<1>8. CASE UNCHANGED vars
  BY <1>8 DEF vars
<1>9. QED
  BY <1>1, <1>2, <1>3, <1>4, <1>5, <1>6, <1>7, <1>8 DEF Next

(* The windows of rate-limiter.ts:38-46 never count past their limit, and   *)
(* an entry of either Map counts at least one message (lines 92-121).       *)
THEOREM TypeCorrect == Spec => []TypeOK
BY TypeInit, TypeStep, PTL DEF Spec

----------------------------------------------------------------------------

LEMMA QuotaRuns ==
  ASSUME TypeOK, NEW k \in Key
  PROVE  (AgeOf(k) <= Window[k]) <=> Runs(k)
  BY LimiterAssumption DEF TypeOK, AgeOf, Runs, Expired

(* The sweep of cleanup (rate-limiter.ts:285-308) only drops windows that   *)
(* have expired, so no quota changes.                                       *)
LEMMA CleanupIsInvisible ==
  ASSUME TypeOK, Cleanup, NEW k \in Key
  PROVE  SpentOf(k)' = SpentOf(k) /\ AgeOf(k)' = AgeOf(k)
<1> USE LimiterAssumption DEF TypeOK, SpentOf, AgeOf, Runs, Expired, Tracked, NoWindow
<1>1. CASE windows[k].age > 2 * Window[k]
  <2>1. windows'[k] = [count |-> 0, age |-> 0]
    BY <1>1 DEF Cleanup
  <2>2. ~Runs(k)
    BY <1>1
  <2>3. QED
    BY <2>1, <2>2
<1>2. CASE ~(windows[k].age > 2 * Window[k])
  BY <1>2 DEF Cleanup
<1>3. QED
  BY <1>1, <1>2

(* A quota depends on the windows alone. *)
LEMMA WindowsAlone ==
  ASSUME UNCHANGED windows, NEW k \in Key
  PROVE  SpentOf(k)' = SpentOf(k) /\ AgeOf(k)' = AgeOf(k)
  BY DEF SpentOf, AgeOf, Runs, Tracked, Expired

(* A tick ages a quota that runs, and ends it past its Window.              *)
LEMMA TickOfAWindow ==
  ASSUME TypeOK, Tick, NEW k \in Key
  PROVE  /\ AgeOf(k)' = IF Runs(k) THEN AgeOf(k) + 1 ELSE AgeOf(k)
         /\ SpentOf(k)' = IF AgeOf(k)' <= Window[k] THEN SpentOf(k) ELSE 0
<1> USE LimiterAssumption DEF TypeOK, AgeOf, SpentOf, Runs, Expired, Tracked, AgeCap
<1>1. CASE Runs(k)
  <2>1. windows'[k] = [count |-> windows[k].count, age |-> windows[k].age + 1]
    BY <1>1 DEF Tick
  <2>2. QED
    BY <1>1, <2>1
<1>2. CASE ~Runs(k)
  <2>1. /\ windows'[k].count = windows[k].count
        /\ windows'[k].age = windows[k].age \/ windows'[k].age = windows[k].age + 1
    BY <1>2 DEF Tick
  <2>2. ~Runs(k)'
    BY <1>2, <2>1
  <2>3. QED
    BY <1>2, <2>2
<1>3. QED
  BY <1>1, <1>2

(* ImplementsGate for every value of the constants: every step of the       *)
(* limiter is a step of the quota gate or leaves every quota as it was.     *)
THEOREM LimiterImplementsGate == Spec => ImplementsGate
<1> USE LimiterAssumption
<1>1. Init => Gate!Init
  BY DEF Init, Gate!Init, SpentOf, AgeOf, Runs, Tracked, NoWindow
<1>2. TypeOK /\ TypeOK' /\ [Next]_vars => [Gate!Next]_Gate!gateVars
  <2> SUFFICES ASSUME TypeOK, TypeOK', [Next]_vars
               PROVE  [Gate!Next]_Gate!gateVars
    OBVIOUS
  <2>1. ASSUME NEW k \in Key, Admit(k) PROVE Gate!Admit(k)
    <3>1. Gate!Running(k) <=> Runs(k)
      BY QuotaRuns DEF Gate!Running, AgeOf
    <3>2. Runs(k) => windows[k].count < Limit[k]
      BY <2>1 DEF Admit, Runs
    <3>3. windows' = [windows EXCEPT ![k] =
                        IF Runs(k) THEN [count |-> windows[k].count + 1, age |-> windows[k].age]
                        ELSE [count |-> 1, age |-> 0]]
      BY <2>1 DEF Admit, Runs, TypeOK
    <3>4. \A j \in Key \ {k} : SpentOf(j)' = SpentOf(j) /\ AgeOf(j)' = AgeOf(j)
      BY <3>3 DEF SpentOf, AgeOf, Runs, Tracked, Expired, TypeOK
    <3>5. /\ SpentOf(k)' = IF Runs(k) THEN SpentOf(k) + 1 ELSE 1
          /\ AgeOf(k)' = IF Runs(k) THEN AgeOf(k) ELSE 0
      <4> USE DEF SpentOf, AgeOf, Tracked, Expired, TypeOK
      <4>1. CASE Runs(k)
        <5>1. windows'[k] = [count |-> windows[k].count + 1, age |-> windows[k].age]
          BY <4>1, <3>3
        <5>2. QED
          BY <4>1, <5>1 DEF Runs
      <4>2. CASE ~Runs(k)
        <5>1. windows'[k] = [count |-> 1, age |-> 0]
          BY <4>2, <3>3
        <5>2. QED
          BY <4>2, <5>1 DEF Runs
      <4>3. QED
        BY <4>1, <4>2
    <3>6. Gate!Running(k) => SpentOf(k) < Limit[k]
      BY <3>1, <3>2 DEF SpentOf
    <3>7. verdict' = [key |-> k, answer |-> "within"]
      BY <2>1 DEF Admit
    <3>8. QED
      BY <3>1, <3>4, <3>5, <3>6, <3>7 DEF Gate!Admit
  <2>2. ASSUME NEW k \in Key, Refuse(k) PROVE Gate!Refuse(k)
    <3>1. Gate!Running(k) <=> Runs(k)
      BY QuotaRuns DEF Gate!Running, AgeOf
    <3>2. Runs(k) /\ SpentOf(k) = Limit[k]
      <4>1. Runs(k) /\ windows[k].count >= Limit[k]
        BY <2>2 DEF Refuse, Runs
      <4>2. Limit[k] \in Nat /\ windows[k].count \in 0 .. Limit[k]
        BY DEF TypeOK
      <4>3. QED
        BY <4>1, <4>2 DEF SpentOf
    <3>3. verdict' = [key |-> k, answer |-> "over"]
      BY <2>2 DEF Refuse
    <3>4. \A j \in Key : SpentOf(j)' = SpentOf(j) /\ AgeOf(j)' = AgeOf(j)
      BY <2>2, WindowsAlone DEF Refuse
    <3>5. QED
      BY <3>1, <3>2, <3>3, <3>4 DEF Gate!Refuse
  <2>3. ASSUME NEW k \in Key, RefuseSize(k) PROVE Gate!RefuseSize(k)
    <3>1. \A j \in Key : SpentOf(j)' = SpentOf(j) /\ AgeOf(j)' = AgeOf(j)
      BY <2>3, WindowsAlone DEF RefuseSize
    <3>2. QED
      BY <2>3, <3>1 DEF RefuseSize, Gate!RefuseSize
  <2>4. CASE Cleanup
    <3>1. UNCHANGED verdict
      BY <2>4 DEF Cleanup
    <3>2. QED
      BY <2>4, <3>1, CleanupIsInvisible DEF Gate!gateVars
  <2>5. CASE Clear
    <3>1. \A j \in Key : SpentOf(j)' = 0 /\ AgeOf(j)' = Window[j] + 1
      BY <2>5 DEF Clear, SpentOf, AgeOf, Runs, Tracked, NoWindow
    <3>2. Gate!Clear
      BY <2>5, <3>1 DEF Clear, Gate!Clear
    <3>3. QED
      BY <3>2 DEF Gate!Next
  <2>6. CASE Stop
    <3>1. \A j \in Key : SpentOf(j)' = SpentOf(j) /\ AgeOf(j)' = AgeOf(j)
      BY <2>6, WindowsAlone DEF Stop
    <3>2. QED
      BY <2>6, <3>1 DEF Stop, Gate!gateVars
  <2>7. CASE Tick
    <3>1. \A k \in Key : Gate!Running(k) <=> Runs(k)
      BY QuotaRuns DEF Gate!Running, AgeOf
    <3>2. ASSUME NEW k \in Key
          PROVE  /\ AgeOf(k)' = IF Runs(k) THEN AgeOf(k) + 1 ELSE AgeOf(k)
                 /\ SpentOf(k)' = IF AgeOf(k)' <= Window[k] THEN SpentOf(k) ELSE 0
      BY <2>7, TickOfAWindow
    <3>3. UNCHANGED verdict
      BY <2>7 DEF Tick
    <3>4. Gate!Tick
      BY <3>1, <3>2, <3>3 DEF Gate!Tick
    <3>5. QED
      BY <3>4 DEF Gate!Next
  <2>8. CASE UNCHANGED vars
    <3>1. \A j \in Key : SpentOf(j)' = SpentOf(j) /\ AgeOf(j)' = AgeOf(j)
      BY <2>8, WindowsAlone DEF vars
    <3>2. QED
      BY <2>8, <3>1 DEF vars, Gate!gateVars
  <2>9. QED
    BY <2>1, <2>2, <2>3, <2>4, <2>5, <2>6, <2>7, <2>8 DEF Next, Gate!Next
<1>3. QED
  BY <1>1, <1>2, TypeCorrect, PTL DEF Spec, ImplementsGate, Gate!Spec

----------------------------------------------------------------------------

(* What the observer has seen of its key: only messages of the window that  *)
(* runs; or those of an earlier one too, the later one being younger than   *)
(* the interval, so that it outlives it; or the interval is over.           *)
InOneWindow(k) ==
  watch.accepted <= Limit[k] /\ (Runs(k) => watch.accepted <= windows[k].count)

InTwoWindows(k) ==
  /\ ~Closed
  /\ windows[k].age <= watch.age
  /\ watch.accepted <= Limit[k] + windows[k].count

WatchTypeOK ==
  /\ watch \in [key : Key, age : Nat, accepted : Nat]
  /\ watch.age <= Window[watch.key] + 1

WatchInv ==
  /\ WatchTypeOK
  /\ RejectOnLimit =>
       \/ InOneWindow(watch.key)
       \/ InTwoWindows(watch.key)
       \/ Closed /\ watch.accepted <= 2 * Limit[watch.key]

(* A window at its end counts no more than the limit, so both cases give    *)
(* the bound.                                                               *)
LEMMA WithinTwice ==
  ASSUME TypeOK, WatchInv
  PROVE  AtMostTwiceTheLimit
BY LimiterAssumption DEF TypeOK, WatchInv, WatchTypeOK, InOneWindow, InTwoWindows,
     AtMostTwiceTheLimit

(* A check of the key that is watched, let through.                         *)
LEMMA WatchedAdmit ==
  ASSUME TypeOK, WatchInv, ~Closed, Admit(watch.key),
         watch' = [watch EXCEPT !.accepted = @ + 1]
  PROVE  WatchInv'
<1> USE LimiterAssumption DEF TypeOK, WatchTypeOK
<1> DEFINE k == watch.key
<1>1. /\ k \in Key /\ windows[k].count \in Nat /\ windows[k].age \in Nat
      /\ Limit[k] \in Nat \ {0} /\ Window[k] \in Nat
      /\ watch'.key = k /\ watch'.age = watch.age /\ watch'.accepted = watch.accepted + 1
      /\ WatchTypeOK'
  BY DEF WatchInv
<1>2. ~Closed'
  BY <1>1 DEF Closed
<1>3. CASE Runs(k)
  <2>1. windows'[k] = [count |-> windows[k].count + 1, age |-> windows[k].age]
        /\ windows[k].count < Limit[k]
    BY <1>1, <1>3 DEF Admit, Runs
  <2>2. InOneWindow(k) => InOneWindow(k)'
    BY <1>1, <1>3, <2>1 DEF InOneWindow, WatchInv
  <2>3. InTwoWindows(k) => InTwoWindows(k)'
    BY <1>1, <1>2, <2>1 DEF InTwoWindows, WatchInv
  <2>4. QED
    BY <1>1, <2>2, <2>3 DEF WatchInv
<1>4. CASE ~Runs(k)
  <2>1. windows'[k] = [count |-> 1, age |-> 0]
    BY <1>1, <1>4 DEF Admit, Runs
  <2>2. InOneWindow(k) => InTwoWindows(k)'
    BY <1>1, <1>2, <2>1 DEF InOneWindow, InTwoWindows, WatchInv
  <2>3. InTwoWindows(k) => watch.accepted <= Limit[k]
    BY <1>1, <1>4 DEF InTwoWindows, Runs, Expired, Tracked, NoWindow, Closed, WatchInv
  <2>4. watch.accepted <= Limit[k] => InTwoWindows(k)'
    BY <1>1, <1>2, <2>1 DEF InTwoWindows, WatchInv
  <2>5. QED
    BY <1>1, <2>2, <2>3, <2>4 DEF WatchInv
<1>5. QED
  BY <1>3, <1>4

(* A step that leaves the window of the watched key alone, or drops it      *)
(* after its end, is none of the observer's business.                       *)
LEMMA WatchUndisturbed ==
  ASSUME TypeOK, WatchInv, UNCHANGED watch,
         windows'[watch.key] \in {windows[watch.key], NoWindow},
         windows'[watch.key] # windows[watch.key] => ~Runs(watch.key)
  PROVE  WatchInv'
<1> USE LimiterAssumption DEF TypeOK, WatchTypeOK
<1>1. /\ watch.key \in Key /\ windows[watch.key].count \in Nat
      /\ Limit[watch.key] \in Nat
      /\ WatchTypeOK' /\ Closed' = Closed
  BY DEF WatchInv, Closed
<1>2. CASE windows'[watch.key] = windows[watch.key]
  BY <1>1, <1>2 DEF WatchInv, InOneWindow, InTwoWindows, Runs, Expired, Tracked
<1>3. CASE windows'[watch.key] = NoWindow /\ ~Runs(watch.key)
  <2>1. ~Runs(watch.key)'
    BY <1>3 DEF Runs, Tracked, NoWindow
  <2>2. InTwoWindows(watch.key) => watch.accepted <= Limit[watch.key]
    BY <1>1, <1>3 DEF InTwoWindows, Runs, Expired, Tracked, NoWindow, Closed, WatchInv
  <2>3. QED
    BY <1>1, <2>1, <2>2 DEF WatchInv, InOneWindow
<1>4. QED
  BY <1>2, <1>3

LEMMA WatchStep ==
  ASSUME TypeOK, WatchInv, [HistoryNext]_historyVars
  PROVE  WatchInv'
<1> USE LimiterAssumption
<1> DEFINE k == watch.key
<1>1. k \in Key /\ windows[k] \in [count : Nat, age : Nat]
  BY DEF TypeOK, WatchInv, WatchTypeOK
<1>2. CASE Observe
  <2>1. /\ watch' \in [key : Key, age : {0}, accepted : {0}]
        /\ \A j \in Key : windows'[j].count \in Nat /\ Limit[j] \in Nat
    BY <1>2 DEF Observe, Watched, vars, TypeOK
  <2>2. QED
    BY <2>1 DEF WatchInv, WatchTypeOK, InOneWindow
<1>3. ASSUME NEW j \in Key, HistoryCheck(j) PROVE WatchInv'
  <2>1. windows'[k] = windows[k] \/ (j = k /\ Admit(k))
    BY <1>1, <1>3 DEF HistoryCheck, Admit, Refuse, RefuseSize, TypeOK
  <2>2. CASE UNCHANGED watch /\ windows'[k] = windows[k]
    BY <2>2, WatchUndisturbed
  <2>3. CASE j = k /\ Admit(k)
    <3>1. Returned'
      BY <2>3 DEF Admit, Returned
    <3>2. CASE Closed
      <4>1. UNCHANGED watch
        BY <1>3, <3>2 DEF HistoryCheck, Count
      <4>2. AtMostTwiceTheLimit
        BY WithinTwice
      <4>3. QED
        BY <4>1, <4>2, <3>2 DEF WatchInv, WatchTypeOK, Closed, AtMostTwiceTheLimit
    <3>3. CASE ~Closed
      <4>1. watch' = [watch EXCEPT !.accepted = @ + 1]
        BY <1>3, <2>3, <3>1, <3>3 DEF HistoryCheck, Count
      <4>2. QED
        BY <2>3, <3>3, <4>1, WatchedAdmit
    <3>4. QED
      BY <3>2, <3>3
  <2>4. CASE ~(j = k /\ Admit(k)) /\ ~UNCHANGED watch
    <3>1. j = k /\ Returned' /\ watch' = [watch EXCEPT !.accepted = @ + 1]
      BY <1>3, <2>4 DEF HistoryCheck, Count
    <3>2. ~RejectOnLimit
      BY <1>3, <2>4, <3>1 DEF HistoryCheck, Refuse, RefuseSize, Returned
    <3>3. QED
      BY <3>1, <3>2 DEF WatchInv, WatchTypeOK
  <2>5. QED
    BY <2>1, <2>2, <2>3, <2>4
<1>4. CASE HistoryTick
  <2>1. /\ windows'[k].count = windows[k].count
        /\ windows'[k].age \in {windows[k].age, windows[k].age + 1}
    BY <1>1, <1>4 DEF HistoryTick, Tick
  <2>2. watch'.key = k
    BY <1>4 DEF HistoryTick, WatchInv, WatchTypeOK
  <2>3. Runs(k)' => Runs(k)
    BY <1>1, <2>1, <2>2 DEF Runs, Tracked, Expired
  <2>4. CASE Closed
    <3>1. UNCHANGED watch
      BY <1>4, <2>4 DEF HistoryTick
    <3>2. AtMostTwiceTheLimit
      BY WithinTwice
    <3>3. QED
      BY <2>4, <3>1, <3>2 DEF WatchInv, WatchTypeOK, Closed, AtMostTwiceTheLimit
  <2>5. CASE ~Closed
    <3>1. watch' = [key |-> k, age |-> watch.age + 1, accepted |-> watch.accepted]
      BY <1>4, <2>5 DEF HistoryTick, WatchInv, WatchTypeOK
    <3>2. WatchTypeOK'
      BY <2>5, <3>1 DEF WatchInv, WatchTypeOK, Closed
    <3>3. InOneWindow(k) => InOneWindow(k)'
      BY <2>1, <2>3, <3>1 DEF InOneWindow
    <3>4. InTwoWindows(k) => InTwoWindows(k)' \/ Closed'
      BY <1>1, <2>1, <3>1 DEF InTwoWindows, WatchInv, WatchTypeOK, Closed
    <3>5. AtMostTwiceTheLimit
      BY WithinTwice
    <3>6. QED
      BY <2>5, <3>1, <3>2, <3>3, <3>4, <3>5 DEF WatchInv, AtMostTwiceTheLimit
  <2>6. QED
    BY <2>4, <2>5
<1>5. CASE HistoryCleanup
  <2>1. UNCHANGED watch
    BY <1>5 DEF HistoryCleanup
  <2>2. windows'[k] = IF windows[k].age > 2 * Window[k] THEN NoWindow ELSE windows[k]
    BY <1>1, <1>5 DEF HistoryCleanup, Cleanup
  <2>3. windows[k].age > 2 * Window[k] => ~Runs(k)
    BY <1>1 DEF Runs, Expired
  <2>4. QED
    BY <2>1, <2>2, <2>3, WatchUndisturbed
<1>6. CASE HistoryClear
  <2>1. watch' = [key |-> k, age |-> 0, accepted |-> 0] /\ windows'[k] = NoWindow
    BY <1>1, <1>6 DEF HistoryClear, Watched, Clear
  <2>2. WatchTypeOK'
    BY <1>1, <2>1 DEF WatchTypeOK
  <2>3. InOneWindow(k)'
    BY <1>1, <2>1 DEF InOneWindow, Runs, Tracked, NoWindow
  <2>4. QED
    BY <2>2, <2>3 DEF WatchInv
<1>7. CASE HistoryStop
  BY <1>7, WatchUndisturbed DEF HistoryStop, Stop
<1>8. CASE UNCHANGED historyVars
  BY <1>8, WatchUndisturbed DEF historyVars, vars
<1>9. QED
  BY <1>2, <1>3, <1>4, <1>5, <1>6, <1>7, <1>8 DEF HistoryNext

(* In any interval of windowMs a key gets at most twice its limit through,  *)
(* for every limit and every window (rate-limiter.ts:104-121).              *)
THEOREM TwiceTheLimit == HistorySpec => []AtMostTwiceTheLimit
<1> USE LimiterAssumption
<1>1. HistoryInit => Init /\ WatchInv
  BY DEF HistoryInit, Watched, Init, NoWindow, WatchInv, WatchTypeOK, InOneWindow
<1>2. Init => TypeOK
  BY TypeInit
<1>3. TypeOK /\ [HistoryNext]_historyVars => TypeOK'
  <2>1. [HistoryNext]_historyVars => [Next]_vars
    BY DEF HistoryNext, historyVars, Observe, HistoryCheck, HistoryTick, HistoryCleanup,
         HistoryClear, HistoryStop, Next
  <2>2. QED
    BY <2>1, TypeStep
<1>4. TypeOK /\ WatchInv /\ [HistoryNext]_historyVars => WatchInv'
  BY WatchStep
<1>5. TypeOK /\ WatchInv => AtMostTwiceTheLimit
  BY WithinTwice
<1>6. QED
  BY <1>1, <1>2, <1>3, <1>4, <1>5, PTL DEF HistorySpec

----------------------------------------------------------------------------
(* PeerReputation.                                                          *)

(* A peer that is not known is as a new one; a score at the threshold of    *)
(* the blacklist has been noticed.                                          *)
Noticed ==
  \A p \in Peer :
    /\ p \notin known => score[p] = InitialScore
    /\ score[p] <= BlacklistThreshold => p \in barred

ReputationInv == ReputationTypeOK /\ ConnectionsBounded /\ Noticed

LEMMA Clamped == ASSUME NEW n \in Int PROVE Clamp(n) \in MinScore .. MaxScore
BY ReputationAssumption DEF Clamp

LEMMA Decayed ==
  ASSUME NEW s \in MinScore .. MaxScore
  PROVE  /\ Towards(s) \in MinScore .. MaxScore
         /\ Towards(s) <= BlacklistThreshold => s <= BlacklistThreshold
BY ReputationAssumption DEF Towards

LEMMA ReputationInitial == ReputationInit => ReputationInv
BY ReputationAssumption DEF ReputationInit, ReputationInv, ReputationTypeOK, ConnectionsBounded, Noticed

(* recordEvent(), whoever calls it.                                         *)
LEMMA ScoredStep ==
  ASSUME ReputationInv, NEW p \in Peer, NEW delta \in Int, Scored(p, delta)
  PROVE  /\ known' = known \union {p}
         /\ score' \in [Peer -> MinScore .. MaxScore]
         /\ idle' \in [Peer -> 0 .. Hour]
         /\ barred' \subseteq known'
         /\ left' \in [Peer -> -1 .. BlacklistDuration]
         /\ Noticed'
<1> USE ReputationAssumption DEF ReputationInv, ReputationTypeOK
<1> DEFINE s == Clamp(score[p] + delta)
<1>1. s \in MinScore .. MaxScore
      BY Clamped
<1>2. /\ known' = known \union {p}
      /\ score' = [score EXCEPT ![p] = s]
      /\ idle' = [idle EXCEPT ![p] = 0]
      /\ IF s <= BlacklistThreshold /\ p \notin barred
         THEN barred' = barred \union {p} /\ left' = [left EXCEPT ![p] = BlacklistDuration]
         ELSE UNCHANGED <<barred, left>>
      BY DEF Scored, Bars
<1> HIDE DEF s
<1>3. /\ score' \in [Peer -> MinScore .. MaxScore]
      /\ idle' \in [Peer -> 0 .. Hour]
      BY <1>1, <1>2
<1>4. /\ barred' \subseteq known'
      /\ left' \in [Peer -> -1 .. BlacklistDuration]
      BY <1>2
<1>5. Noticed'
      BY <1>1, <1>2 DEF Noticed
<1> QED BY <1>2, <1>3, <1>4, <1>5

LEMMA ConnectionStep ==
  ASSUME ReputationInv, NEW p \in Peer, RecordConnection(p)
  PROVE  ReputationInv'
<1> USE ReputationAssumption
<1>1. \E delta \in Int : Scored(p, delta)
      BY DEF RecordConnection
<1>2. /\ count' = [count EXCEPT ![p] = count[p] + 1] /\ manual' = manual
      /\ \/ count[p] + 1 <= MaxConnections
            /\ open' = [open EXCEPT ![p] = open[p] + 1] /\ refused' = refused
         \/ refused' = [refused EXCEPT ![p] = refused[p] + 1] /\ open' = open
      BY DEF RecordConnection, ReputationInv, ReputationTypeOK
<1>3. ReputationTypeOK'
      BY <1>1, <1>2, ScoredStep DEF ReputationInv, ReputationTypeOK
<1>4. ConnectionsBounded'
      BY <1>2 DEF ReputationInv, ReputationTypeOK, ConnectionsBounded
<1> QED BY <1>1, <1>3, <1>4, ScoredStep DEF ReputationInv

LEMMA ReputationStep == ReputationInv /\ [ReputationNext]_reputationVars => ReputationInv'
<1> SUFFICES ASSUME ReputationInv, [ReputationNext]_reputationVars PROVE ReputationInv'
    OBVIOUS
<1> USE ReputationAssumption DEF links
<1>1. ASSUME NEW p \in Peer, NEW delta \in Deltas, RecordEvent(p, delta)
      PROVE  ReputationInv'
  <2>1. delta \in Int /\ Scored(p, delta) /\ UNCHANGED <<count, open, refused, manual>>
        BY <1>1 DEF RecordEvent
  <2>2. ReputationTypeOK'
        BY <2>1, ScoredStep DEF ReputationInv, ReputationTypeOK
  <2>3. ConnectionsBounded'
        BY <2>1 DEF ReputationInv, ConnectionsBounded
  <2> QED BY <2>1, <2>2, <2>3, ScoredStep DEF ReputationInv
<1>2. ASSUME NEW p \in Peer, BlacklistPeer(p)
      PROVE  ReputationInv'
      BY <1>2 DEF BlacklistPeer, ReputationInv, ReputationTypeOK, ConnectionsBounded, Noticed
<1>3. ASSUME NEW p \in Peer, p \in barred, Pardon(p)
      PROVE  ReputationInv'
      BY <1>3 DEF Pardon, ReputationInv, ReputationTypeOK, ConnectionsBounded, Noticed
<1>4. ASSUME NEW p \in Peer, UnblacklistPeer(p) \/ AskExpired(p)
      PROVE  ReputationInv'
      BY <1>3, <1>4 DEF UnblacklistPeer, AskExpired
<1>5. ASSUME NEW p \in Peer, RemoveConnection(p)
      PROVE  ReputationInv'
  <2>1. ReputationTypeOK' /\ Noticed'
        BY <1>5 DEF RemoveConnection, ReputationInv, ReputationTypeOK, Noticed
  <2>2. ConnectionsBounded'
        BY <1>5 DEF RemoveConnection, ReputationInv, ReputationTypeOK, ConnectionsBounded
  <2> QED BY <2>1, <2>2 DEF ReputationInv
<1>6. CASE ApplyScoreDecay
  <2> DEFINE due == {p \in known : idle[p] = Hour}
  <2>1. /\ score' = [p \in Peer |-> IF p \in due THEN Towards(score[p]) ELSE score[p]]
        /\ idle' = [p \in Peer |-> IF p \in due THEN 0 ELSE idle[p]]
        /\ UNCHANGED <<known, barred, left, count, open, refused, manual>>
        BY <1>6 DEF ApplyScoreDecay
  <2>2. \A p \in Peer : /\ score'[p] \in MinScore .. MaxScore
                        /\ score'[p] <= BlacklistThreshold => score[p] <= BlacklistThreshold
        BY <2>1, Decayed DEF ReputationInv, ReputationTypeOK
  <2>3. score' \in [Peer -> MinScore .. MaxScore] /\ idle' \in [Peer -> 0 .. Hour]
        BY <2>1, <2>2 DEF ReputationInv, ReputationTypeOK
  <2>4. Noticed'
        BY <2>1, <2>2 DEF ReputationInv, ReputationTypeOK, Noticed
  <2> QED BY <2>1, <2>3, <2>4 DEF ReputationInv, ReputationTypeOK, ConnectionsBounded
<1>7. CASE Restart
      BY <1>7 DEF Restart, ReputationInv, ReputationTypeOK, ConnectionsBounded, Noticed
<1>8. CASE TimePasses
      BY <1>8 DEF TimePasses, ReputationInv, ReputationTypeOK, ConnectionsBounded, Noticed
<1>9. CASE UNCHANGED reputationVars
      BY <1>9 DEF reputationVars, ReputationInv, ReputationTypeOK, ConnectionsBounded, Noticed
<1> QED BY <1>1, <1>2, <1>4, <1>5, <1>6, <1>7, <1>8, <1>9, ConnectionStep DEF ReputationNext, PeerStep

LEMMA ReputationInvariance == ReputationSpec => []ReputationInv
BY ReputationInitial, ReputationStep, PTL DEF ReputationSpec

----------------------------------------------------------------------------

(* Scores stay within their bounds, and times and counts within theirs.     *)
THEOREM ReputationTypeCorrect == ReputationSpec => []ReputationTypeOK
<1>1. ReputationInv => ReputationTypeOK
      BY DEF ReputationInv
<1> QED BY <1>1, ReputationInvariance, PTL

(* No peer ever has more connections than it may, and the count is what it  *)
(* has (peer-reputation.ts:196-215).                                        *)
THEOREM ConnectionLimit == ReputationSpec => []ConnectionsBounded
<1>1. ReputationInv => ConnectionsBounded
      BY DEF ReputationInv
<1> QED BY <1>1, ReputationInvariance, PTL

(* Whatever the thresholds and the decay, a peer with a low score is        *)
(* limited, refused, or one whose blacklisting has run out unasked; a low   *)
(* score with no blacklisting at all does not occur                         *)
(* (peer-reputation.ts:132-135, 170-191).                                   *)
THEOREM OnlyTheExpired == ReputationSpec => []OnlyExpiredEscape
<1>1. ReputationInv => OnlyExpiredEscape
  <2> SUFFICES ASSUME ReputationInv, NEW p \in known, score[p] < RateLimitThreshold,
                      ~ShouldRateLimit(p), ~IsBlacklisted(p)
               PROVE  p \in barred /\ left[p] < 0
    BY DEF OnlyExpiredEscape
  <2>1. p \in Peer /\ score[p] \in Int /\ left[p] \in Int
    BY ReputationAssumption DEF ReputationInv, ReputationTypeOK
  <2>2. BlacklistThreshold \in Int
    BY ReputationAssumption
  <2>3. score[p] <= BlacklistThreshold
    BY <2>1, <2>2 DEF ShouldRateLimit
  <2>4. p \in barred
    BY <2>1, <2>3 DEF ReputationInv, Noticed
  <2> QED BY <2>1, <2>4 DEF IsBlacklisted
<1> QED BY <1>1, ReputationInvariance, PTL

=============================================================================
