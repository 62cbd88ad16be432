------------------------ MODULE RateLimiterHistory -------------------------
(***************************************************************************)
(* The rate limiter and an observer, who at any moment begins to watch a   *)
(* key and counts the messages of it that are let through in the windowMs  *)
(* from there. The observer changes nothing; since it may begin anywhere,  *)
(* what it never sees happens in no interval of that length.               *)
(***************************************************************************)
EXTENDS RateLimiter

VARIABLE watch   \* the key, the ticks since the beginning, what was accepted

historyVars == <<vars, watch>>

Watched(k) == [key |-> k, age |-> 0, accepted |-> 0]

HistoryInit == Init /\ \E k \in Key : watch = Watched(k)

Observe == (\E k \in Key : watch' = Watched(k)) /\ UNCHANGED vars

(* The interval is over: it stays as it is until another one begins.        *)
Closed == watch.age > Window[watch.key]

(* The caller goes on with the message exactly when the check returns true. *)
Count(k) ==
  watch' = IF k = watch.key /\ ~Closed /\ Returned'
           THEN [watch EXCEPT !.accepted = @ + 1] ELSE watch

HistoryCheck(k) == (Admit(k) \/ Refuse(k) \/ RefuseSize(k)) /\ Count(k)

HistoryTick ==
  /\ Tick
  /\ watch' = IF Closed THEN watch ELSE [watch EXCEPT !.age = @ + 1]

HistoryCleanup == Cleanup /\ UNCHANGED watch

(* The windows are forgotten, and the interval begins anew.                 *)
HistoryClear == Clear /\ watch' = Watched(watch.key)

HistoryStop == Stop /\ UNCHANGED watch

HistoryNext ==
  \/ Observe
  \/ \E k \in Key : HistoryCheck(k)
  \/ HistoryTick
  \/ HistoryCleanup
  \/ HistoryClear
  \/ HistoryStop

(* Time passes, and an interval that is set fires again and again. *)
HistorySpec ==
  /\ HistoryInit /\ [][HistoryNext]_historyVars
  /\ WF_historyVars(HistoryTick) /\ WF_historyVars(HistoryCleanup)

(* Over any windowMs of time a peer gets at most twice the limit through:   *)
(* two windows can touch such an interval, never three                      *)
(* (rate-limiter.ts:104-121), and neither the sweep nor a stopped sweep     *)
(* lets it have more.                                                       *)
AtMostTwiceTheLimit ==
  RejectOnLimit => watch.accepted <= 2 * Limit[watch.key]

=============================================================================
