---------------------------- MODULE FixedWindow -----------------------------
(***************************************************************************)
(* The fixed window: one counter per slot, for the epoch-aligned window it *)
(* was last charged in.  A count is forgotten, not decayed, when a request *)
(* arrives in another window; waits only read.                             *)
(***************************************************************************)
EXTENDS WindowHarness, KeyTable

VARIABLE buckets        \* the tracked keys' [windowStart, count]

vars == <<windowVars, buckets, taken>>

-----------------------------------------------------------------------------
(* The counter a request at t is charged to. *)
BucketAt(k, t) ==
    IF k \in DOMAIN buckets /\ buckets[k].windowStart = WindowOf(t)
    THEN buckets[k]
    ELSE [windowStart |-> WindowOf(t), count |-> 0]

Fits(k, cost, t) == BucketAt(k, t).count + cost <= Limit

(* Nothing but the window edge can make room. *)
WaitFor(k) ==
    IF \/ buckets[k].windowStart # WindowOf(now)
       \/ buckets[k].count < Limit
    THEN 0
    ELSE WindowOf(now) + WindowMs - now

Keep(k, b) ==
    buckets' = [x \in DOMAIN buckets \cup {k} |-> IF x = k THEN b ELSE buckets[x]]

-----------------------------------------------------------------------------
Init ==
    /\ WindowInit
    /\ TableInit
    /\ buckets = [k \in {} |-> [windowStart |-> 0, count |-> 0]]

Tick(t) ==
    /\ Elapse(t)
    /\ UNCHANGED <<buckets, taken>>

Admit(k, cost) ==
    /\ HasRoom(k, DOMAIN buckets)
    /\ Fits(k, cost, now)
    /\ Keep(k, [BucketAt(k, now) EXCEPT !.count = @ + cost])
    /\ Decide(k, cost, TRUE)
    /\ UNCHANGED taken

(* A refused request still opens the window it arrived in. *)
Refuse(k, cost) ==
    /\ HasRoom(k, DOMAIN buckets)
    /\ ~ Fits(k, cost, now)
    /\ Keep(k, BucketAt(k, now))
    /\ Decide(k, cost, FALSE)
    /\ UNCHANGED taken

RefuseNewKey(k, cost) ==
    /\ TurnAway(k, cost, DOMAIN buckets)
    /\ UNCHANGED <<buckets, admitted>>

RetryAfterUntracked(k) ==
    /\ AnswerUntracked(k, DOMAIN buckets)
    /\ UNCHANGED <<buckets, admitted>>

RetryAfterTracked(k) ==
    /\ k \in DOMAIN buckets
    /\ Read("retryAfter", k, WaitFor(k))
    /\ UNCHANGED <<buckets, taken>>

Next ==
    \/ \E t \in Later : Tick(t)
    \/ AnotherKey(DOMAIN buckets) /\ UNCHANGED <<buckets, admitted>>
    \/ \E k \in Keys :
          \/ \E cost \in Costs : Admit(k, cost) \/ Refuse(k, cost) \/ RefuseNewKey(k, cost)
          \/ RetryAfterUntracked(k) \/ RetryAfterTracked(k)

Spec == Init /\ [][Next]_vars

-----------------------------------------------------------------------------
TypeOK ==
    /\ WindowTypeOK
    /\ TableOK(DOMAIN buckets)
    /\ \A k \in DOMAIN buckets :
          /\ buckets[k] \in [windowStart : 0..now, count : 0..Limit]
          /\ buckets[k].windowStart % WindowMs = 0

(* The seam, and nothing worse: an interval no longer than one window lets *)
(* through at most twice the limit, and any interval at most the limit for *)
(* each aligned window it touches (fixed-window policy.h).                 *)
SeamCeiling ==
    \A k \in Keys : \A from \in 0..now : \A to \in from..now :
        AdmittedIn(k, from, to)
            <= Limit * ((to \div WindowMs) - (from \div WindowMs) + 1)

(* No request is refused that the current aligned window had room for: a   *)
(* live counter never counts anything from before its window.              *)
CountsOnlyItsWindow ==
    \A k \in Keys :
        BucketAt(k, now).count = AdmittedIn(k, WindowOf(now), now)

(* retryAfter is "exact rather than a guess": one request is refused until *)
(* the instant it names and would be admitted there.                       *)
WaitIsExact ==
    \A k \in DOMAIN buckets :
        /\ Fits(k, 1, now + WaitFor(k))
        /\ \A t \in now..(now + WaitFor(k) - 1) : ~ Fits(k, 1, t)
=============================================================================
