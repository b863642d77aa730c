--------------------------- MODULE SlidingCounter ---------------------------
(***************************************************************************)
(* The sliding window counter: this aligned window's count and the one     *)
(* before it, the older one fading linearly as the new window fills.       *)
(* Every call that looks at a counter first rolls it forward.              *)
(***************************************************************************)
EXTENDS WindowHarness, KeyTable

VARIABLE counters       \* the tracked keys' [windowStart, current, previous]

vars == <<windowVars, counters, taken>>

-----------------------------------------------------------------------------
(* mutant of Advance: a gap of several windows keeps the old count *)
AdvanceAcrossGap(c, start) ==
    IF c.windowStart = start
    THEN c
    ELSE [windowStart |-> start, current |-> 0, previous |-> c.current]

(* Rolled forward to the window that starts at `start`: the count becomes  *)
(* the previous one only if that window is the very next.                  *)
Advance(c, start) ==
    IF c.windowStart = start
    THEN c
    ELSE [windowStart |-> start,
          current     |-> 0,
          previous    |-> IF start = c.windowStart + WindowMs THEN c.current ELSE 0]

(* mutant of Estimate: only this window counts *)
EstimateCurrentOnly(c, t) == c.current

(* The weighted estimate of what the trailing window holds, floored. *)
Estimate(c, t) ==
    ((c.previous * (WindowMs - (t - c.windowStart))) \div WindowMs) + c.current

CounterAt(k, t) ==
    IF k \in DOMAIN counters
    THEN Advance(counters[k], WindowOf(t))
    ELSE [windowStart |-> WindowOf(t), current |-> 0, previous |-> 0]

Fits(k, cost, t) == Estimate(CounterAt(k, t), t) + cost <= Limit

Keep(k, c) ==
    counters' = [x \in DOMAIN counters \cup {k} |-> IF x = k THEN c ELSE counters[x]]

(* mutant of WaitFor: a carried count exactly one too high waits for nothing *)
WaitForZeroExcess(c) ==
    LET elapsed == now - c.windowStart
        need    == Limit - c.current - 1
        excess  == c.previous - need - 1
        target  == ((WindowMs * excess) \div c.previous) + 1
    IN  IF      Estimate(c, now) < Limit         THEN 0
        ELSE IF need < 0                         THEN WindowMs - elapsed + 1
        ELSE IF c.previous = 0 \/ excess <= 0    THEN 0
        ELSE IF target > elapsed                 THEN target - elapsed
        ELSE 0

(* The wait an up-to-date counter predicts, solved rather than searched:   *)
(* past the edge when this window is full on its own, otherwise until the  *)
(* previous count has faded to what this window leaves room for.           *)
WaitFor(c) ==
    LET elapsed == now - c.windowStart
        need    == Limit - c.current - 1
        excess  == c.previous - need - 1
        target  == ((WindowMs * excess) \div c.previous) + 1
    IN  IF      Estimate(c, now) < Limit         THEN 0
        ELSE IF need < 0                         THEN WindowMs - elapsed + 1
        ELSE IF c.previous = 0 \/ excess < 0     THEN 0
        ELSE IF target > elapsed                 THEN target - elapsed
        ELSE 0

-----------------------------------------------------------------------------
Init ==
    /\ WindowInit
    /\ TableInit
    /\ counters = [k \in {} |-> [windowStart |-> 0, current |-> 0, previous |-> 0]]

Tick(t) ==
    /\ Elapse(t)
    /\ UNCHANGED <<counters, taken>>

Admit(k, cost) ==
    /\ HasRoom(k, DOMAIN counters)
    /\ Fits(k, cost, now)
    /\ Keep(k, [CounterAt(k, now) EXCEPT !.current = @ + cost])
    /\ Decide(k, cost, TRUE)
    /\ UNCHANGED taken

Refuse(k, cost) ==
    /\ HasRoom(k, DOMAIN counters)
    /\ ~ Fits(k, cost, now)
    /\ Keep(k, CounterAt(k, now))
    /\ Decide(k, cost, FALSE)
    /\ UNCHANGED taken

RefuseNewKey(k, cost) ==
    /\ TurnAway(k, cost, DOMAIN counters)
    /\ UNCHANGED <<counters, admitted>>

RetryAfterUntracked(k) ==
    /\ AnswerUntracked(k, DOMAIN counters)
    /\ UNCHANGED <<counters, admitted>>

RetryAfterTracked(k) ==
    /\ k \in DOMAIN counters
    /\ Keep(k, CounterAt(k, now))
    /\ Read("retryAfter", k, WaitFor(CounterAt(k, now)))
    /\ UNCHANGED taken

Next ==
    \/ \E t \in Later : Tick(t)
    \/ AnotherKey(DOMAIN counters) /\ UNCHANGED <<counters, admitted>>
    \/ \E k \in Keys :
          \/ \E cost \in Costs : Admit(k, cost) \/ Refuse(k, cost) \/ RefuseNewKey(k, cost)
          \/ RetryAfterUntracked(k) \/ RetryAfterTracked(k)

Spec == Init /\ [][Next]_vars

-----------------------------------------------------------------------------
TypeOK ==
    /\ WindowTypeOK
    /\ TableOK(DOMAIN counters)
    /\ \A k \in DOMAIN counters :
          /\ counters[k] \in [windowStart : 0..now, current : 0..Limit, previous : 0..Limit]
          /\ counters[k].windowStart % WindowMs = 0

(* However lazily a counter is rolled forward, and over whatever gap, it   *)
(* holds what was really admitted in this aligned window and the last.     *)
CountsAreTrue ==
    \A k \in Keys :
        LET c == CounterAt(k, now)
        IN  /\ c.current = AdmittedIn(k, c.windowStart, now)
            /\ c.previous = AdmittedIn(k, c.windowStart - WindowMs, c.windowStart - 1)

(* How far the estimate may err on the permissive side: the boundary burst *)
(* of the fixed window is gone.  At worst a whole limit is spent at the    *)
(* very end of one window, and what has faded by the last instant of the   *)
(* same trailing interval is admitted again; a window of one millisecond   *)
(* leaves no instant for that.                                             *)
TrailingCeiling ==
    \A k \in Keys : \A from \in 0..now :
        AdmittedIn(k, from, from + WindowMs - 1)
            <= IF WindowMs = 1 THEN Limit ELSE 2 * Limit - ((2 * Limit) \div WindowMs)

(* retryAfter, "solved rather than searched", is exact: one request is     *)
(* refused until the instant it names and would be admitted there.  Two    *)
(* past bugs in this formula are recorded beside it.                       *)
WaitIsExact ==
    \A k \in DOMAIN counters :
        LET wait == WaitFor(CounterAt(k, now))
        IN  /\ Fits(k, 1, now + wait)
            /\ \A t \in now..(now + wait - 1) : ~ Fits(k, 1, t)
=============================================================================
