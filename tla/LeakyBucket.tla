---------------------------- MODULE LeakyBucket -----------------------------
(***************************************************************************)
(* The leaky bucket: a whole level that requests raise and time drains,    *)
(* the thousandths of a unit carried between drains, and when the bucket   *)
(* was last brought up to date.  Burst is the source's `capacity`.         *)
(***************************************************************************)
EXTENDS BucketParameters, KeyTable

CONSTANT Modulus        \* values a uint32_t takes: 2^32 in the code, scaled down for TLC

VARIABLE buckets        \* the tracked keys' buckets; the others are empty

vars == <<harnessVars, buckets, taken>>

-----------------------------------------------------------------------------
Bucket == [level : 0..Burst, credit : 0..(Unit - 1), last : 0..MaxTime]

(* How long a full bucket takes to drain: Burst * Unit / Rate, rounded up  *)
(* in 64 bits and stored in 32.                                            *)
DrainMs == MsToAccrue(Burst * Unit) % Modulus

ClampedElapsed(b, t) == IF t - b.last > DrainMs THEN DrainMs ELSE t - b.last

(* What leaks by t: whole units, and the fraction carried on.              *)
Leaked(b, t)   == (b.credit + Rate * ClampedElapsed(b, t)) \div Unit
Fraction(b, t) == (b.credit + Rate * ClampedElapsed(b, t)) % Unit

(* mutant of Drain: the fraction is dropped at every update *)
DrainDropsFraction(b, t) ==
    IF t <= b.last                    THEN b
    ELSE IF Leaked(b, t) >= b.level
         THEN [level |-> 0, credit |-> 0, last |-> t]
         ELSE [level |-> b.level - Leaked(b, t), credit |-> 0, last |-> t]

(* A bucket leaked up to t.  Once it has run dry nothing further leaks and *)
(* the fraction that would have leaked next is discarded.                  *)
Drain(b, t) ==
    IF t <= b.last                    THEN b
    ELSE IF Leaked(b, t) >= b.level
         THEN [level |-> 0, credit |-> 0, last |-> t]
         ELSE [level |-> b.level - Leaked(b, t), credit |-> Fraction(b, t), last |-> t]

Empty == [level |-> 0, credit |-> 0, last |-> now]

BucketFor(k) ==
    IF k \in DOMAIN buckets THEN Drain(buckets[k], now) ELSE Empty

Keep(k, b) ==
    buckets' = [x \in DOMAIN buckets \cup {k} |-> IF x = k THEN b ELSE buckets[x]]

FitsUnder(b, cost) == b.level + cost <= Burst

(* The wait an up-to-date bucket predicts until one unit of room exists.   *)
WaitFor(b) == IF b.level < Burst THEN 0 ELSE MsToAccrue(Unit - b.credit)

-----------------------------------------------------------------------------
Init ==
    /\ HarnessInit
    /\ TableInit
    /\ buckets = [k \in {} |-> Empty]

Tick(t) ==
    /\ AdvanceClock(t)
    /\ UNCHANGED <<buckets, taken>>

OpenWindow ==
    /\ MeasureFromNow
    /\ UNCHANGED <<buckets, taken>>

Admit(k, cost) ==
    LET b == BucketFor(k)
    IN  /\ HasRoom(k, DOMAIN buckets)
        /\ FitsUnder(b, cost)
        /\ Keep(k, [b EXCEPT !.level = @ + cost])
        /\ AnswerAllow(k, cost, TRUE)
        /\ UNCHANGED taken

(* A refused request still drains its bucket, or starts tracking its key.  *)
Refuse(k, cost) ==
    LET b == BucketFor(k)
    IN  /\ HasRoom(k, DOMAIN buckets)
        /\ ~ FitsUnder(b, cost)
        /\ Keep(k, b)
        /\ AnswerAllow(k, cost, FALSE)
        /\ UNCHANGED taken

RefuseNewKey(k, cost) ==
    /\ TurnAway(k, cost, DOMAIN buckets)
    /\ UNCHANGED buckets

RetryAfterUntracked(k) ==
    /\ AnswerUntracked(k, DOMAIN buckets)
    /\ UNCHANGED buckets

RetryAfterTracked(k) ==
    /\ k \in DOMAIN buckets
    /\ Keep(k, BucketFor(k))
    /\ Answer("retryAfter", k, WaitFor(BucketFor(k)))
    /\ UNCHANGED taken

Next ==
    \/ \E t \in Later : Tick(t)
    \/ OpenWindow
    \/ AnotherKey(DOMAIN buckets) /\ UNCHANGED buckets
    \/ \E k \in Keys :
          \/ \E cost \in Costs : Admit(k, cost) \/ Refuse(k, cost) \/ RefuseNewKey(k, cost)
          \/ RetryAfterUntracked(k) \/ RetryAfterTracked(k)

Spec == Init /\ [][Next]_vars

-----------------------------------------------------------------------------
(* The ledger's shape: the level never passes the ceiling, the carry is a  *)
(* proper fraction, and an empty bucket carries none.                      *)
Ledger(b, t) ==
    /\ b \in Bucket
    /\ b.last <= t
    /\ b.level = 0 => b.credit = 0

BucketsOK ==
    /\ TableOK(DOMAIN buckets)
    /\ buckets = [k \in DOMAIN buckets |-> buckets[k]]
    /\ \A k \in DOMAIN buckets : Ledger(buckets[k], now)

TypeOK == HarnessTypeOK /\ BucketsOK

(* Clamping idle time to the stored drain time never changes a drain.      *)
ClampIsInvisible ==
    \A k \in DOMAIN buckets :
        now - buckets[k].last > DrainMs => Drain(buckets[k], now).level = 0

(* The debt an abstract meter would show: the level, less what has drained *)
(* since the bucket was last brought up to date.                           *)
Owed(b, t) == b.level * Unit - b.credit - Rate * (t - b.last)

DebtMap ==
    [k \in Keys |-> IF k \in DOMAIN buckets /\ Owed(buckets[k], now) > 0
                    THEN Owed(buckets[k], now)
                    ELSE 0]

M == INSTANCE Meter WITH debt <- DebtMap

(* "At equal parameters this is pb_ratelimiter_token_bucket" (leaky-bucket *)
(* policy.h): for every key it tracks it is the same deterministic meter.  *)
ImplementsMeter ==
    M!Init /\ [][M!Next \/ (AtTheTable(DOMAIN buckets) /\ UNCHANGED DebtMap)]_(M!meterVars)
=============================================================================
