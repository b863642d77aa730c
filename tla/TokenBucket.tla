---------------------------- MODULE TokenBucket -----------------------------
(***************************************************************************)
(* The token bucket: a whole balance, the thousandths carried between      *)
(* refills, and when the bucket was last brought up to date.  Refilling is *)
(* lazy: nothing happens to a bucket until a call names its key, and       *)
(* asking for a wait or a balance refills it just as a request does.       *)
(***************************************************************************)
EXTENDS BucketParameters, TLAPS

VARIABLE buckets        \* the tracked keys' buckets; the others are full

vars == <<harnessVars, buckets>>

-----------------------------------------------------------------------------
Bucket == [tokens : 0..Burst, credit : 0..(Unit - 1), last : 0..MaxTime]

(* How long an empty bucket takes to fill: Burst * Unit / Rate, rounded up. *)
FillMs == MsToAccrue(Burst * Unit)

(* Idle time is clamped before it is multiplied by the rate. *)
ClampedElapsed(b, t) == IF t - b.last > FillMs THEN FillMs ELSE t - b.last

(* The carry: whole tokens out of the accrued credit, the rest kept. *)
Accrue(b, t) ==
    LET credit == b.credit + Rate * ClampedElapsed(b, t)
    IN  [tokens |-> b.tokens + credit \div Unit,
         credit |-> credit % Unit,
         last   |-> t]

(* A bucket brought up to date at t.  Tokens above Burst are lost, and the *)
(* fraction of the next one with them.                                     *)
Refill(b, t) ==
    IF t <= b.last                    THEN b
    ELSE IF Accrue(b, t).tokens >= Burst
         THEN [tokens |-> Burst, credit |-> 0, last |-> t]
         ELSE Accrue(b, t)

Full == [tokens |-> Burst, credit |-> 0, last |-> now]

BucketFor(k) ==
    IF k \in DOMAIN buckets THEN Refill(buckets[k], now) ELSE Full

Keep(k, b) ==
    buckets' = [x \in DOMAIN buckets \cup {k} |-> IF x = k THEN b ELSE buckets[x]]

(* The wait an up-to-date bucket predicts. *)
WaitFor(b) == IF b.tokens >= 1 THEN 0 ELSE MsToAccrue(Unit - b.credit)

-----------------------------------------------------------------------------
Init ==
    /\ HarnessInit
    /\ buckets = [k \in {} |-> Full]

Tick(t) ==
    /\ AdvanceClock(t)
    /\ UNCHANGED buckets

OpenWindow ==
    /\ MeasureFromNow
    /\ UNCHANGED buckets

Admit(k, cost) ==
    LET b == BucketFor(k)
    IN  /\ b.tokens >= cost
        /\ Keep(k, [b EXCEPT !.tokens = @ - cost])
        /\ AnswerAllow(k, cost, TRUE)

(* A refused request still refills its bucket, or starts tracking its key. *)
Refuse(k, cost) ==
    LET b == BucketFor(k)
    IN  /\ b.tokens < cost
        /\ Keep(k, b)
        /\ AnswerAllow(k, cost, FALSE)

RetryAfterUntracked(k) ==
    /\ k \notin DOMAIN buckets
    /\ Answer("retryAfter", k, 0)
    /\ UNCHANGED buckets

RetryAfterTracked(k) ==
    /\ k \in DOMAIN buckets
    /\ Keep(k, BucketFor(k))
    /\ Answer("retryAfter", k, WaitFor(BucketFor(k)))

TokensOfUntracked(k) ==
    /\ k \notin DOMAIN buckets
    /\ Answer("tokensOf", k, Burst)
    /\ UNCHANGED buckets

TokensOfTracked(k) ==
    /\ k \in DOMAIN buckets
    /\ Keep(k, BucketFor(k))
    /\ Answer("tokensOf", k, BucketFor(k).tokens)

Next ==
    \/ \E t \in Later : Tick(t)
    \/ OpenWindow
    \/ \E k \in Keys :
          \/ \E cost \in Costs : Admit(k, cost) \/ Refuse(k, cost)
          \/ RetryAfterUntracked(k) \/ RetryAfterTracked(k)
          \/ TokensOfUntracked(k)   \/ TokensOfTracked(k)

Spec == Init /\ [][Next]_vars

-----------------------------------------------------------------------------
(* The ledger's shape: credit is a proper fraction, no bucket is ahead of  *)
(* the clock, and a full bucket carries no fraction, which is what keeps   *)
(* an idle key from banking more than Burst.                               *)
Ledger(b, t) ==
    /\ b \in Bucket
    /\ b.last <= t
    /\ b.tokens = Burst => b.credit = 0

BucketsOK ==
    /\ DOMAIN buckets \subseteq Keys
    /\ buckets = [k \in DOMAIN buckets |-> buckets[k]]
    /\ \A k \in DOMAIN buckets : Ledger(buckets[k], now)

TypeOK == HarnessTypeOK /\ BucketsOK

(* retryAfter is exact: at the predicted instant one more token exists,    *)
(* and one millisecond earlier there was none.                             *)
WaitIsExact ==
    \A k \in DOMAIN buckets :
        LET wait == WaitFor(BucketFor(k))
        IN  /\ Refill(buckets[k], now + wait).tokens >= 1
            /\ wait > 0 => Refill(buckets[k], now + wait - 1).tokens < 1

(* The meter's promise over any interval measured.  A carry kept too long  *)
(* or counted twice breaks it several calls later.                         *)
RateCeiling ==
    \A k \in Keys : spent[k] * Unit <= Burst * Unit + Rate * (now - since)

(* The debt an abstract meter would show: what is missing from a full      *)
(* bucket, less what has accrued since it was last brought up to date.     *)
Owed(b, t) == (Burst - b.tokens) * Unit - b.credit - Rate * (t - b.last)

Debt(k) ==
    IF k \in DOMAIN buckets /\ Owed(buckets[k], now) > 0
    THEN Owed(buckets[k], now)
    ELSE 0

DebtMap == [k \in Keys |-> Debt(k)]

M == INSTANCE Meter WITH debt <- DebtMap

(* Lazy, clamped, rounded refilling makes exactly the decisions, and gives *)
(* exactly the waits and balances, of the meter with no ledger.            *)
ImplementsMeter == M!Spec

-----------------------------------------------------------------------------
(* The proofs: the token bucket keeps its ledger, implements the meter     *)
(* step by step, and so never exceeds the rate ceiling, for every rate,    *)
(* burst, set of keys and set of costs.                                    *)

(* What is missing from an up-to-date bucket. *)
Missing(b) == (Burst - b.tokens) * Unit - b.credit

Positive(x) == IF x > 0 THEN x ELSE 0

-----------------------------------------------------------------------------
(* Rounding up: MsToAccrue(x) is the first millisecond at which the rate   *)
(* has accrued x.                                                          *)
LEMMA AccrualTime ==
    ASSUME NEW x \in Nat \ {0}
    PROVE  /\ MsToAccrue(x) \in Nat \ {0}
           /\ Rate * MsToAccrue(x) >= x
           /\ Rate * (MsToAccrue(x) - 1) < x
<1> DEFINE n == x + Rate - 1
           q == n \div Rate
<1>1. n \in Nat /\ n >= Rate
    BY BucketAssumption
<1>2. q \in Nat /\ Rate * q <= n /\ n < Rate * q + Rate
    BY <1>1, BucketAssumption
<1>3. q # 0
    BY <1>1, <1>2, BucketAssumption
<1>4. Rate * (q - 1) = Rate * q - Rate
    BY <1>2, BucketAssumption
<1>5. Rate * q >= x /\ Rate * (q - 1) < x
    BY <1>2, <1>4, BucketAssumption
<1>6. QED
    BY <1>2, <1>3, <1>5 DEF MsToAccrue

(* Multiplying by the rate keeps the order. *)
LEMMA RateMonotone ==
    ASSUME NEW x \in Int, NEW y \in Int, x <= y
    PROVE  Rate * x <= Rate * y
BY BucketAssumption

LEMMA RateIsInt ==
    ASSUME NEW x \in Int
    PROVE  Rate * x \in Int /\ (x >= 0 => Rate * x >= 0)
BY BucketAssumption

(* The carry loses nothing: whole tokens and fraction together are what    *)
(* was there plus what accrued.                                            *)
LEMMA AccrueExact ==
    ASSUME NEW t \in Nat, NEW b \in Bucket, b.last < t
    PROVE  /\ Accrue(b, t).tokens \in Nat
           /\ Accrue(b, t).credit \in 0..(Unit - 1)
           /\ Missing(Accrue(b, t)) = Missing(b) - Rate * ClampedElapsed(b, t)
<1> DEFINE e == ClampedElapsed(b, t)
           c == b.credit + Rate * e
<1>0. b.tokens \in Nat /\ b.credit \in Nat /\ b.last \in Nat /\ t \in Nat
    BY HarnessAssumption, BucketAssumption DEF Bucket, Unit
<1>1. e \in Nat
  <2>1. Burst * Unit \in Nat \ {0}
      BY BucketAssumption DEF Unit
  <2>2. FillMs \in Nat
      BY <2>1, AccrualTime DEF FillMs
  <2>3. QED
      BY <1>0, <2>2 DEF ClampedElapsed
<1>2. Rate * e \in Nat
    BY <1>1, BucketAssumption
<1> HIDE DEF e
<1>3. c \in Nat
    BY <1>0, <1>2
<1> HIDE DEF c
<1>4. c \div 1000 \in Nat
    BY <1>3
<1>5. c % 1000 \in 0..999
    BY <1>3
<1>6. 1000 * (c \div 1000) + (c % 1000) = c
    BY <1>3
<1>7. Accrue(b, t) = [tokens |-> b.tokens + c \div 1000,
                      credit |-> c % 1000, last |-> t]
    BY DEF Accrue, c, e, Unit
<1>8. Missing(Accrue(b, t)) = (Burst - (b.tokens + c \div 1000)) * 1000 - (c % 1000)
    BY <1>7 DEF Missing, Unit
<1>9. (Burst - (b.tokens + c \div 1000)) * 1000 - (c % 1000)
        = (Burst - b.tokens) * 1000 - b.credit - Rate * e
  <2> DEFINE q == c \div 1000
             r == c % 1000
             s == Rate * e
  <2>1. q \in Int /\ r \in Int /\ s \in Int /\ 1000 * q + r = b.credit + s
      BY <1>2, <1>4, <1>5, <1>6 DEF c
  <2> HIDE DEF q, r, s
  <2>2. (Burst - (b.tokens + q)) * 1000 - r = (Burst - b.tokens) * 1000 - b.credit - s
      BY <2>1, <1>0, BucketAssumption
  <2>3. QED
      BY <2>2 DEF q, r, s
<1>10. QED
    BY <1>0, <1>4, <1>5, <1>7, <1>8, <1>9 DEF Missing, Unit, e

(* A clamped idle time accrues a full bucket all the same: the clamp never *)
(* changes a refill (index.ts: "the result is identical either way").      *)
LEMMA ClampSaturates ==
    ASSUME NEW t \in Nat, NEW b \in Bucket, b.last < t
    PROVE  \/ ClampedElapsed(b, t) = t - b.last
           \/ /\ Rate * ClampedElapsed(b, t) >= Burst * Unit
              /\ Rate * (t - b.last) >= Burst * Unit
<1>1. b.last \in Nat /\ t \in Nat
    BY HarnessAssumption DEF Bucket
<1>2. Burst * Unit \in Nat \ {0}
    BY BucketAssumption DEF Unit
<1>3. FillMs \in Nat /\ Rate * FillMs >= Burst * Unit
    BY <1>2, AccrualTime DEF FillMs
<1>4. CASE t - b.last > FillMs
  <2> DEFINE d == t - b.last
  <2>1. d \in Nat /\ FillMs <= d
      BY <1>1, <1>3, <1>4
  <2>2. Rate * FillMs <= Rate * d
      BY <2>1, <1>3, RateMonotone
  <2>3. Rate * d \in Int /\ Rate * FillMs \in Int
      BY <2>1, <1>3, RateIsInt
  <2>4. Rate * d >= Burst * Unit
      BY <2>2, <2>3, <1>2, <1>3
  <2>5. QED
      BY <1>3, <1>4, <2>4 DEF ClampedElapsed
<1>5. CASE ~ (t - b.last > FillMs)
    BY <1>5 DEF ClampedElapsed
<1>6. QED
    BY <1>4, <1>5

(* Refilling keeps the ledger and leaves exactly the debt owed by then,    *)
(* also at an instant that is only predicted.                              *)
LEMMA RefillKeepsDebt ==
    ASSUME NEW t \in Nat, NEW b, Ledger(b, t)
    PROVE  /\ t <= MaxTime => Ledger(Refill(b, t), t)
           /\ Refill(b, t).tokens \in Nat /\ Refill(b, t).credit \in 0..(Unit - 1)
           /\ Refill(b, t).last = t
           /\ Missing(Refill(b, t)) = Positive(Owed(b, t))
           /\ Missing(Refill(b, t)) \in 0..(Burst * Unit)
<1> DEFINE r == Refill(b, t)
<1>1. /\ b.tokens \in Nat /\ b.tokens <= Burst
      /\ b.credit \in Nat /\ b.credit <= 999
      /\ b.last \in Nat /\ t \in Nat /\ b.last <= t
    BY HarnessAssumption, BucketAssumption DEF Ledger, Bucket, Unit
<1>2. ASSUME NEW x, x.tokens \in 0..Burst, x.credit \in 0..(Unit - 1),
             x.tokens = Burst => x.credit = 0
      PROVE  Missing(x) \in 0..(Burst * Unit)
  <2>1. PICK a \in 0..Burst : a = x.tokens
      BY <1>2
  <2>2. PICK c \in 0..999 : c = x.credit
      BY <1>2 DEF Unit
  <2>3. a = Burst => c = 0
      BY <1>2, <2>1, <2>2
  <2>4. (Burst - a) * 1000 - c \in 0..(Burst * 1000)
      BY <2>3, BucketAssumption
  <2>5. Missing(x) = (Burst - a) * 1000 - c
      BY <2>1, <2>2 DEF Missing, Unit
  <2>6. QED
      BY <2>4, <2>5 DEF Unit
<1>3. CASE t <= b.last
  <2>1. b.last = t /\ r = b
      BY <1>1, <1>3 DEF Refill
  <2>2. Rate * (t - b.last) = 0
      BY <2>1, <1>1, BucketAssumption
  <2>3. Owed(b, t) = Missing(b)
      BY <2>2, <1>1, BucketAssumption DEF Owed, Missing, Unit
  <2>4. Missing(b) \in 0..(Burst * Unit)
      BY <1>2 DEF Ledger, Bucket
  <2>5. QED
      BY <1>1, <2>1, <2>3, <2>4, BucketAssumption DEF Positive, Unit
<1>4. CASE ~ (t <= b.last)
  <2> DEFINE a == Accrue(b, t)
             s == Rate * ClampedElapsed(b, t)
             d == Rate * (t - b.last)
  <2>0. b.last < t /\ b \in Bucket
      BY <1>1, <1>4 DEF Ledger
  <2>1. /\ a.tokens \in Nat
        /\ a.credit \in 0..(Unit - 1)
        /\ Missing(a) = Missing(b) - s
      BY <2>0, AccrueExact
  <2>2. s = d \/ (s >= Burst * Unit /\ d >= Burst * Unit)
      BY <2>0, ClampSaturates
  <2>3. d \in Int
      BY <1>1, RateIsInt
  <2>4. Owed(b, t) = Missing(b) - d
      BY DEF Owed, Missing
  <2>5. Missing(b) \in 0..(Burst * Unit)
      BY <1>2 DEF Ledger, Bucket
  <2>6. a.last = t /\ a = [tokens |-> a.tokens, credit |-> a.credit, last |-> t]
      BY DEF Accrue
  <2>7. s \in Int
      BY <2>2, <2>3, <1>1, <2>1, BucketAssumption, RateIsInt, AccrualTime
      DEF ClampedElapsed, FillMs, Unit
  <2>8. Missing(a) = (Burst - a.tokens) * Unit - a.credit
      BY DEF Missing
  <2> HIDE DEF a, s, d
  <2>9. CASE a.tokens >= Burst
    <3>1. r = [tokens |-> Burst, credit |-> 0, last |-> t]
        BY <2>9, <1>4 DEF Refill, a
    <3>2. t <= MaxTime => r \in Bucket
        BY <3>1, <1>1, BucketAssumption, HarnessAssumption DEF Bucket, Unit
    <3>3. Missing(r) = 0
        BY <3>1, BucketAssumption DEF Missing, Unit
    <3>4. Missing(b) - s <= 0
        BY <2>9, <2>1, <2>8, BucketAssumption DEF Unit
    <3>5. Owed(b, t) <= 0
        BY <3>4, <2>2, <2>3, <2>4, <2>5, <2>7, BucketAssumption DEF Unit
    <3>6. Positive(Owed(b, t)) = 0
        BY <3>5, <2>3, <2>4, <2>5, BucketAssumption DEF Positive, Unit
    <3>7. t <= MaxTime => Ledger(r, t)
        BY <3>1, <3>2, <1>1 DEF Ledger
    <3>8. 0 \in 0..(Burst * Unit) /\ r.tokens \in Nat /\ r.credit \in 0..(Unit - 1) /\ r.last = t
        BY <3>1, BucketAssumption DEF Unit
    <3>9. QED
        BY <3>3, <3>6, <3>7, <3>8
  <2>10. CASE ~ (a.tokens >= Burst)
    <3>1. r = a
        BY <2>10, <1>4 DEF Refill, a
    <3>2. t <= MaxTime => r \in Bucket
        BY <3>1, <2>1, <2>6, <2>10, <1>1, BucketAssumption, HarnessAssumption DEF Bucket
    <3>3. Missing(a) > 0
        BY <2>10, <2>1, <2>8, BucketAssumption DEF Unit
    <3>4. s = d
        BY <3>3, <2>1, <2>2, <2>3, <2>5, <2>7, BucketAssumption DEF Unit
    <3>5. Missing(r) = Positive(Owed(b, t))
        BY <3>1, <3>3, <3>4, <2>1, <2>4 DEF Positive
    <3>6. a.tokens # Burst
        BY <2>10, <2>1, BucketAssumption
    <3>7. Missing(r) \in 0..(Burst * Unit)
        <4>1. a.tokens \in 0..Burst
            BY <2>1, <2>10, BucketAssumption
        <4>2. QED
            BY <3>1, <3>6, <4>1, <2>1, <1>2
    <3>8. t <= MaxTime => Ledger(r, t)
        BY <3>1, <3>2, <3>6, <2>6, <1>1 DEF Ledger
    <3>9. QED
        BY <3>1, <3>5, <3>7, <3>8, <2>1, <2>6
  <2>11. QED
      BY <2>9, <2>10
<1>5. QED
    BY <1>3, <1>4

-----------------------------------------------------------------------------
(* What a call sees: the up-to-date bucket of its key owes exactly the     *)
(* key's debt.                                                             *)
LEMMA BucketForOwesDebt ==
    ASSUME TypeOK, NEW k \in Keys
    PROVE  /\ Ledger(BucketFor(k), now)
           /\ BucketFor(k).last = now
           /\ Missing(BucketFor(k)) = Debt(k)
           /\ Debt(k) \in 0..(Burst * Unit)
<1>1. now \in 0..MaxTime /\ now \in Nat /\ now <= MaxTime
    BY HarnessAssumption DEF TypeOK, HarnessTypeOK
<1>2. CASE k \in DOMAIN buckets
  <2>1. Ledger(buckets[k], now)
      BY <1>2 DEF TypeOK, BucketsOK
  <2>2. BucketFor(k) = Refill(buckets[k], now)
      BY <1>2 DEF BucketFor
  <2>3. Debt(k) = Positive(Owed(buckets[k], now))
      BY <1>2 DEF Debt, Positive
  <2>4. QED
      BY <1>1, <2>1, <2>2, <2>3, RefillKeepsDebt
<1>3. CASE k \notin DOMAIN buckets
  <2>1. BucketFor(k) = [tokens |-> Burst, credit |-> 0, last |-> now]
      BY <1>3 DEF BucketFor, Full
  <2>2. Debt(k) = 0
      BY <1>3 DEF Debt
  <2>3. Ledger(BucketFor(k), now) /\ BucketFor(k).last = now
      BY <1>1, <2>1, HarnessAssumption, BucketAssumption
      DEF Ledger, Bucket, Unit
  <2>4. Missing(BucketFor(k)) = 0 /\ 0 \in 0..(Burst * Unit)
      BY <2>1, BucketAssumption DEF Missing, Unit
  <2>5. QED
      BY <2>2, <2>3, <2>4
<1>4. QED
    BY <1>2, <1>3

(* Keeping an up-to-date bucket changes the debt of its key and of no      *)
(* other.                                                                  *)
LEMMA KeepSetsDebt ==
    ASSUME TypeOK, NEW k \in Keys, NEW b, Ledger(b, now), b.last = now,
           Keep(k, b), now' = now
    PROVE  /\ BucketsOK'
           /\ DebtMap' = [DebtMap EXCEPT ![k] = Missing(b)]
<1>1. now \in Nat
    BY HarnessAssumption DEF TypeOK, HarnessTypeOK
<1>2. /\ DOMAIN buckets' = DOMAIN buckets \cup {k}
      /\ buckets' = [x \in DOMAIN buckets' |-> buckets'[x]]
      /\ buckets'[k] = b
      /\ \A x \in DOMAIN buckets : x # k => buckets'[x] = buckets[x]
    BY DEF Keep
<1>3. BucketsOK'
    BY <1>2 DEF TypeOK, BucketsOK, Ledger
<1>4. ASSUME NEW x \in Keys, x # k
      PROVE  Debt(x)' = Debt(x)
    BY <1>2, <1>4 DEF Debt, Owed
<1>5. Debt(k)' = Missing(b)
  <2>1. Missing(b) \in Nat
      BY BucketAssumption DEF Ledger, Bucket, Missing, Unit
  <2>2. Rate * (now - now) = 0
      BY <1>1, BucketAssumption
  <2>3. Owed(b, now) = Missing(b)
      BY <2>1, <2>2 DEF Owed, Missing
  <2>4. Debt(k)' = IF Owed(b, now) > 0 THEN Owed(b, now) ELSE 0
      BY <1>2 DEF Debt, Owed
  <2>5. QED
      BY <2>1, <2>3, <2>4
<1>6. QED
    BY <1>3, <1>4, <1>5 DEF DebtMap

(* Time pays the debt of every key down, though no bucket changes.         *)
LEMMA TickPaysDown ==
    ASSUME TypeOK, NEW t \in Later, now' = t, buckets' = buckets
    PROVE  /\ BucketsOK'
           /\ DebtMap' = [k \in Keys |-> M!PaidDown(DebtMap[k], t - now)]
<1>1. /\ now \in Nat /\ t \in Nat /\ t > now /\ t - now \in Nat
    BY M!LaterIsLater, HarnessAssumption, BucketAssumption
    DEF TypeOK, Later, M!Later, HarnessTypeOK, M!HarnessTypeOK
<1>2. BucketsOK'
  <2> SUFFICES ASSUME NEW k \in DOMAIN buckets
               PROVE  Ledger(buckets[k], t)
      BY DEF TypeOK, BucketsOK, Ledger
  <2>1. Ledger(buckets[k], now)
      BY DEF TypeOK, BucketsOK
  <2>2. buckets[k].last \in Nat /\ buckets[k].last <= now
      BY <2>1, HarnessAssumption DEF Ledger, Bucket
  <2>3. QED
      BY <1>1, <2>1, <2>2 DEF Ledger
<1>3. ASSUME NEW k \in Keys
      PROVE  Debt(k)' = M!PaidDown(Debt(k), t - now)
  <2> DEFINE s == Rate * (t - now)
  <2>1. s \in Int /\ s >= 0
      BY <1>1, RateIsInt
  <2>2. CASE k \in DOMAIN buckets
    <3> DEFINE b == buckets[k]
               o == Owed(b, now)
    <3>1. Ledger(b, now)
        BY <2>2 DEF TypeOK, BucketsOK
    <3>2. /\ b.last \in Nat /\ b.last <= now
          /\ b.tokens \in Int /\ b.credit \in Int
        BY <3>1, HarnessAssumption, BucketAssumption DEF Ledger, Bucket, Unit
    <3>3. Rate * (t - b.last) = Rate * (now - b.last) + s
      <4>1. t - b.last = (now - b.last) + (t - now)
          BY <1>1, <3>2
      <4>2. QED
          BY <1>1, <3>2, <4>1, BucketAssumption
    <3>4. Rate * (now - b.last) \in Int
        BY <1>1, <3>2, RateIsInt
    <3>5. o \in Int /\ Owed(b, t) = o - s
        BY <3>2, <3>3, <3>4, <2>1, BucketAssumption DEF Owed, Unit
    <3>6. Debt(k)' = IF Owed(b, t) > 0 THEN Owed(b, t) ELSE 0
        BY <2>2 DEF Debt, Owed
    <3>7. Debt(k) = IF o > 0 THEN o ELSE 0
        BY <2>2 DEF Debt
    <3>8. M!PaidDown(Debt(k), t - now) = IF Debt(k) > s THEN Debt(k) - s ELSE 0
        BY DEF M!PaidDown
    <3> HIDE DEF s, o
    <3>9. QED
        BY <2>1, <3>5, <3>6, <3>7, <3>8
  <2>3. CASE k \notin DOMAIN buckets
    <3>1. Debt(k) = 0 /\ Debt(k)' = 0
        BY <2>3 DEF Debt
    <3> HIDE DEF s
    <3>2. QED
        BY <2>1, <3>1 DEF M!PaidDown, s
  <2>4. QED
      BY <2>2, <2>3
<1>4. QED
    BY <1>2, <1>3 DEF DebtMap

-----------------------------------------------------------------------------
(* How a call's answer reads off the debt: a request fits exactly when the *)
(* whole tokens cover it, the predicted wait is the meter's, and so is the *)
(* balance.                                                                *)
LEMMA AnswersReadOffDebt ==
    ASSUME TypeOK, NEW k \in Keys, NEW b, Ledger(b, now), Missing(b) = Debt(k)
    PROVE  /\ \A cost \in Costs : M!Fits(k, cost) <=> b.tokens >= cost
           /\ WaitFor(b) = M!Wait(k)
           /\ WaitFor(b) \in Nat
           /\ b.tokens = M!WholePermits(k)
           /\ b.tokens \in Nat
<1>1. /\ b.tokens \in Nat /\ b.tokens <= Burst
      /\ b.credit \in Nat /\ b.credit <= 999
    BY BucketAssumption DEF Ledger, Bucket, Unit
<1>2. DebtMap[k] = (Burst - b.tokens) * 1000 - b.credit
    BY DEF DebtMap, Missing, Unit
<1>3. \A cost \in Costs : M!Fits(k, cost) <=> b.tokens >= cost
    BY <1>1, <1>2, HarnessAssumption, BucketAssumption DEF M!Fits, M!Unit
<1>4. WaitFor(b) = M!Wait(k) /\ WaitFor(b) \in Nat
  <2> DEFINE over == DebtMap[k] - (Burst - 1) * Unit
  <2>1. M!Wait(k) = IF over <= 0 THEN 0 ELSE MsToAccrue(over)
      BY DEF M!Wait, M!MsToAccrue, MsToAccrue, M!Unit, Unit
  <2>2. over = (1 - b.tokens) * 1000 - b.credit
      BY <1>1, <1>2, BucketAssumption DEF Unit
  <2> HIDE DEF over
  <2>3. CASE b.tokens >= 1
    <3>1. over <= 0
        BY <1>1, <2>2, <2>3
    <3>2. QED
        BY <2>1, <2>3, <3>1 DEF WaitFor
  <2>4. CASE ~ (b.tokens >= 1)
    <3>1. over = Unit - b.credit /\ over \in Nat \ {0}
        BY <1>1, <2>2, <2>4 DEF Unit
    <3>2. MsToAccrue(over) \in Nat
        BY <3>1, AccrualTime
    <3>3. QED
        BY <2>1, <2>4, <3>1, <3>2 DEF WaitFor
  <2>5. QED
      BY <2>3, <2>4
<1>5. b.tokens = M!WholePermits(k)
  <2>1. Burst * 1000 - DebtMap[k] = 1000 * b.tokens + b.credit
      BY <1>1, <1>2, BucketAssumption
  <2>2. (1000 * b.tokens + b.credit) \div 1000 = b.tokens
      BY <1>1
  <2>3. QED
      BY <2>1, <2>2 DEF M!WholePermits, M!Unit
<1>6. QED
    BY <1>1, <1>3, <1>4, <1>5

(* A key never seen owes nothing: no wait, and a whole burst.              *)
LEMMA UntrackedAnswers ==
    ASSUME NEW k \in Keys, k \notin DOMAIN buckets
    PROVE  M!Wait(k) = 0 /\ M!WholePermits(k) = Burst
<1>1. DebtMap[k] = 0
    BY DEF DebtMap, Debt
<1>2. (Burst * 1000) \div 1000 = Burst
    BY BucketAssumption
<1>3. M!WholePermits(k) = Burst
    BY <1>1, <1>2, BucketAssumption DEF M!WholePermits, M!Unit
<1>4. 0 - (Burst - 1) * 1000 <= 0
    BY BucketAssumption
<1>5. M!Wait(k) = 0
    BY <1>1, <1>4 DEF M!Wait, M!Unit
<1>6. QED
    BY <1>3, <1>5

(* A tracked key has a token from the instant it was told to wait for, and *)
(* not before.                                                             *)
LEMMA WaitIsReached ==
    ASSUME TypeOK, NEW k \in DOMAIN buckets, NEW n \in Nat
    PROVE  Refill(buckets[k], now + n).tokens >= 1 <=> n >= WaitFor(BucketFor(k))
<1>1. now \in Nat /\ now <= MaxTime /\ k \in Keys
    BY HarnessAssumption DEF TypeOK, HarnessTypeOK, BucketsOK
<1>2. PICK b : b = buckets[k]
    OBVIOUS
<1>3. PICK s \in Nat : s = now
    BY <1>1
<1>4. Ledger(b, s) /\ b.last \in Nat /\ b.last <= s /\ b.tokens \in Int /\ b.credit \in Int
    BY <1>2, <1>3, HarnessAssumption, BucketAssumption DEF TypeOK, BucketsOK, Ledger, Bucket, Unit
<1>5. Ledger(b, s + n) /\ s + n \in Nat
    BY <1>4 DEF Ledger
<1>6. PICK up : up = Refill(b, s)
    OBVIOUS
<1>7. PICK later : later = Refill(b, s + n)
    OBVIOUS
<1>8. /\ up.tokens \in Nat /\ up.credit \in 0..(Unit - 1) /\ Missing(up) = Positive(Owed(b, s))
      /\ later.tokens \in Nat /\ later.credit \in 0..(Unit - 1)
      /\ Missing(later) = Positive(Owed(b, s + n))
    BY <1>4, <1>5, <1>6, <1>7, RefillKeepsDebt
<1>9. PICK x \in Nat : x = Rate * n
    BY RateIsInt
<1>10. PICK o \in Int : o = Owed(b, s) /\ Owed(b, s + n) = o - x
    <2>1. PICK e \in Nat : e = s - b.last /\ (s + n) - b.last = e + n
        BY <1>3, <1>4
    <2>2. PICK y \in Nat : y = Rate * e
        BY RateIsInt
    <2>3. Rate * (e + n) = y + x
        <3>1. Rate * (e + n) = Rate * e + Rate * n
            BY BucketAssumption
        <3>2. QED
            BY <1>9, <2>2, <3>1
    <2>4. PICK base \in Int : base = (Burst - b.tokens) * Unit - b.credit
        BY <1>4, BucketAssumption DEF Unit
    <2>5. Owed(b, s) = base - y
        BY <2>1, <2>2, <2>4 DEF Owed
    <2>6. Owed(b, s + n) = base - (y + x)
        BY <2>1, <2>3, <2>4 DEF Owed
    <2>7. QED
        BY <2>5, <2>6
<1>11. PICK a \in Nat : a = up.tokens
    BY <1>8
<1>12. PICK c \in 0..999 : c = up.credit
    BY <1>8 DEF Unit
<1>13. PICK la \in Nat : la = later.tokens
    BY <1>8
<1>14. PICK lc \in 0..999 : lc = later.credit
    BY <1>8 DEF Unit
<1>15. PICK room \in Nat : room = Burst - 1
    BY BucketAssumption
<1>16. (room + 1 - a) * 1000 - c = Positive(o)
    <2>1. Missing(up) = (Burst - a) * 1000 - c
        BY <1>11, <1>12 DEF Missing, Unit
    <2>2. Burst = room + 1
        BY <1>15, BucketAssumption
    <2>3. QED
        BY <1>8, <1>10, <2>1, <2>2
<1>17. (room + 1 - la) * 1000 - lc = Positive(o - x)
    <2>1. Missing(later) = (Burst - la) * 1000 - lc
        BY <1>13, <1>14 DEF Missing, Unit
    <2>2. Burst = room + 1
        BY <1>15, BucketAssumption
    <2>3. QED
        BY <1>8, <1>10, <2>1, <2>2
<1>18. BucketFor(k) = up
    BY <1>2, <1>3, <1>6 DEF BucketFor
<1>19. CASE a >= 1
    <2>1. WaitFor(up) = 0
        BY <1>11, <1>19 DEF WaitFor
    <2>2. la >= 1
        BY <1>16, <1>17, <1>19 DEF Positive
    <2>3. QED
        BY <1>2, <1>3, <1>7, <1>13, <1>18, <2>1, <2>2
<1>20. CASE a = 0
    <2>1. PICK w \in Nat : w = MsToAccrue(1000 - c) /\ w > 0
                           /\ Rate * w >= 1000 - c /\ Rate * (w - 1) < 1000 - c
        <3>1. 1000 - c \in Nat \ {0}
            OBVIOUS
        <3>2. QED
            BY <3>1, AccrualTime
    <2>2. WaitFor(up) = w
        BY <1>11, <1>12, <1>20, <2>1 DEF WaitFor, Unit
    <2>3. la >= 1 <=> x >= 1000 - c
        BY <1>16, <1>17, <1>20 DEF Positive
    <2>4. CASE n >= w
        <3>1. Rate * w <= Rate * n /\ Rate * w \in Int
            BY <2>1, <2>4, RateMonotone, RateIsInt
        <3>2. x >= 1000 - c
            BY <1>9, <2>1, <3>1
        <3>3. QED
            BY <1>2, <1>3, <1>7, <1>13, <1>18, <2>2, <2>3, <2>4, <3>2
    <2>5. CASE n < w
        <3>1. PICK v \in Nat : v = w - 1 /\ n <= v
            BY <2>1, <2>5
        <3>2. Rate * n <= Rate * v /\ Rate * v \in Int
            BY <3>1, RateMonotone, RateIsInt
        <3>3. x < 1000 - c
            BY <1>9, <2>1, <3>1, <3>2
        <3>4. ~ (la >= 1) /\ ~ (n >= w)
            BY <2>3, <2>5, <3>3
        <3>5. QED
            BY <1>2, <1>3, <1>7, <1>13, <1>18, <2>2, <3>4
    <2>6. QED
        BY <2>1, <2>4, <2>5
<1>21. QED
    BY <1>19, <1>20

(* So what it was told is the truth, to the millisecond.                   *)
LEMMA WaitsAreTrue == TypeOK => WaitIsExact
<1> SUFFICES ASSUME TypeOK, NEW k \in DOMAIN buckets, NEW wait, wait = WaitFor(BucketFor(k))
             PROVE  /\ Refill(buckets[k], now + wait).tokens >= 1
                    /\ wait > 0 => Refill(buckets[k], now + wait - 1).tokens < 1
    BY Zenon DEF WaitIsExact
<1>1. now \in Nat /\ k \in Keys
    BY HarnessAssumption DEF TypeOK, HarnessTypeOK, BucketsOK
<1>2. wait \in Nat
    <2>1. Ledger(BucketFor(k), now) /\ Missing(BucketFor(k)) = Debt(k)
        BY <1>1, BucketForOwesDebt
    <2>2. QED
        BY <1>1, <2>1, AnswersReadOffDebt
<1>3. Refill(buckets[k], now + wait).tokens >= 1
    BY <1>2, WaitIsReached
<1>4. ASSUME wait > 0
      PROVE  Refill(buckets[k], now + wait - 1).tokens < 1
    <2>1. PICK m \in Nat : m = wait - 1 /\ ~ (m >= wait)
        BY <1>2, <1>4
    <2>2. ~ (Refill(buckets[k], now + m).tokens >= 1)
        BY <2>1, WaitIsReached
    <2>3. now + wait - 1 = now + m
        BY <1>1, <1>2, <2>1
    <2>4. Refill(buckets[k], now + m).tokens \in Nat
        <3>1. Ledger(buckets[k], now + m) /\ now + m \in Nat
            BY <1>1, HarnessAssumption DEF TypeOK, BucketsOK, Ledger, Bucket
        <3>2. QED
            BY <3>1, RefillKeepsDebt
    <2>5. QED
        BY <2>2, <2>3, <2>4
<1>5. QED
    BY <1>3, <1>4

(* Charging an admitted request.                                           *)
LEMMA ChargeAddsDebt ==
    ASSUME NEW t, NEW b, Ledger(b, t), NEW cost \in Nat, b.tokens >= cost
    PROVE  LET c == [b EXCEPT !.tokens = @ - cost]
           IN  /\ Ledger(c, t)
               /\ c.last = b.last
               /\ Missing(c) = Missing(b) + cost * Unit
<1> DEFINE c == [b EXCEPT !.tokens = @ - cost]
<1>1. /\ b.tokens \in Nat /\ b.tokens <= Burst
      /\ b.credit \in Nat
    BY BucketAssumption DEF Ledger, Bucket, Unit
<1>2. c.tokens = b.tokens - cost /\ c.credit = b.credit /\ c.last = b.last
    BY DEF Ledger, Bucket
<1>3. b.tokens - cost \in 0..Burst
    BY <1>1, BucketAssumption
<1>4. c \in Bucket
    BY <1>3 DEF Ledger, Bucket
<1>5. c.tokens = Burst => b.tokens = Burst
    BY <1>1, <1>2, BucketAssumption
<1>6. Ledger(c, t)
    BY <1>2, <1>4, <1>5 DEF Ledger
<1>7. Missing(c) = Missing(b) + cost * Unit
    BY <1>1, <1>2, BucketAssumption DEF Missing, Unit
<1>8. QED
    BY <1>2, <1>6, <1>7

-----------------------------------------------------------------------------
(* One step of the bucket keeps its type and is a step of the meter.       *)
LEMMA StepIsMeterStep ==
    TypeOK /\ [Next]_vars => TypeOK' /\ [M!Next]_(M!meterVars)
<1> SUFFICES ASSUME TypeOK, [Next]_vars
             PROVE  TypeOK' /\ [M!Next]_(M!meterVars)
    OBVIOUS
<1>1. ASSUME NEW t \in Later, Tick(t)
      PROVE  TypeOK' /\ M!Tick(t)
  <2>1. now' = t /\ buckets' = buckets
      BY <1>1 DEF Tick, AdvanceClock
  <2>2. HarnessTypeOK'
      BY <1>1, M!ClockAdvances, HarnessAssumption, BucketAssumption
      DEF Tick, TypeOK, Later, M!Later, AdvanceClock, M!AdvanceClock,
          HarnessTypeOK, M!HarnessTypeOK, Replies, M!Replies, Readings,
          M!Readings
  <2>3. QED
      BY <1>1, <2>1, <2>2, TickPaysDown
      DEF Tick, M!Tick, AdvanceClock, M!AdvanceClock, TypeOK
<1>2. CASE OpenWindow
  <2>1. now' = now /\ buckets' = buckets
      BY <1>2 DEF OpenWindow, MeasureFromNow
  <2>2. HarnessTypeOK'
      BY <1>2, M!MeasureKeepsType, HarnessAssumption, BucketAssumption
      DEF OpenWindow, TypeOK, MeasureFromNow, M!MeasureFromNow,
          HarnessTypeOK, M!HarnessTypeOK, Replies, M!Replies, Readings,
          M!Readings
  <2>3. DebtMap' = DebtMap
      BY <2>1 DEF DebtMap, Debt, Owed
  <2>4. BucketsOK'
      BY <2>1 DEF TypeOK, BucketsOK, Ledger
  <2>5. QED
      BY <1>2, <2>2, <2>3, <2>4 
      DEF OpenWindow, M!OpenWindow, M!Next, MeasureFromNow, M!MeasureFromNow, TypeOK
<1>3. ASSUME NEW k \in Keys, NEW cost \in Costs, Admit(k, cost)
      PROVE  TypeOK' /\ M!Admit(k, cost)
  <2> DEFINE b == BucketFor(k)
             c == [b EXCEPT !.tokens = @ - cost]
  <2>1. /\ Ledger(b, now) /\ b.last = now /\ Missing(b) = Debt(k)
      BY BucketForOwesDebt
  <2>2. cost \in Nat
      BY HarnessAssumption
  <2>3. b.tokens >= cost /\ Keep(k, c) /\ AnswerAllow(k, cost, TRUE)
      BY <1>3 DEF Admit
  <2>4. now' = now
      BY <2>3 DEF AnswerAllow
  <2> HIDE DEF b
  <2>5. Ledger(c, now) /\ c.last = now /\ Missing(c) = Missing(b) + cost * Unit
      BY <2>1, <2>2, <2>3, ChargeAddsDebt
  <2> HIDE DEF c
  <2>6. BucketsOK' /\ DebtMap' = [DebtMap EXCEPT ![k] = Missing(c)]
      BY <2>3, <2>4, <2>5, KeepSetsDebt
  <2>7. HarnessTypeOK'
      BY <2>3, M!AllowKeepsType, HarnessAssumption, BucketAssumption
      DEF TypeOK, AnswerAllow, M!AnswerAllow, HarnessTypeOK,
          M!HarnessTypeOK, Replies, M!Replies, Readings, M!Readings
  <2>8. DebtMap' = [DebtMap EXCEPT ![k] = @ + cost * Unit]
      BY <2>1, <2>5, <2>6 DEF DebtMap
  <2>9. M!Fits(k, cost)
      BY <2>1, <2>3, AnswersReadOffDebt
  <2>10. QED
      BY <2>3, <2>6, <2>7, <2>8, <2>9
      DEF M!Admit, M!AnswerAllow, AnswerAllow, M!Unit, Unit, TypeOK
<1>4. ASSUME NEW k \in Keys, NEW b, b = BucketFor(k), Keep(k, b), now' = now
      PROVE  BucketsOK' /\ DebtMap' = DebtMap
  <2>1. /\ Ledger(b, now) /\ b.last = now /\ Missing(b) = Debt(k)
      BY <1>4, BucketForOwesDebt
  <2>2. BucketsOK' /\ DebtMap' = [DebtMap EXCEPT ![k] = Missing(b)]
      BY <1>4, <2>1, KeepSetsDebt
  <2>3. QED
      BY <2>1, <2>2 DEF DebtMap
<1>5. ASSUME NEW k \in Keys, NEW cost \in Costs, Refuse(k, cost)
      PROVE  TypeOK' /\ M!Refuse(k, cost)
  <2> DEFINE b == BucketFor(k)
  <2>1. /\ Ledger(b, now) /\ Missing(b) = Debt(k)
      BY BucketForOwesDebt
  <2>2. b.tokens < cost /\ Keep(k, b) /\ AnswerAllow(k, cost, FALSE)
      BY <1>5 DEF Refuse
  <2>3. cost \in Nat /\ b.tokens \in Nat
      BY <2>1, HarnessAssumption, BucketAssumption DEF Ledger, Bucket
  <2>4. ~ (b.tokens >= cost)
      BY <2>2, <2>3
  <2>5. BucketsOK' /\ DebtMap' = DebtMap
      BY <1>4, <2>2 DEF AnswerAllow
  <2>6. HarnessTypeOK'
      BY <2>2, M!AllowKeepsType, HarnessAssumption, BucketAssumption
      DEF TypeOK, AnswerAllow, M!AnswerAllow, HarnessTypeOK,
          M!HarnessTypeOK, Replies, M!Replies, Readings, M!Readings
  <2>7. ~ M!Fits(k, cost)
      BY <2>1, <2>4, AnswersReadOffDebt
  <2>8. QED
      BY <2>2, <2>5, <2>6, <2>7 DEF M!Refuse, M!AnswerAllow, AnswerAllow, TypeOK
<1>6. ASSUME NEW k \in Keys, RetryAfterUntracked(k) \/ RetryAfterTracked(k)
      PROVE  TypeOK' /\ M!RetryAfter(k)
  <2> DEFINE b == BucketFor(k)
  <2>1. /\ Ledger(b, now) /\ Missing(b) = Debt(k)
      BY BucketForOwesDebt
  <2>2. WaitFor(b) = M!Wait(k) /\ M!Wait(k) \in Nat
      BY <2>1, AnswersReadOffDebt
  <2>3. Answer("retryAfter", k, M!Wait(k))
      BY <1>6, <2>2, UntrackedAnswers DEF RetryAfterUntracked, RetryAfterTracked
  <2>4. now' = now
      BY <2>3 DEF Answer
  <2>5. BucketsOK' /\ DebtMap' = DebtMap
    <3>1. CASE RetryAfterUntracked(k)
        BY <2>4, <3>1 DEF RetryAfterUntracked, TypeOK, BucketsOK, Ledger,
                          DebtMap, Debt, Owed
    <3>2. CASE RetryAfterTracked(k)
        BY <1>4, <2>4, <3>2 DEF RetryAfterTracked
    <3>3. QED
        BY <1>6, <3>1, <3>2
  <2>6. HarnessTypeOK'
      BY <2>2, <2>3, M!AnswerKeepsType, HarnessAssumption, BucketAssumption
      DEF TypeOK, Readings, Answer, M!Answer, HarnessTypeOK,
          M!HarnessTypeOK, Replies, M!Replies, M!Readings
  <2>7. QED
      BY <2>3, <2>5, <2>6 DEF M!RetryAfter, M!Answer, Answer, TypeOK
<1>7. ASSUME NEW k \in Keys, TokensOfUntracked(k) \/ TokensOfTracked(k)
      PROVE  TypeOK' /\ M!TokensOf(k)
  <2> DEFINE b == BucketFor(k)
  <2>1. /\ Ledger(b, now) /\ Missing(b) = Debt(k)
      BY BucketForOwesDebt
  <2>2. b.tokens = M!WholePermits(k) /\ M!WholePermits(k) \in Nat
      BY <2>1, AnswersReadOffDebt
  <2>3. Answer("tokensOf", k, M!WholePermits(k))
      BY <1>7, <2>2, UntrackedAnswers DEF TokensOfUntracked, TokensOfTracked
  <2>4. now' = now
      BY <2>3 DEF Answer
  <2>5. BucketsOK' /\ DebtMap' = DebtMap
    <3>1. CASE TokensOfUntracked(k)
        BY <2>4, <3>1 DEF TokensOfUntracked, TypeOK, BucketsOK, Ledger,
                          DebtMap, Debt, Owed
    <3>2. CASE TokensOfTracked(k)
        BY <1>4, <2>4, <3>2 DEF TokensOfTracked
    <3>3. QED
        BY <1>7, <3>1, <3>2
  <2>6. HarnessTypeOK'
      BY <2>2, <2>3, M!AnswerKeepsType, HarnessAssumption, BucketAssumption
      DEF TypeOK, Readings, Answer, M!Answer, HarnessTypeOK,
          M!HarnessTypeOK, Replies, M!Replies, M!Readings
  <2>7. QED
      BY <2>3, <2>5, <2>6 DEF M!TokensOf, M!Answer, Answer, TypeOK
<1>8. CASE UNCHANGED vars
  <2>1. HarnessTypeOK' /\ BucketsOK'
      BY <1>8 DEF vars, harnessVars, TypeOK, HarnessTypeOK, BucketsOK, Ledger
  <2>2. DebtMap' = DebtMap
      BY <1>8 DEF vars, harnessVars, DebtMap, Debt, Owed
  <2>3. QED
      BY <1>8, <2>1, <2>2 DEF vars, harnessVars, M!meterVars, M!harnessVars, TypeOK
<1>9. QED
    BY <1>1, <1>2, <1>3, <1>5, <1>6, <1>7, <1>8 DEF Next, M!Next, Later, M!Later

(* Init of the bucket maps to Init of the meter: every key owes nothing.   *)
LEMMA InitIsMeterInit == Init => TypeOK /\ M!Init
<1> SUFFICES ASSUME Init PROVE TypeOK /\ M!Init
    OBVIOUS
<1>1. DOMAIN buckets = {} /\ buckets = [k \in DOMAIN buckets |-> buckets[k]]
    BY DEF Init
<1>2. TypeOK
    BY <1>1, M!InitHasType, HarnessAssumption, BucketAssumption
    DEF Init, TypeOK, BucketsOK, HarnessInit, M!HarnessInit,
        HarnessTypeOK, M!HarnessTypeOK, Replies, M!Replies, Readings,
        M!Readings
<1>3. DebtMap = [k \in Keys |-> 0]
    BY <1>1 DEF DebtMap, Debt
<1>4. QED
    BY <1>2, <1>3 DEF Init, M!Init, HarnessInit, M!HarnessInit

(* The ledger is always well formed (index.ts: "Thousandths of a token     *)
(* ... Always 0..999").                                                    *)
THEOREM TypeCorrect == Spec => []TypeOK
BY InitIsMeterInit, StepIsMeterStep, PTL DEF Spec

(* The token bucket's lazy, clamped, rounded refill implements the meter:  *)
(* same decisions, same waits, same balances.                              *)
THEOREM BucketImplementsMeter == Spec => ImplementsMeter
BY InitIsMeterInit, StepIsMeterStep, PTL DEF Spec, ImplementsMeter, M!Spec

(* The ceiling proved of the meter is the bucket's ceiling.                *)
THEOREM RateIsCapped == Spec => []RateCeiling
<1>1. M!Spec => []M!RateCeiling
    BY M!RateIsCapped, HarnessAssumption, BucketAssumption
<1>2. M!RateCeiling => RateCeiling
    BY DEF M!RateCeiling, RateCeiling, M!Unit, Unit
<1>3. QED
    BY <1>1, <1>2, BucketImplementsMeter, PTL DEF ImplementsMeter

(* And so are its waits.                                                   *)
THEOREM BucketKeepsItsWord == Spec => []WaitIsExact
BY TypeCorrect, WaitsAreTrue, PTL
=============================================================================
