------------------------------- MODULE Meter --------------------------------
(***************************************************************************)
(* What a continuously refilling limiter promises, with no ledger at all.  *)
(*                                                                         *)
(* Each key owes a debt, in thousandths of a permit.  Time pays it back at *)
(* `Rate` thousandths per millisecond and never below zero; a request is   *)
(* admitted exactly when its cost still fits under `Burst` whole permits,  *)
(* and then adds its cost.  The three bucket policies (token bucket, leaky *)
(* bucket, GCRA) keep three different ledgers and are each claimed to make *)
(* these decisions and give these waits; the modules TokenBucket,          *)
(* LeakyBucket and Gcra are checked, and proved, to implement this one.    *)
(***************************************************************************)
EXTENDS BucketParameters, TLAPS

VARIABLE debt

meterVars == <<harnessVars, debt>>

-----------------------------------------------------------------------------
(* The debt left of `d` once `elapsed` milliseconds have paid some back. *)
PaidDown(d, elapsed) == IF d > Rate * elapsed THEN d - Rate * elapsed ELSE 0

Fits(k, cost) == debt[k] + cost * Unit <= Burst * Unit

(* The first whole millisecond at which one permit fits again. *)
Wait(k) ==
    LET over == debt[k] - (Burst - 1) * Unit
    IN  IF over <= 0 THEN 0 ELSE MsToAccrue(over)

WholePermits(k) == (Burst * Unit - debt[k]) \div Unit

-----------------------------------------------------------------------------
Init ==
    /\ HarnessInit
    /\ debt = [k \in Keys |-> 0]

Tick(t) ==
    /\ AdvanceClock(t)
    /\ debt' = [k \in Keys |-> PaidDown(debt[k], t - now)]

OpenWindow ==
    /\ MeasureFromNow
    /\ UNCHANGED debt

Admit(k, cost) ==
    /\ Fits(k, cost)
    /\ debt' = [debt EXCEPT ![k] = @ + cost * Unit]
    /\ AnswerAllow(k, cost, TRUE)

Refuse(k, cost) ==
    /\ ~ Fits(k, cost)
    /\ AnswerAllow(k, cost, FALSE)
    /\ UNCHANGED debt

RetryAfter(k) ==
    /\ Answer("retryAfter", k, Wait(k))
    /\ UNCHANGED debt

TokensOf(k) ==
    /\ Answer("tokensOf", k, WholePermits(k))
    /\ UNCHANGED debt

Next ==
    \/ \E t \in Later : Tick(t)
    \/ OpenWindow
    \/ \E k \in Keys :
          \/ \E cost \in Costs : Admit(k, cost) \/ Refuse(k, cost)
          \/ RetryAfter(k)
          \/ TokensOf(k)

Spec == Init /\ [][Next]_meterVars

-----------------------------------------------------------------------------
TypeOK ==
    /\ HarnessTypeOK
    /\ debt \in [Keys -> 0..(Burst * Unit)]

(* What every policy that implements the meter promises: no key is ever    *)
(* admitted more than one burst plus what the rate pays back over the time *)
(* measured, wherever the measurement starts: "a long-run ceiling of       *)
(* ratePerSec" (token-bucket index.ts header).  A carry kept too long or   *)
(* counted twice, or an idle key's time banked beyond the burst, breaks it *)
(* several calls later.                                                    *)
RateCeiling ==
    \A k \in Keys : spent[k] * Unit <= Burst * Unit + Rate * (now - since)

(* Why RateCeiling holds: whatever was admitted in the window is either    *)
(* still owed or has been paid back by the window's own time.              *)
SpentIsOwedOrPaid ==
    \A k \in Keys : spent[k] * Unit <= debt[k] + Rate * (now - since)

-----------------------------------------------------------------------------
(* What the caller's steps preserve, whatever the limiter does with its    *)
(* own state: cited by the proofs of every limiter with a meter.           *)

(* The clock only moves forward, and within its bound (harness.ts: a trace *)
(* must be non-decreasing in time).                                        *)
LEMMA ClockAdvances ==
    ASSUME HarnessTypeOK, NEW t \in Later, AdvanceClock(t)
    PROVE  HarnessTypeOK'
<1>1. now \in Nat /\ MaxTime \in Nat
    BY HarnessAssumption DEF HarnessTypeOK
<1>2. t \in 0..MaxTime /\ t > now
    BY <1>1 DEF Later
<1>3. since \in 0..t
    BY <1>1, <1>2 DEF HarnessTypeOK
<1>4. QED
    BY <1>2, <1>3 DEF HarnessTypeOK, AdvanceClock

(* The same, as numbers. *)
LEMMA LaterIsLater ==
    ASSUME HarnessTypeOK, NEW t \in Later
    PROVE  /\ now \in Nat /\ since \in Nat /\ since <= now
           /\ t \in Nat
           /\ t - now \in Nat
           /\ t > now
           /\ t <= MaxTime
BY HarnessAssumption DEF HarnessTypeOK, Later

(* Opening a window keeps the type. *)
LEMMA MeasureKeepsType ==
    ASSUME HarnessTypeOK, MeasureFromNow
    PROVE  HarnessTypeOK'
<1>1. now \in Nat
    BY HarnessAssumption DEF HarnessTypeOK
<1>2. since' \in 0..now'
    BY <1>1 DEF MeasureFromNow
<1>3. QED
    BY <1>2 DEF MeasureFromNow, HarnessTypeOK

(* An answer to allow() keeps the type. *)
LEMMA AllowKeepsType ==
    ASSUME HarnessTypeOK, NEW k \in Keys, NEW cost \in Costs,
           NEW admitted \in BOOLEAN, AnswerAllow(k, cost, admitted)
    PROVE  HarnessTypeOK'
<1>1. reply' \in Replies
    BY DEF AnswerAllow, Replies
<1>2. cost \in Nat
    BY HarnessAssumption
<1>3. spent' \in [Keys -> Nat]
    BY <1>2 DEF AnswerAllow, HarnessTypeOK
<1>4. QED
    BY <1>1, <1>3 DEF AnswerAllow, HarnessTypeOK

(* Any other answer keeps the type if it is a number. *)
LEMMA AnswerKeepsType ==
    ASSUME HarnessTypeOK, NEW op \in Readings, NEW k \in Keys, NEW n \in Nat,
           Answer(op, k, n)
    PROVE  HarnessTypeOK'
<1>1. reply' \in Replies
    BY DEF Answer, Replies
<1>2. QED
    BY <1>1 DEF Answer, HarnessTypeOK

(* Nothing has happened yet. *)
LEMMA InitHasType == HarnessInit => HarnessTypeOK
BY HarnessAssumption DEF HarnessInit, HarnessTypeOK, Replies

-----------------------------------------------------------------------------
(* Time pays a debt down by at most Rate a millisecond, and never below    *)
(* zero: the clamp in the buckets' refill (index.ts refill).               *)
LEMMA PaidDownBounds ==
    ASSUME NEW d \in Nat, NEW elapsed \in Nat
    PROVE  /\ PaidDown(d, elapsed) \in Nat
           /\ PaidDown(d, elapsed) <= d
           /\ d <= PaidDown(d, elapsed) + Rate * elapsed
<1>1. Rate * elapsed \in Nat
    BY BucketAssumption
<1>2. QED
    BY <1>1, BucketAssumption DEF PaidDown

(* Elapsed time adds up: the rate distributes over it. *)
LEMMA RateDistributes ==
    ASSUME NEW x \in Int, NEW y \in Int
    PROVE  /\ Rate * (x + y) = Rate * x + Rate * y
           /\ Rate * x \in Int
           /\ x >= 0 => Rate * x >= 0
BY BucketAssumption

(* The wait and the balance a call reports are natural numbers. *)
LEMMA AnswersAreNatural ==
    ASSUME NEW k \in Keys, TypeOK
    PROVE  /\ Wait(k) \in Nat
           /\ WholePermits(k) \in Nat
<1>1. debt[k] \in 0..(Burst * Unit)
    BY DEF TypeOK
<1>2. WholePermits(k) \in Nat
    BY <1>1, BucketAssumption DEF WholePermits, Unit
<1>3. Wait(k) \in Nat
  <2> DEFINE over == debt[k] - (Burst - 1) * Unit
  <2>1. over \in Int
      BY <1>1, BucketAssumption DEF Unit
  <2>2. over > 0 => (over + Rate - 1) \in Nat
      BY <2>1, BucketAssumption
  <2>3. over > 0 => (over + Rate - 1) \div Rate \in Nat
      BY <2>2, BucketAssumption
  <2>4. QED
      BY <2>1, <2>3 DEF Wait, MsToAccrue
<1>4. QED
    BY <1>2, <1>3

-----------------------------------------------------------------------------
(* The debt of a key never exceeds the burst, and every answer has its     *)
(* type: allow() commits only what fits (interface.ts allow).              *)
THEOREM TypeCorrect == Spec => []TypeOK
<1>1. Init => TypeOK
    BY InitHasType, BucketAssumption DEF Init, TypeOK, Unit
<1>2. TypeOK /\ [Next]_meterVars => TypeOK'
  <2> SUFFICES ASSUME TypeOK, [Next]_meterVars
               PROVE  TypeOK'
      OBVIOUS
  <2> USE HarnessAssumption, BucketAssumption
  <2>1. ASSUME NEW t \in Later, Tick(t)
        PROVE  TypeOK'
    <3>1. HarnessTypeOK'
        BY <2>1, ClockAdvances DEF Tick, TypeOK
    <3>2. t - now \in Nat
        BY LaterIsLater DEF TypeOK
    <3>3. ASSUME NEW k \in Keys
          PROVE  PaidDown(debt[k], t - now) \in 0..(Burst * Unit)
      <4> DEFINE left == PaidDown(debt[k], t - now)
      <4>1. debt[k] \in Nat /\ debt[k] <= Burst * Unit
          BY DEF TypeOK, Unit
      <4>2. left \in Nat /\ left <= debt[k]
          BY <3>2, <4>1, PaidDownBounds
      <4> HIDE DEF left
      <4>3. left \in 0..(Burst * Unit)
          BY <4>1, <4>2 DEF Unit
      <4>4. QED
          BY <4>3 DEF left
    <3>4. QED
        BY <2>1, <3>1, <3>3 DEF Tick, TypeOK
  <2>2. CASE OpenWindow
      BY <2>2, MeasureKeepsType DEF OpenWindow, TypeOK
  <2>3. ASSUME NEW k \in Keys, NEW cost \in Costs, Admit(k, cost)
        PROVE  TypeOK'
    <3>1. debt[k] + cost * Unit \in 0..(Burst * Unit)
        BY <2>3 DEF Admit, Fits, TypeOK, Unit
    <3>2. debt' \in [Keys -> 0..(Burst * Unit)]
        BY <2>3, <3>1 DEF Admit, TypeOK
    <3>3. HarnessTypeOK'
        BY <2>3, AllowKeepsType DEF Admit, TypeOK
    <3>4. QED
        BY <3>2, <3>3 DEF TypeOK
  <2>4. ASSUME NEW k \in Keys, NEW cost \in Costs, Refuse(k, cost)
        PROVE  TypeOK'
      BY <2>4, AllowKeepsType DEF Refuse, TypeOK
  <2>5. ASSUME NEW k \in Keys, RetryAfter(k)
        PROVE  TypeOK'
      BY <2>5, AnswersAreNatural, AnswerKeepsType
      DEF RetryAfter, TypeOK, Readings
  <2>6. ASSUME NEW k \in Keys, TokensOf(k)
        PROVE  TypeOK'
      BY <2>6, AnswersAreNatural, AnswerKeepsType
      DEF TokensOf, TypeOK, Readings
  <2>7. CASE UNCHANGED meterVars
      BY <2>7 DEF meterVars, harnessVars, TypeOK, HarnessTypeOK
  <2>8. QED
      BY <2>1, <2>2, <2>3, <2>4, <2>5, <2>6, <2>7 DEF Next
<1>3. QED
    BY <1>1, <1>2, PTL DEF Spec

-----------------------------------------------------------------------------
(* The invariant behind the ceiling: an admission adds the same amount to  *)
(* what was spent and to what is owed, and a Tick pays back no more than   *)
(* the window's time grows by.                                             *)
LEMMA SpentStep ==
    TypeOK /\ SpentIsOwedOrPaid /\ [Next]_meterVars => SpentIsOwedOrPaid'
<1> SUFFICES ASSUME TypeOK, SpentIsOwedOrPaid, [Next]_meterVars,
                    NEW x \in Keys
             PROVE  spent'[x] * Unit <= debt'[x] + Rate * (now' - since')
    BY DEF SpentIsOwedOrPaid
<1> USE HarnessAssumption, BucketAssumption
<1>1. /\ spent[x] * Unit <= debt[x] + Rate * (now - since)
      /\ spent[x] \in Nat
      /\ debt[x] \in Nat
      /\ now \in Nat /\ since \in Nat /\ since <= now
      /\ Rate * (now - since) \in Nat
    BY DEF SpentIsOwedOrPaid, TypeOK, HarnessTypeOK, Unit
<1>2. ASSUME NEW t \in Later, Tick(t)
      PROVE  spent'[x] * Unit <= debt'[x] + Rate * (now' - since')
  <2> DEFINE passed == t - now
             open   == now - since
             left   == PaidDown(debt[x], passed)
  <2>1. passed \in Nat /\ open \in Nat /\ t - since = open + passed
      BY LaterIsLater DEF TypeOK
  <2>2. /\ debt[x] <= left + Rate * passed
        /\ left \in Nat
      BY <2>1, <1>1, PaidDownBounds
  <2>3. /\ Rate * (t - since) = Rate * open + Rate * passed
        /\ Rate * open \in Int
        /\ Rate * passed \in Int
      BY <2>1, RateDistributes
  <2>4. spent[x] * Unit <= left + Rate * (t - since)
    <3> HIDE DEF passed, open, left
    <3>1. spent[x] * Unit <= debt[x] + Rate * open
        BY <1>1 DEF open
    <3>2. QED
        BY <3>1, <2>2, <2>3, <1>1 DEF Unit
  <2>5. /\ debt'[x] = left
        /\ spent'[x] = spent[x]
        /\ now' = t /\ since' = since
      BY <1>2 DEF Tick, AdvanceClock
  <2>6. QED
      BY <2>4, <2>5
<1>3. CASE OpenWindow
  <2>1. /\ spent'[x] = 0
        /\ debt'[x] = debt[x]
        /\ now' = now /\ since' = now
      BY <1>3 DEF OpenWindow, MeasureFromNow
  <2>2. Rate * (now' - since') = 0
      BY <2>1, <1>1
  <2>3. QED
      BY <2>1, <2>2, <1>1 DEF Unit
<1>4. ASSUME NEW k \in Keys, NEW cost \in Costs, Admit(k, cost)
      PROVE  spent'[x] * Unit <= debt'[x] + Rate * (now' - since')
  <2>1. /\ spent' = [spent EXCEPT ![k] = @ + cost]
        /\ debt' = [debt EXCEPT ![k] = @ + cost * Unit]
        /\ now' = now /\ since' = since
        /\ cost \in Nat
      BY <1>4 DEF Admit, AnswerAllow
  <2>2. CASE x = k
    <3>1. /\ spent'[x] = spent[x] + cost
          /\ debt'[x] = debt[x] + cost * Unit
        BY <2>1, <2>2 DEF TypeOK, HarnessTypeOK
    <3>2. QED
        BY <3>1, <2>1, <1>1 DEF Unit
  <2>3. CASE x # k
      BY <2>1, <2>3, <1>1 DEF TypeOK, HarnessTypeOK
  <2>4. QED
      BY <2>2, <2>3
<1>5. ASSUME NEW k \in Keys, NEW cost \in Costs, Refuse(k, cost)
      PROVE  spent'[x] * Unit <= debt'[x] + Rate * (now' - since')
    BY <1>5, <1>1 DEF Refuse, AnswerAllow
<1>6. ASSUME NEW k \in Keys, RetryAfter(k) \/ TokensOf(k)
      PROVE  spent'[x] * Unit <= debt'[x] + Rate * (now' - since')
  <2>1. spent' = spent /\ debt' = debt /\ now' = now /\ since' = since
      BY <1>6 DEF RetryAfter, TokensOf, Answer, harnessVars
  <2>2. QED
      BY <2>1, <1>1
<1>7. CASE UNCHANGED meterVars
    BY <1>7, <1>1 DEF meterVars, harnessVars
<1>8. QED
    BY <1>2, <1>3, <1>4, <1>5, <1>6, <1>7 DEF Next

(* Whatever was spent in a measured window is still owed or was paid back  *)
(* by the window's own time.                                               *)
THEOREM SpentIsCovered == Spec => []SpentIsOwedOrPaid
<1>1. Init => SpentIsOwedOrPaid
  <2> SUFFICES ASSUME Init, NEW x \in Keys
               PROVE  spent[x] * Unit <= debt[x] + Rate * (now - since)
      BY DEF SpentIsOwedOrPaid
  <2>1. spent[x] = 0 /\ debt[x] = 0 /\ now = 0 /\ since = 0
      BY DEF Init, HarnessInit
  <2>2. Rate * (now - since) = 0
      BY <2>1, BucketAssumption
  <2>3. QED
      BY <2>1, <2>2 DEF Unit
<1>2. QED
    BY <1>1, SpentStep, TypeCorrect, PTL DEF Spec

(* The rate ceiling, over every window of every execution. *)
THEOREM RateIsCapped == Spec => []RateCeiling
<1>1. TypeOK /\ SpentIsOwedOrPaid => RateCeiling
  <2> SUFFICES ASSUME TypeOK, SpentIsOwedOrPaid, NEW k \in Keys
               PROVE  spent[k] * Unit <= Burst * Unit + Rate * (now - since)
      BY DEF RateCeiling
  <2>1. debt[k] \in Nat /\ debt[k] <= Burst * Unit /\ spent[k] \in Nat
      BY DEF TypeOK, HarnessTypeOK, Unit
  <2>2. Rate * (now - since) \in Int
      BY BucketAssumption DEF TypeOK, HarnessTypeOK
  <2>3. QED
      BY <2>1, <2>2, BucketAssumption DEF SpentIsOwedOrPaid, Unit
<1>2. QED
    BY <1>1, TypeCorrect, SpentIsCovered, PTL
=============================================================================
