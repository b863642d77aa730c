-------------------------------- MODULE Gcra --------------------------------
(***************************************************************************)
(* GCRA: one number per key, the theoretical arrival time (TAT) in units   *)
(* scaled by the rate, so that one millisecond is Rate of them and one     *)
(* permit is Unit of them and nothing is ever rounded.  Only an admitted   *)
(* request writes it; refusals, waits and balances are read off it.        *)
(***************************************************************************)
EXTENDS BucketParameters, KeyTable, TLAPS

VARIABLE tat            \* the admitted keys' TATs; any other key is on schedule

vars == <<harnessVars, tat>>

-----------------------------------------------------------------------------
Scaled == Rate * now

(* How far ahead of now a TAT may sit and the next permit still conform.   *)
Tolerance == (Burst - 1) * Unit

TatOf(k) == IF k \in DOMAIN tat THEN tat[k] ELSE Scaled

(* A cost above the burst can never be met; otherwise the request may be   *)
(* no earlier than its scheduled time less the tolerance, which shrinks    *)
(* with the cost.                                                          *)
Conforms(k, cost) ==
    /\ cost <= Burst
    /\ Scaled >= TatOf(k) - Tolerance + (cost - 1) * Unit

(* mutant of Rescheduled: an idle key banks all its idle time *)
RescheduledFromThePast(k, cost) == TatOf(k) + cost * Unit

(* The schedule restarts from now when the TAT has been left in the past.  *)
Rescheduled(k, cost) ==
    (IF Scaled > TatOf(k) THEN Scaled ELSE TatOf(k)) + cost * Unit

(* The wait until one permit conforms: the first millisecond at or past    *)
(* the target.                                                             *)
WaitFor(k) ==
    LET target == TatOf(k) - Tolerance
    IN  IF Scaled >= target THEN 0 ELSE MsToAccrue(target) - now

Balance(k) ==
    LET available == Scaled - (TatOf(k) - Burst * Unit)
    IN  IF available <= 0                   THEN 0
        ELSE IF available \div Unit < Burst THEN available \div Unit
        ELSE Burst

-----------------------------------------------------------------------------
Init ==
    /\ HarnessInit
    /\ tat = [k \in {} |-> 0]

Tick(t) ==
    /\ AdvanceClock(t)
    /\ UNCHANGED tat

OpenWindow ==
    /\ MeasureFromNow
    /\ UNCHANGED tat

Admit(k, cost) ==
    /\ Conforms(k, cost)
    /\ tat' = [x \in DOMAIN tat \cup {k} |->
                  IF x = k THEN Rescheduled(k, cost) ELSE tat[x]]
    /\ AnswerAllow(k, cost, TRUE)

Refuse(k, cost) ==
    /\ ~ Conforms(k, cost)
    /\ AnswerAllow(k, cost, FALSE)
    /\ UNCHANGED tat

(* A key with no TAT has no wait, which is what an on-schedule TAT gives.  *)
RetryAfter(k) ==
    /\ Answer("retryAfter", k, WaitFor(k))
    /\ UNCHANGED tat

TokensOf(k) ==
    /\ Answer("tokensOf", k, Balance(k))
    /\ UNCHANGED tat

Next ==
    \/ \E t \in Later : Tick(t)
    \/ OpenWindow
    \/ \E k \in Keys :
          \/ \E cost \in Costs : Admit(k, cost) \/ Refuse(k, cost)
          \/ RetryAfter(k)
          \/ TokensOf(k)

Spec == Init /\ [][Next]_vars

-----------------------------------------------------------------------------
(* No schedule runs further ahead of the clock than the burst it may have  *)
(* spent: everything the TAT implies about a key depends on this.          *)
TatsOK ==
    /\ DOMAIN tat \subseteq Keys
    /\ tat = [k \in DOMAIN tat |-> tat[k]]
    /\ \A k \in DOMAIN tat : tat[k] \in Nat /\ tat[k] - Scaled <= Burst * Unit

TypeOK == HarnessTypeOK /\ TatsOK

(* The meter's promise over any interval measured.  Idle time banked past *)
(* the burst breaks it several calls later.                                *)
RateCeiling ==
    \A k \in Keys : spent[k] * Unit <= Burst * Unit + Rate * (now - since)

(* A TAT ahead of the clock is a debt; one behind it is no debt.           *)
DebtMap ==
    [k \in Keys |-> IF TatOf(k) > Scaled THEN TatOf(k) - Scaled ELSE 0]

M == INSTANCE Meter WITH debt <- DebtMap

(* "It admits and refuses exactly what token bucket does, including the    *)
(* fractional carry, and retryAfter agrees to the millisecond" (gcra       *)
(* index.ts header): both implement the same deterministic meter.          *)
ImplementsMeter == M!Spec

-----------------------------------------------------------------------------
(* The C port: the same schedule behind the bounded table.  Only an        *)
(* admitted request claims a slot: a cost above the burst is refused       *)
(* before the table is asked, and any other cost conforms for a new key.   *)
(* The port has no tokensOf.                                               *)
portVars == <<vars, taken>>

PortInit == Init /\ TableInit

Claim(k, cost) ==
    /\ HasRoom(k, DOMAIN tat)
    /\ Admit(k, cost)
    /\ UNCHANGED taken

RefuseCost(k, cost) ==
    /\ HasRoom(k, DOMAIN tat) \/ cost > Burst
    /\ Refuse(k, cost)
    /\ UNCHANGED taken

RefuseNewKey(k, cost) ==
    /\ cost <= Burst
    /\ TurnAway(k, cost, DOMAIN tat)
    /\ UNCHANGED tat

RetryAfterUntracked(k) ==
    /\ AnswerUntracked(k, DOMAIN tat)
    /\ UNCHANGED tat

RetryAfterTracked(k) ==
    /\ k \in DOMAIN tat
    /\ RetryAfter(k)
    /\ UNCHANGED taken

PortNext ==
    \/ \E t \in Later : Tick(t) /\ UNCHANGED taken
    \/ OpenWindow /\ UNCHANGED taken
    \/ AnotherKey(DOMAIN tat) /\ UNCHANGED tat
    \/ \E k \in Keys :
          \/ \E cost \in Costs : Claim(k, cost) \/ RefuseCost(k, cost) \/ RefuseNewKey(k, cost)
          \/ RetryAfterUntracked(k) \/ RetryAfterTracked(k)

PortSpec == PortInit /\ [][PortNext]_portVars

-----------------------------------------------------------------------------
PortTypeOK == TypeOK /\ TableOK(DOMAIN tat)
-----------------------------------------------------------------------------
(* GCRA keeps its schedule within one burst of the clock, implements the   *)
(* meter the token bucket implements, and so has the same rate ceiling,    *)
(* for every rate, burst, set of keys and set of costs.                    *)
Positive(x) == IF x > 0 THEN x ELSE 0

(* Scaled time is a number that grows with the clock.                      *)
LEMMA ScaledTime ==
    ASSUME NEW x \in Nat, NEW d \in Nat
    PROVE  /\ Rate * x \in Nat /\ Rate * d \in Nat
           /\ Rate * (x + d) = Rate * x + Rate * d
<1>1. Rate * x \in Nat /\ Rate * d \in Nat
    BY BucketAssumption
<1>2. QED
    BY <1>1, BucketAssumption

(* The first millisecond at or past an instant in scaled units: shifting   *)
(* the instant by whole milliseconds shifts the answer by as many.         *)
LEMMA AccrualShifts ==
    ASSUME NEW x \in Nat \ {0}, NEW m \in Nat
    PROVE  /\ MsToAccrue(x) \in Nat
           /\ MsToAccrue(x + Rate * m) = MsToAccrue(x) + m
<1> DEFINE n == x + Rate - 1
           q == n \div Rate
           s == Rate * m
<1>1. n \in Nat /\ s \in Nat
    BY BucketAssumption
<1>2. q \in Nat /\ Rate * q <= n /\ n < Rate * q + Rate
    BY <1>1, BucketAssumption
<1>3. Rate * (q + m) = Rate * q + s /\ Rate * q \in Nat
    BY <1>2, BucketAssumption
<1>4. Rate * (q + m) <= n + s /\ n + s < Rate * (q + m) + Rate
    BY <1>1, <1>2, <1>3, BucketAssumption
<1>5. (n + s) \div Rate = q + m
  <2> HIDE DEF n, q, s
  <2>1. q + m \in Nat /\ n + s \in Nat
      BY <1>1, <1>2
  <2>2. QED
      BY <2>1, <1>4, BucketAssumption
<1>6. n + s = (x + Rate * m) + Rate - 1
    BY <1>1, BucketAssumption
<1>7. QED
    BY <1>2, <1>5, <1>6 DEF MsToAccrue

(* What every step may rely on of one key's schedule.                      *)
LEMMA ScheduleBounded ==
    ASSUME TypeOK, NEW k \in Keys
    PROVE  /\ now \in Nat /\ Scaled \in Nat /\ TatOf(k) \in Nat
           /\ TatOf(k) - Scaled <= Burst * Unit
           /\ DebtMap[k] = Positive(TatOf(k) - Scaled)
           /\ DebtMap[k] \in 0..(Burst * Unit)
<1>1. now \in Nat /\ Scaled \in Nat
    BY HarnessAssumption, BucketAssumption DEF TypeOK, HarnessTypeOK, Scaled
<1>2. TatOf(k) \in Nat /\ TatOf(k) - Scaled <= Burst * Unit
  <2>1. CASE k \in DOMAIN tat
      BY <2>1 DEF TypeOK, TatsOK, TatOf
  <2>2. CASE k \notin DOMAIN tat
      BY <2>2, <1>1, BucketAssumption DEF TatOf, Unit
  <2>3. QED
      BY <2>1, <2>2
<1>3. DebtMap[k] = IF TatOf(k) > Scaled THEN TatOf(k) - Scaled ELSE 0
    BY DEF DebtMap
<1>4. DebtMap[k] = Positive(TatOf(k) - Scaled)
    BY <1>1, <1>2, <1>3 DEF Positive
<1>5. DebtMap[k] \in 0..(Burst * Unit)
    BY <1>1, <1>2, <1>3, BucketAssumption DEF Unit
<1>6. QED
    BY <1>1, <1>2, <1>4, <1>5

(* How a call's answer reads off the debt.                                 *)
LEMMA AnswersReadOffDebt ==
    ASSUME TypeOK, NEW k \in Keys
    PROVE  /\ \A cost \in Costs : Conforms(k, cost) <=> M!Fits(k, cost)
           /\ WaitFor(k) = M!Wait(k)
           /\ WaitFor(k) \in Nat
           /\ Balance(k) = M!WholePermits(k)
           /\ Balance(k) \in Nat
<1> DEFINE a == TatOf(k)
           s == Scaled
           d == DebtMap[k]
<1>1. /\ s \in Nat /\ a \in Nat /\ a - s <= Burst * 1000
      /\ d = IF a - s > 0 THEN a - s ELSE 0
      /\ d \in 0..(Burst * 1000)
    BY ScheduleBounded DEF Positive, Unit
<1> HIDE DEF a, s, d
<1>2. ASSUME NEW cost \in Costs
      PROVE  Conforms(k, cost) <=> M!Fits(k, cost)
  <2>1. cost \in Nat
      BY HarnessAssumption
  <2>2. Conforms(k, cost) <=>
            cost <= Burst /\ s >= a - (Burst - 1) * 1000 + (cost - 1) * 1000
      BY DEF Conforms, Tolerance, Unit, a, s
  <2>3. M!Fits(k, cost) <=> d + cost * 1000 <= Burst * 1000
      BY DEF M!Fits, M!Unit, d
  <2>4. QED
      BY <1>1, <2>1, <2>2, <2>3, BucketAssumption
<1>3. WaitFor(k) = M!Wait(k) /\ WaitFor(k) \in Nat
  <2> DEFINE over == d - (Burst - 1) * 1000
             target == a - (Burst - 1) * 1000
  <2>1. M!Wait(k) = IF over <= 0 THEN 0 ELSE MsToAccrue(over)
      BY DEF M!Wait, M!MsToAccrue, MsToAccrue, M!Unit, d
  <2>2. WaitFor(k) = IF s >= target THEN 0 ELSE MsToAccrue(target) - now
      BY DEF WaitFor, Tolerance, Unit, a, s
  <2>3. CASE s >= target
    <3>1. over <= 0
        BY <1>1, <2>3, BucketAssumption
    <3>2. QED
        BY <2>1, <2>2, <2>3, <3>1
  <2>4. CASE ~ (s >= target)
    <3>1. over \in Nat \ {0} /\ target = over + s
        BY <1>1, <2>4, BucketAssumption
    <3>2. s = Rate * now /\ now \in Nat
        BY ScheduleBounded DEF s, Scaled
    <3> HIDE DEF over, target
    <3>3. MsToAccrue(over) \in Nat /\ MsToAccrue(over + Rate * now) = MsToAccrue(over) + now
        BY <3>1, <3>2, AccrualShifts
    <3>4. MsToAccrue(target) - now = MsToAccrue(over)
        BY <3>1, <3>2, <3>3
    <3>5. ~ (over <= 0)
        BY <3>1
    <3>6. QED
        BY <2>1, <2>2, <2>4, <3>3, <3>4, <3>5
  <2>5. QED
      BY <2>3, <2>4
<1>4. Balance(k) = M!WholePermits(k) /\ Balance(k) \in Nat
  <2> DEFINE v == s - (a - Burst * 1000)
             p == v \div 1000
  <2>1. M!WholePermits(k) = (Burst * 1000 - d) \div 1000
      BY DEF M!WholePermits, M!Unit, d
  <2>2. Balance(k) = IF v <= 0 THEN 0 ELSE IF p < Burst THEN p ELSE Burst
      BY DEF Balance, Unit, a, s
  <2>3. v \in Nat
      BY <1>1, BucketAssumption
  <2>4. CASE a - s > 0
    <3>1. v = Burst * 1000 - d /\ v < Burst * 1000
        BY <1>1, <2>4, BucketAssumption
    <3>2. p \in Nat /\ p < Burst /\ (v = 0 => p = 0)
        BY <2>3, <3>1, BucketAssumption
    <3>3. QED
        BY <2>1, <2>2, <2>3, <3>1, <3>2
  <2>5. CASE ~ (a - s > 0)
    <3>1. d = 0 /\ v >= Burst * 1000 /\ v > 0
        BY <1>1, <2>5, BucketAssumption
    <3>2. p \in Nat /\ ~ (p < Burst)
        BY <2>3, <3>1, BucketAssumption
    <3>3. (Burst * 1000 - 0) \div 1000 = Burst
        BY BucketAssumption
    <3>4. QED
        BY <2>1, <2>2, <2>3, <3>1, <3>2, <3>3, BucketAssumption
  <2>6. QED
      BY <2>4, <2>5
<1>5. QED
    BY <1>2, <1>3, <1>4

-----------------------------------------------------------------------------
(* Time pays every debt down, though no TAT changes.                       *)
LEMMA TickPaysDown ==
    ASSUME TypeOK, NEW t \in Later, now' = t, tat' = tat
    PROVE  /\ TatsOK'
           /\ DebtMap' = [k \in Keys |-> M!PaidDown(DebtMap[k], t - now)]
<1> DEFINE d == t - now
           p == Rate * d
           s == Rate * now
<1>1. now \in Nat /\ d \in Nat /\ t = now + d
    BY M!LaterIsLater, HarnessAssumption, BucketAssumption
    DEF TypeOK, Later, M!Later, HarnessTypeOK, M!HarnessTypeOK
<1>2. p \in Nat /\ s \in Nat /\ Rate * t = s + p
    BY <1>1, ScaledTime
<1>3. Scaled = s /\ Scaled' = s + p
    BY <1>2 DEF Scaled
<1> HIDE DEF p, s
<1>4. ASSUME NEW k \in DOMAIN tat
      PROVE  tat[k] \in Nat /\ tat[k] - s <= Burst * Unit
    BY <1>3 DEF TypeOK, TatsOK
<1>5. TatsOK'
    BY <1>2, <1>3, <1>4, BucketAssumption DEF TypeOK, TatsOK, Unit
<1>6. ASSUME NEW k \in Keys
      PROVE  DebtMap'[k] = M!PaidDown(DebtMap[k], d)
  <2>1. M!PaidDown(DebtMap[k], d) = IF DebtMap[k] > p THEN DebtMap[k] - p ELSE 0
      BY DEF M!PaidDown, p
  <2>2. CASE k \in DOMAIN tat
    <3>1. DebtMap[k] = IF tat[k] > s THEN tat[k] - s ELSE 0
        BY <1>3, <2>2 DEF DebtMap, TatOf
    <3>2. DebtMap'[k] = IF tat[k] > s + p THEN tat[k] - (s + p) ELSE 0
        BY <1>3, <2>2 DEF DebtMap, TatOf
    <3>3. QED
        BY <1>2, <1>4, <2>1, <2>2, <3>1, <3>2
  <2>3. CASE k \notin DOMAIN tat
    <3>1. DebtMap[k] = 0 /\ DebtMap'[k] = 0
        BY <1>2, <1>3, <2>3 DEF DebtMap, TatOf
    <3>2. QED
        BY <1>2, <2>1, <3>1
  <2>4. QED
      BY <2>2, <2>3
<1>7. DebtMap' = [k \in Keys |-> DebtMap'[k]]
    BY DEF DebtMap
<1>8. QED
    BY <1>5, <1>6, <1>7

(* Rescheduling adds the cost to the debt of its key and of no other.      *)
LEMMA RescheduleAddsDebt ==
    ASSUME TypeOK, NEW k \in Keys, NEW cost \in Costs, Admit(k, cost)
    PROVE  /\ TatsOK'
           /\ DebtMap' = [DebtMap EXCEPT ![k] = @ + cost * Unit]
<1> DEFINE a == TatOf(k)
           s == Scaled
           r == Rescheduled(k, cost)
<1>1. /\ s \in Nat /\ a \in Nat
      /\ DebtMap[k] = IF a - s > 0 THEN a - s ELSE 0
      /\ DebtMap[k] \in 0..(Burst * 1000)
    BY ScheduleBounded DEF Positive, Unit
<1>2. cost \in Nat
    BY HarnessAssumption
<1>3. r = (IF s > a THEN s ELSE a) + cost * 1000
    BY DEF Rescheduled, Unit
<1>4. now' = now /\ s' = s
    BY DEF Admit, AnswerAllow, Scaled
<1>5. /\ DOMAIN tat' = DOMAIN tat \cup {k}
      /\ tat' = [x \in DOMAIN tat' |-> tat'[x]]
      /\ tat'[k] = r
      /\ \A x \in DOMAIN tat : x # k => tat'[x] = tat[x]
    BY DEF Admit
<1>6. DebtMap[k] + cost * 1000 <= Burst * 1000
    BY AnswersReadOffDebt DEF Admit, M!Fits, M!Unit
<1> HIDE DEF a, r
<1>7. r \in Nat /\ r - s = DebtMap[k] + cost * 1000
    BY <1>1, <1>2, <1>3
<1>8. r - s <= Burst * 1000
    BY <1>6, <1>7
<1>9. TatsOK'
    BY <1>4, <1>5, <1>7, <1>8 DEF TypeOK, TatsOK, Unit
<1>10. ASSUME NEW x \in Keys, x # k
       PROVE  DebtMap'[x] = DebtMap[x]
    BY <1>4, <1>5, <1>10 DEF DebtMap, TatOf
<1>11. DebtMap'[k] = DebtMap[k] + cost * 1000
  <2>1. DebtMap'[k] = IF r > s THEN r - s ELSE 0
      BY <1>4, <1>5 DEF DebtMap, TatOf
  <2> HIDE DEF s
  <2>2. DebtMap[k] + cost * 1000 \in Nat
      BY <1>1, <1>2, BucketAssumption
  <2>3. QED
      BY <1>1, <1>7, <2>1, <2>2
<1>12. DebtMap' = [x \in Keys |-> DebtMap'[x]] /\ DebtMap = [x \in Keys |-> DebtMap[x]]
    BY DEF DebtMap
<1>13. QED
    BY <1>9, <1>10, <1>11, <1>12 DEF Unit

-----------------------------------------------------------------------------
(* One step of GCRA keeps its type and is a step of the meter.             *)
LEMMA StepIsMeterStep ==
    TypeOK /\ [Next]_vars => TypeOK' /\ [M!Next]_(M!meterVars)
<1> SUFFICES ASSUME TypeOK, [Next]_vars
             PROVE  TypeOK' /\ [M!Next]_(M!meterVars)
    OBVIOUS
<1>1. ASSUME NEW t \in Later, Tick(t)
      PROVE  TypeOK' /\ M!Tick(t)
  <2>1. now' = t /\ tat' = tat
      BY <1>1 DEF Tick, AdvanceClock
  <2>2. HarnessTypeOK'
      BY <1>1, M!ClockAdvances, HarnessAssumption, BucketAssumption
      DEF Tick, TypeOK, Later, M!Later, AdvanceClock, M!AdvanceClock,
          HarnessTypeOK, M!HarnessTypeOK, Replies, M!Replies, Readings,
          M!Readings
  <2>3. QED
      BY <1>1, <2>1, <2>2, TickPaysDown
      DEF Tick, M!Tick, AdvanceClock, M!AdvanceClock, TypeOK
<1>2. ASSUME tat' = tat, now' = now
      PROVE  TatsOK' /\ DebtMap' = DebtMap
    BY <1>2 DEF TypeOK, TatsOK, DebtMap, TatOf, Scaled
<1>3. CASE OpenWindow
  <2>1. HarnessTypeOK'
      BY <1>3, M!MeasureKeepsType, HarnessAssumption, BucketAssumption
      DEF OpenWindow, TypeOK, MeasureFromNow, M!MeasureFromNow,
          HarnessTypeOK, M!HarnessTypeOK, Replies, M!Replies, Readings,
          M!Readings
  <2>2. TatsOK' /\ DebtMap' = DebtMap
      BY <1>2, <1>3 DEF OpenWindow, MeasureFromNow
  <2>3. QED
      BY <1>3, <2>1, <2>2
      DEF OpenWindow, M!OpenWindow, M!Next, MeasureFromNow, M!MeasureFromNow, TypeOK
<1>4. ASSUME NEW k \in Keys, NEW cost \in Costs, Admit(k, cost)
      PROVE  TypeOK' /\ M!Admit(k, cost)
  <2>1. TatsOK' /\ DebtMap' = [DebtMap EXCEPT ![k] = @ + cost * Unit]
      BY <1>4, RescheduleAddsDebt
  <2>2. HarnessTypeOK'
      BY <1>4, M!AllowKeepsType, HarnessAssumption, BucketAssumption
      DEF Admit, TypeOK, AnswerAllow, M!AnswerAllow, HarnessTypeOK,
          M!HarnessTypeOK, Replies, M!Replies, Readings, M!Readings
  <2>3. M!Fits(k, cost)
      BY <1>4, AnswersReadOffDebt DEF Admit
  <2>4. QED
      BY <1>4, <2>1, <2>2, <2>3
      DEF Admit, M!Admit, M!AnswerAllow, AnswerAllow, M!Unit, Unit, TypeOK
<1>5. ASSUME NEW k \in Keys, NEW cost \in Costs, Refuse(k, cost)
      PROVE  TypeOK' /\ M!Refuse(k, cost)
  <2>1. TatsOK' /\ DebtMap' = DebtMap
      BY <1>2, <1>5 DEF Refuse, AnswerAllow
  <2>2. HarnessTypeOK'
      BY <1>5, M!AllowKeepsType, HarnessAssumption, BucketAssumption
      DEF Refuse, TypeOK, AnswerAllow, M!AnswerAllow, HarnessTypeOK,
          M!HarnessTypeOK, Replies, M!Replies, Readings, M!Readings
  <2>3. ~ M!Fits(k, cost)
      BY <1>5, AnswersReadOffDebt DEF Refuse
  <2>4. QED
      BY <1>5, <2>1, <2>2, <2>3
      DEF Refuse, M!Refuse, M!AnswerAllow, AnswerAllow, TypeOK
<1>6. ASSUME NEW k \in Keys, RetryAfter(k)
      PROVE  TypeOK' /\ M!RetryAfter(k)
  <2>1. WaitFor(k) = M!Wait(k) /\ WaitFor(k) \in Nat
      BY AnswersReadOffDebt
  <2>2. HarnessTypeOK'
      BY <1>6, <2>1, M!AnswerKeepsType, HarnessAssumption, BucketAssumption
      DEF RetryAfter, TypeOK, Readings, Answer, M!Answer, HarnessTypeOK,
          M!HarnessTypeOK, Replies, M!Replies, M!Readings
  <2>3. TatsOK' /\ DebtMap' = DebtMap
      BY <1>2, <1>6 DEF RetryAfter, Answer
  <2>4. QED
      BY <1>6, <2>1, <2>2, <2>3
      DEF RetryAfter, M!RetryAfter, Answer, M!Answer, TypeOK
<1>7. ASSUME NEW k \in Keys, TokensOf(k)
      PROVE  TypeOK' /\ M!TokensOf(k)
  <2>1. Balance(k) = M!WholePermits(k) /\ Balance(k) \in Nat
      BY AnswersReadOffDebt
  <2>2. HarnessTypeOK'
      BY <1>7, <2>1, M!AnswerKeepsType, HarnessAssumption, BucketAssumption
      DEF TokensOf, TypeOK, Readings, Answer, M!Answer, HarnessTypeOK,
          M!HarnessTypeOK, Replies, M!Replies, M!Readings
  <2>3. TatsOK' /\ DebtMap' = DebtMap
      BY <1>2, <1>7 DEF TokensOf, Answer
  <2>4. QED
      BY <1>7, <2>1, <2>2, <2>3
      DEF TokensOf, M!TokensOf, Answer, M!Answer, TypeOK
<1>8. CASE UNCHANGED vars
  <2>1. HarnessTypeOK'
      BY <1>8 DEF vars, harnessVars, TypeOK, HarnessTypeOK
  <2>2. TatsOK' /\ DebtMap' = DebtMap
      BY <1>2, <1>8 DEF vars, harnessVars
  <2>3. QED
      BY <1>8, <2>1, <2>2 DEF vars, harnessVars, M!meterVars, M!harnessVars, TypeOK
<1>9. QED
    BY <1>1, <1>3, <1>4, <1>5, <1>6, <1>7, <1>8 DEF Next, M!Next, Later, M!Later

(* No key has been admitted yet, so every key is on schedule.              *)
LEMMA InitIsMeterInit == Init => TypeOK /\ M!Init
<1> SUFFICES ASSUME Init PROVE TypeOK /\ M!Init
    OBVIOUS
<1>1. DOMAIN tat = {} /\ tat = [k \in DOMAIN tat |-> tat[k]]
    BY DEF Init
<1>2. TypeOK
    BY <1>1, M!InitHasType, HarnessAssumption, BucketAssumption
    DEF Init, TypeOK, TatsOK, HarnessInit, M!HarnessInit, HarnessTypeOK,
        M!HarnessTypeOK, Replies, M!Replies, Readings, M!Readings
<1>3. now \in Nat
    BY HarnessAssumption DEF Init, HarnessInit
<1>4. Scaled \in Nat
    BY <1>3, BucketAssumption DEF Scaled
<1>5. DebtMap = [k \in Keys |-> 0]
    BY <1>1, <1>4 DEF DebtMap, TatOf
<1>6. QED
    BY <1>2, <1>5 DEF Init, M!Init, HarnessInit, M!HarnessInit

(* No TAT ever runs further ahead of the clock than the burst.             *)
THEOREM TypeCorrect == Spec => []TypeOK
BY InitIsMeterInit, StepIsMeterStep, PTL DEF Spec

(* GCRA makes the meter's decisions, and gives its waits and balances: the *)
(* ones the token bucket gives.                                            *)
THEOREM GcraImplementsMeter == Spec => ImplementsMeter
BY InitIsMeterInit, StepIsMeterStep, PTL DEF Spec, ImplementsMeter, M!Spec

(* The ceiling proved of the meter is GCRA's ceiling.                      *)
THEOREM RateIsCapped == Spec => []RateCeiling
<1>1. M!Spec => []M!RateCeiling
    BY M!RateIsCapped, HarnessAssumption, BucketAssumption
<1>2. M!RateCeiling => RateCeiling
    BY DEF M!RateCeiling, RateCeiling, M!Unit, Unit
<1>3. QED
    BY <1>1, <1>2, GcraImplementsMeter, PTL DEF ImplementsMeter
=============================================================================
