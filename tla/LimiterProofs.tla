--------------------------- MODULE LimiterProofs ----------------------------
(***************************************************************************)
(* Whichever limiter the factory built: for every rate and burst, every    *)
(* window and limit, every pair of limits, and every set of keys, set of   *)
(* costs and size of the table.                                            *)
(*                                                                         *)
(* The five meters keep their ledgers well formed, make the meter's        *)
(* decisions and never exceed its ceiling.  The fixed window and the       *)
(* sliding counter count what was really admitted and keep to the most     *)
(* they can miss; the sliding log is the exact trailing window; the dual   *)
(* bucket is a meter of two debts.  And the waits all of them name are the *)
(* truth.                                                                  *)
(*                                                                         *)
(* The fill time is stored in 32 bits.  What is proved of the two policies *)
(* that store one assumes that it fits; the run MCLimitersNarrow shows     *)
(* what happens when it does not.                                          *)
(***************************************************************************)
EXTENDS MCLimiters, FiniteSetTheorems, TLAPS

FillTimeFits == MsToAccrue(Burst * Unit) < Modulus

-----------------------------------------------------------------------------
(* What the caller's steps preserve, whatever the limiter does with its    *)
(* own state: Meter's lemmas of the same names, of this module's caller.   *)

(* The clock only moves forward, and within its bound (harness.ts: a trace *)
(* must be non-decreasing in time).                                        *)
LEMMA ClockAdvances ==
    ASSUME HarnessTypeOK, NEW t \in Later, AdvanceClock(t)
    PROVE  HarnessTypeOK'
<1>1. now \in Nat /\ MaxTime \in Nat
    BY HarnessAssumption DEF HarnessTypeOK
<1>2. t \in 0..MaxTime /\ t > now
    BY <1>1 DEF Later
<1>3. since \in 0..t
    BY <1>1, <1>2 DEF HarnessTypeOK
<1>4. QED
    BY <1>2, <1>3 DEF HarnessTypeOK, AdvanceClock

(* The same, as numbers. *)
LEMMA LaterIsLater ==
    ASSUME HarnessTypeOK, NEW t \in Later
    PROVE  /\ now \in Nat /\ since \in Nat /\ since <= now
           /\ t \in Nat
           /\ t - now \in Nat
           /\ t > now
           /\ t <= MaxTime
BY HarnessAssumption DEF HarnessTypeOK, Later

(* Opening a window keeps the type. *)
LEMMA MeasureKeepsType ==
    ASSUME HarnessTypeOK, MeasureFromNow
    PROVE  HarnessTypeOK'
<1>1. now \in Nat
    BY HarnessAssumption DEF HarnessTypeOK
<1>2. since' \in 0..now'
    BY <1>1 DEF MeasureFromNow
<1>3. QED
    BY <1>2 DEF MeasureFromNow, HarnessTypeOK

(* An answer to allow() keeps the type. *)
LEMMA AllowKeepsType ==
    ASSUME HarnessTypeOK, NEW k \in Keys, NEW cost \in Costs,
           NEW ok \in BOOLEAN, AnswerAllow(k, cost, ok)
    PROVE  HarnessTypeOK'
<1>1. reply' \in Replies
    BY DEF AnswerAllow, Replies
<1>2. cost \in Nat
    BY HarnessAssumption
<1>3. spent' \in [Keys -> Nat]
    BY <1>2 DEF AnswerAllow, HarnessTypeOK
<1>4. QED
    BY <1>1, <1>3 DEF AnswerAllow, HarnessTypeOK

(* Any other answer keeps the type if it is a number. *)
LEMMA AnswerKeepsType ==
    ASSUME HarnessTypeOK, NEW op \in Readings, NEW k \in Keys, NEW n \in Nat,
           Answer(op, k, n)
    PROVE  HarnessTypeOK'
<1>1. reply' \in Replies
    BY DEF Answer, Replies
<1>2. QED
    BY <1>1 DEF Answer, HarnessTypeOK

(* Nothing has happened yet. *)
LEMMA InitHasType == HarnessInit => HarnessTypeOK
BY HarnessAssumption DEF HarnessInit, HarnessTypeOK, Replies

-----------------------------------------------------------------------------
(* The bounded table.                                                      *)

(* TableOK, of a set that can be counted.                                  *)
Slots(tracked, others) ==
    /\ IsFiniteSet(tracked) /\ tracked \subseteq Keys
    /\ others \in Nat
    /\ Cardinality(tracked) + others <= MaxKeys

(* A key that is given a slot was given one before, or one was left.       *)
LEMMA ClaimKeepsTable ==
    ASSUME NEW tracked, Slots(tracked, taken), NEW k \in Keys, HasRoom(k, tracked)
    PROVE  Slots(tracked \cup {k}, taken)
<1>1. Cardinality(tracked) \in Nat /\ MaxKeys \in Nat
    BY FS_CardinalityType, TableAssumption DEF Slots
<1>2. /\ IsFiniteSet(tracked \cup {k})
      /\ Cardinality(tracked \cup {k}) =
            IF k \in tracked THEN Cardinality(tracked) ELSE Cardinality(tracked) + 1
    BY FS_AddElement DEF Slots
<1>3. CASE k \in tracked
    BY <1>1, <1>2, <1>3 DEF Slots
<1>4. CASE k \notin tracked
    BY <1>1, <1>2, <1>4 DEF Slots, HasRoom, TableFull
<1>5. QED
    BY <1>3, <1>4

(* What an unbounded limiter would not do leaves the caller's counters     *)
(* alone, and what it answers has its type.                                *)
LEMMA TableStepIsTyped ==
    ASSUME HarnessTypeOK, NEW tracked, AtTheTable(tracked)
    PROVE  /\ HarnessTypeOK'
           /\ now' = now /\ since' = since /\ spent' = spent
<1>1. CASE AnotherKey(tracked)
    BY <1>1 DEF AnotherKey, HarnessTypeOK, Replies
<1>2. ASSUME NEW k \in Keys, AnswerUntracked(k, tracked)
      PROVE  /\ HarnessTypeOK'
             /\ now' = now /\ since' = since /\ spent' = spent
    <2>1. WaitUntracked(tracked) \in Nat
        BY DEF WaitUntracked, Unknown
    <2>2. Answer("retryAfter", k, WaitUntracked(tracked))
        BY <1>2 DEF AnswerUntracked
    <2>3. QED
        BY <2>1, <2>2, AnswerKeepsType DEF Answer, Readings
<1>3. ASSUME NEW k \in Keys, NEW cost \in Costs, TurnAway(k, cost, tracked)
      PROVE  /\ HarnessTypeOK'
             /\ now' = now /\ since' = since /\ spent' = spent
    <2>1. AnswerAllow(k, cost, FALSE)
        BY <1>3 DEF TurnAway
    <2>2. QED
        BY <2>1, AllowKeepsType DEF AnswerAllow
<1>4. QED
    BY <1>1, <1>2, <1>3 DEF AtTheTable

(* It takes no slot that is not there.                                     *)
LEMMA TableStepKeepsTable ==
    ASSUME NEW tracked, Slots(tracked, taken), AtTheTable(tracked)
    PROVE  Slots(tracked, taken')
<1>1. Cardinality(tracked) \in Nat /\ MaxKeys \in Nat
    BY FS_CardinalityType, TableAssumption DEF Slots
<1>2. CASE AnotherKey(tracked)
    BY <1>1, <1>2 DEF AnotherKey, Slots, TableFull
<1>3. CASE UNCHANGED taken
    BY <1>3 DEF Slots
<1>4. QED
    BY <1>2, <1>3 DEF AtTheTable, AnswerUntracked, TurnAway

(* A call claims at most one slot, and one that is left.                   *)
Claims(tracked, tracked2) ==
    /\ UNCHANGED taken
    /\ \/ tracked2 = tracked
       \/ \E k \in Keys : HasRoom(k, tracked) /\ tracked2 = tracked \cup {k}

(* So the table never holds more than it has room for.                    *)
LEMMA ClaimsKeepTable ==
    ASSUME NEW tracked, NEW tracked2, Slots(tracked, taken), Claims(tracked, tracked2)
    PROVE  Slots(tracked2, taken')
BY ClaimKeepsTable DEF Claims

-----------------------------------------------------------------------------
(* The C token bucket.                                                     *)

(* A fill time that fits is stored as it is.                               *)
LEMMA FillTimeIsStored ==
    ASSUME FillTimeFits
    PROVE  MsToAccrue(Burst * Unit) % Modulus = MsToAccrue(Burst * Unit)
<1>1. Modulus \in Nat \ {0}
    BY Built DEF CTB!PortAssumption
<1>2. MsToAccrue(Burst * Unit) \in Nat
    <2>1. Burst * Unit + Rate - 1 \in Nat
        BY BucketAssumption DEF Unit
    <2>2. QED
        BY <2>1, BucketAssumption DEF MsToAccrue
<1>3. QED
    BY <1>1, <1>2 DEF FillTimeFits

(* The port's refill is then the original's.                               *)
LEMMA SameRefill ==
    ASSUME FillTimeFits, NEW b, NEW t
    PROVE  CTB!Refill(b, t) = TB!Refill(b, t)
<1>1. CTB!FillMs = TB!FillMs
    BY FillTimeIsStored DEF CTB!FillMs, TB!FillMs, CTB!MsToAccrue, TB!MsToAccrue, MsToAccrue,
                CTB!Unit, TB!Unit, Unit
<1>2. QED
    BY <1>1 DEF CTB!Refill, CTB!Accrue, TB!Refill, TB!Accrue, TB!ClampedElapsed,
                CTB!Unit, TB!Unit

(* The table of an instance is the table.                                  *)
LEMMA SameTable ==
    ASSUME NEW S
    PROVE  /\ CTB!TableFull(S) = TableFull(S)
           /\ CTB!WaitUntracked(S) = WaitUntracked(S)
<1>1. CTB!Cardinality(S) = Cardinality(S)
    BY Zenon DEF CTB!Cardinality, Cardinality
<1>2. CTB!TableFull(S) = TableFull(S)
    BY <1>1 DEF CTB!TableFull, TableFull
<1>3. CTB!WaitUntracked(S) = WaitUntracked(S)
    BY <1>2, SMT DEF CTB!WaitUntracked, WaitUntracked, CTB!Unknown, Unknown
<1>4. QED
    BY <1>2, <1>3

(* A step of the port is one of the original, or one at the table.         *)
LEMMA PortedStep ==
    ASSUME FillTimeFits, CTB!Next
    PROVE  TB!Next \/ (AtTheTable(DOMAIN buckets) /\ UNCHANGED buckets)
<1>1. CASE \E t \in CTB!Later : CTB!Tick(t)
    BY <1>1 DEF CTB!Tick, CTB!Later, CTB!AdvanceClock, TB!Next, TB!Tick, TB!Later, TB!AdvanceClock
<1>2. CASE CTB!OpenWindow
    BY <1>2 DEF CTB!OpenWindow, CTB!MeasureFromNow, TB!Next, TB!OpenWindow, TB!MeasureFromNow
<1>3. CASE CTB!AnotherKey(DOMAIN buckets) /\ UNCHANGED buckets
    BY <1>3, SameTable, SMT DEF CTB!AnotherKey, AnotherKey, AtTheTable
<1> SUFFICES ASSUME NEW k \in Keys,
                    \/ \E cost \in Costs :
                           CTB!Admit(k, cost) \/ CTB!Refuse(k, cost) \/ CTB!RefuseNewKey(k, cost)
                    \/ CTB!RetryAfterUntracked(k) \/ CTB!RetryAfterTracked(k)
             PROVE  TB!Next \/ (AtTheTable(DOMAIN buckets) /\ UNCHANGED buckets)
    BY <1>1, <1>2, <1>3 DEF CTB!Next
<1>4. CTB!BucketFor(k) = TB!BucketFor(k)
    BY SameRefill DEF CTB!BucketFor, TB!BucketFor, CTB!Full, TB!Full
<1> DEFINE b == TB!BucketFor(k)
<1>5. ASSUME NEW cost \in Costs, CTB!Admit(k, cost)
      PROVE  TB!Next
    <2>1. /\ b.tokens >= cost
          /\ CTB!Keep(k, [b EXCEPT !.tokens = @ - cost])
          /\ CTB!AnswerAllow(k, cost, TRUE)
        BY <1>4, <1>5, Zenon DEF CTB!Admit
    <2> HIDE DEF b
    <2>2. TB!Keep(k, [b EXCEPT !.tokens = @ - cost]) /\ TB!AnswerAllow(k, cost, TRUE)
        BY <2>1, Zenon DEF CTB!Keep, TB!Keep, CTB!AnswerAllow, TB!AnswerAllow
    <2>3. TB!Admit(k, cost)
        BY <2>1, <2>2, Zenon DEF TB!Admit, b
    <2>4. QED
        BY <2>3 DEF TB!Next
<1>6. ASSUME NEW cost \in Costs, CTB!Refuse(k, cost)
      PROVE  TB!Next
    <2>1. b.tokens < cost /\ CTB!Keep(k, b) /\ CTB!AnswerAllow(k, cost, FALSE)
        BY <1>4, <1>6, Zenon DEF CTB!Refuse
    <2>2. TB!Refuse(k, cost)
        BY <2>1, Zenon DEF TB!Refuse, CTB!Keep, TB!Keep, CTB!AnswerAllow, TB!AnswerAllow
    <2>3. QED
        BY <2>2 DEF TB!Next
<1>7. ASSUME NEW cost \in Costs, CTB!RefuseNewKey(k, cost)
      PROVE  AtTheTable(DOMAIN buckets) /\ UNCHANGED buckets
    <2>1. TurnAway(k, cost, DOMAIN buckets) /\ UNCHANGED buckets
        BY <1>7, SameTable, Zenon DEF CTB!RefuseNewKey, CTB!TurnAway, CTB!HasRoom, CTB!AnswerAllow,
                TurnAway, HasRoom, AnswerAllow
    <2>2. k \notin DOMAIN buckets /\ TableFull(DOMAIN buckets)
        BY <2>1 DEF TurnAway, HasRoom
    <2>3. QED
        BY <2>1, <2>2, Zenon DEF AtTheTable
<1>8. CASE CTB!RetryAfterUntracked(k)
    <2>1. /\ k \notin DOMAIN buckets /\ UNCHANGED <<buckets, taken>>
          /\ Answer("retryAfter", k, WaitUntracked(DOMAIN buckets))
        BY <1>8, SameTable, Zenon
        DEF CTB!RetryAfterUntracked, CTB!AnswerUntracked, CTB!Answer, Answer
    <2>2. CASE TableFull(DOMAIN buckets)
        BY <2>1, <2>2, Zenon DEF AtTheTable, AnswerUntracked
    <2>3. CASE ~ TableFull(DOMAIN buckets)
        <3>1. TB!RetryAfterUntracked(k)
            BY <2>1, <2>3 DEF WaitUntracked, Answer, TB!RetryAfterUntracked, TB!Answer
        <3>2. QED
            BY <3>1 DEF TB!Next
    <2>4. QED
        BY <2>2, <2>3
<1>9. CASE CTB!RetryAfterTracked(k)
    <2>1. TB!RetryAfterTracked(k)
        <3>1. CTB!WaitFor(b) = TB!WaitFor(b)
            BY DEF CTB!WaitFor, CTB!MsToAccrue, CTB!Unit, TB!WaitFor, TB!MsToAccrue, TB!Unit
        <3>2. QED
            BY <1>4, <1>9, <3>1, Zenon
            DEF CTB!RetryAfterTracked, CTB!Keep, CTB!Answer, TB!RetryAfterTracked, TB!Keep, TB!Answer
    <2>2. QED
        BY <2>1 DEF TB!Next
<1>10. QED
    BY <1>5, <1>6, <1>7, <1>8, <1>9

(* It claims at most one slot.                                             *)
LEMMA PortedClaim ==
    ASSUME CTB!Next
    PROVE  \/ Claims(DOMAIN buckets, DOMAIN buckets')
           \/ AtTheTable(DOMAIN buckets) /\ UNCHANGED buckets
<1>1. ASSUME NEW k \in Keys, HasRoom(k, DOMAIN buckets), NEW b, CTB!Keep(k, b), UNCHANGED taken
      PROVE  Claims(DOMAIN buckets, DOMAIN buckets')
    BY <1>1 DEF CTB!Keep, Claims
<1>2. ASSUME UNCHANGED <<buckets, taken>>
      PROVE  Claims(DOMAIN buckets, DOMAIN buckets')
    BY <1>2 DEF Claims
<1>3. \A k : CTB!HasRoom(k, DOMAIN buckets) <=> HasRoom(k, DOMAIN buckets)
    BY SameTable DEF CTB!HasRoom, HasRoom
<1>4. CASE CTB!AnotherKey(DOMAIN buckets) /\ UNCHANGED buckets
    BY <1>4, SameTable, SMT DEF CTB!AnotherKey, AnotherKey, AtTheTable
<1>5. CASE (\E t \in CTB!Later : CTB!Tick(t)) \/ CTB!OpenWindow
    BY <1>2, <1>5, Zenon DEF CTB!Tick, CTB!OpenWindow
<1> SUFFICES ASSUME NEW k \in Keys,
                    \/ \E cost \in Costs :
                           CTB!Admit(k, cost) \/ CTB!Refuse(k, cost) \/ CTB!RefuseNewKey(k, cost)
                    \/ CTB!RetryAfterUntracked(k) \/ CTB!RetryAfterTracked(k)
             PROVE  Claims(DOMAIN buckets, DOMAIN buckets')
    BY <1>4, <1>5, Zenon DEF CTB!Next
<1>6. ASSUME NEW cost \in Costs, CTB!Admit(k, cost) \/ CTB!Refuse(k, cost)
      PROVE  Claims(DOMAIN buckets, DOMAIN buckets')
    BY <1>1, <1>3, <1>6, Zenon DEF CTB!Admit, CTB!Refuse
<1>7. ASSUME NEW cost \in Costs, CTB!RefuseNewKey(k, cost)
      PROVE  Claims(DOMAIN buckets, DOMAIN buckets')
    BY <1>2, <1>7, Zenon DEF CTB!RefuseNewKey, CTB!TurnAway
<1>8. CASE CTB!RetryAfterUntracked(k)
    BY <1>2, <1>8, Zenon DEF CTB!RetryAfterUntracked, CTB!AnswerUntracked
<1>9. CASE CTB!RetryAfterTracked(k)
    BY <1>1, <1>9, Zenon DEF CTB!RetryAfterTracked, HasRoom
<1>10. QED
    BY <1>6, <1>7, <1>8, <1>9, Zenon

(* At the table nothing that is owed changes.                              *)
LEMMA TableStepOwesNothing ==
    ASSUME TB!TypeOK, AtTheTable(DOMAIN buckets), UNCHANGED buckets
    PROVE  TB!TypeOK' /\ TB!DebtMap' = TB!DebtMap
<1>1. HarnessTypeOK <=> TB!HarnessTypeOK
    BY DEF HarnessTypeOK, TB!HarnessTypeOK, Replies, TB!Replies, Readings, TB!Readings
<1>2. HarnessTypeOK' <=> TB!HarnessTypeOK'
    BY DEF HarnessTypeOK, TB!HarnessTypeOK, Replies, TB!Replies, Readings, TB!Readings
<1>3. TB!HarnessTypeOK' /\ now' = now
    BY <1>1, <1>2, TableStepIsTyped DEF TB!TypeOK
<1>4. TB!BucketsOK' /\ TB!DebtMap' = TB!DebtMap
    BY <1>3 DEF TB!TypeOK, TB!BucketsOK, TB!Ledger, TB!DebtMap, TB!Debt, TB!Owed
<1>5. QED
    BY <1>3, <1>4 DEF TB!TypeOK

-----------------------------------------------------------------------------
(* The leaky bucket is a token bucket seen in a mirror: what is not in the *)
(* bucket is what may still be taken.                                      *)
Mirrored(b) == [tokens |-> Burst - b.level, credit |-> b.credit, last |-> b.last]

Mirror == [k \in DOMAIN buckets |-> Mirrored(buckets[k])]

MIRROR == INSTANCE TokenBucket WITH buckets <- Mirror

(* Draining is refilling the mirror image, and keeps the ledger.           *)
LEMMA DrainMirrors ==
    ASSUME FillTimeFits, NEW t \in 0..MaxTime, NEW b, LB!Ledger(b, t)
    PROVE  /\ Mirrored(LB!Drain(b, t)) = MIRROR!Refill(Mirrored(b), t)
           /\ LB!Ledger(LB!Drain(b, t), t)
<1> DEFINE e == LB!ClampedElapsed(b, t)
           c == b.credit + Rate * e
           leaked == c \div 1000
           left == c % 1000
<1>1. /\ b \in [level : 0..Burst, credit : 0..999, last : 0..MaxTime]
      /\ b.last <= t /\ (b.level = 0 => b.credit = 0)
      /\ b.level \in Nat /\ b.credit \in Nat /\ b.last \in Nat /\ t \in Nat /\ b.level <= Burst
      /\ Burst \in Nat /\ MaxTime \in Nat
    BY HarnessAssumption, BucketAssumption DEF LB!Ledger, LB!Bucket, LB!Unit
<1>2. LB!DrainMs = MIRROR!FillMs /\ LB!DrainMs \in Nat
    <2>1. LB!DrainMs = MsToAccrue(Burst * Unit)
        BY FillTimeIsStored DEF LB!DrainMs, LB!MsToAccrue, MsToAccrue, LB!Unit, Unit
    <2>2. MIRROR!FillMs = MsToAccrue(Burst * Unit)
        BY DEF MIRROR!FillMs, MIRROR!MsToAccrue, MsToAccrue, MIRROR!Unit, Unit
    <2>3. Burst * Unit + Rate - 1 \in Nat
        BY BucketAssumption DEF Unit
    <2>4. MsToAccrue(Burst * Unit) \in Nat
        BY <2>3, BucketAssumption DEF MsToAccrue
    <2>5. QED
        BY <2>1, <2>2, <2>4
<1>3. CASE t <= b.last
    <2>1. LB!Drain(b, t) = b
        BY <1>3 DEF LB!Drain
    <2>2. MIRROR!Refill(Mirrored(b), t) = Mirrored(b)
        BY <1>3 DEF MIRROR!Refill, Mirrored
    <2>3. QED
        BY <2>1, <2>2
<1>4. CASE ~ (t <= b.last)
    <2>1. e = MIRROR!ClampedElapsed(Mirrored(b), t)
        BY <1>2 DEF LB!ClampedElapsed, MIRROR!ClampedElapsed, Mirrored
    <2>2. e \in Nat
        BY <1>1, <1>2, <1>4 DEF LB!ClampedElapsed
    <2>3. MIRROR!Accrue(Mirrored(b), t) =
            [tokens |-> (Burst - b.level) + leaked, credit |-> left, last |-> t]
        BY <2>1 DEF MIRROR!Accrue, MIRROR!Unit, Mirrored
    <2>4. LB!Leaked(b, t) = leaked /\ LB!Fraction(b, t) = left
        BY DEF LB!Leaked, LB!Fraction, LB!Unit
    <2>5. Rate * e \in Nat
        BY <2>2, BucketAssumption
    <2> HIDE DEF e
    <2>6. c \in Nat
        BY <1>1, <2>5
    <2> HIDE DEF c
    <2>7. leaked \in Nat /\ left \in 0..999
        BY <2>6
    <2> HIDE DEF leaked, left
    <2>8. LB!Drain(b, t) = IF leaked >= b.level
                           THEN [level |-> 0, credit |-> 0, last |-> t]
                           ELSE [level |-> b.level - leaked, credit |-> left, last |-> t]
        BY <1>4, <2>4 DEF LB!Drain
    <2>9. MIRROR!Refill(Mirrored(b), t) =
            IF (Burst - b.level) + leaked >= Burst
            THEN [tokens |-> Burst, credit |-> 0, last |-> t]
            ELSE [tokens |-> (Burst - b.level) + leaked, credit |-> left, last |-> t]
        BY <1>4, <2>3 DEF MIRROR!Refill, Mirrored
    <2>10. CASE leaked >= b.level
        <3>1. (Burst - b.level) + leaked >= Burst
            BY <1>1, <2>7, <2>10
        <3>2. Burst - 0 = Burst
            BY <1>1
        <3>3. LB!Ledger(LB!Drain(b, t), t)
            BY <1>1, <2>8, <2>10 DEF LB!Ledger, LB!Bucket, LB!Unit
        <3>4. QED
            BY <2>8, <2>9, <2>10, <3>1, <3>2, <3>3 DEF Mirrored
    <2>11. CASE ~ (leaked >= b.level)
        <3>1. ~ ((Burst - b.level) + leaked >= Burst)
            BY <1>1, <2>7, <2>11
        <3>2. Burst - (b.level - leaked) = (Burst - b.level) + leaked
            BY <1>1, <2>7
        <3>3. b.level - leaked \in 1..Burst
            BY <1>1, <2>7, <2>11
        <3>4. LB!Ledger(LB!Drain(b, t), t)
            BY <1>1, <2>7, <2>8, <2>11, <3>3 DEF LB!Ledger, LB!Bucket, LB!Unit
        <3>5. QED
            BY <2>8, <2>9, <2>11, <3>1, <3>2, <3>4 DEF Mirrored
    <2>12. QED
        BY <2>10, <2>11
<1>5. QED
    BY <1>3, <1>4

(* The ledgers of the leaky bucket, as its TypeOK has them.                *)
LeakyLedgers ==
    /\ DOMAIN buckets \subseteq Keys
    /\ buckets = [k \in DOMAIN buckets |-> buckets[k]]
    /\ \A k \in DOMAIN buckets : LB!Ledger(buckets[k], now)

(* The mirror image of a sound bucket is sound.                            *)
LEMMA MirrorIsSound ==
    ASSUME HarnessTypeOK, LeakyLedgers
    PROVE  /\ MIRROR!TypeOK
           /\ LB!DebtMap = MIRROR!DebtMap
<1>1. ASSUME NEW k \in DOMAIN buckets
      PROVE  /\ MIRROR!Ledger(Mirrored(buckets[k]), now)
             /\ LB!Owed(buckets[k], now) = MIRROR!Owed(Mirrored(buckets[k]), now)
    <2> DEFINE b == buckets[k]
    <2>1. LB!Ledger(b, now)
        BY DEF LeakyLedgers
    <2> HIDE DEF b
    <2>2. /\ b.level \in Nat /\ b.level <= Burst /\ b.credit \in 0..999 /\ b.last \in 0..MaxTime
          /\ b.last <= now /\ (b.level = 0 => b.credit = 0) /\ Burst \in Nat
        BY <2>1, BucketAssumption DEF LB!Ledger, LB!Bucket, LB!Unit
    <2>3. /\ Mirrored(b).tokens = Burst - b.level
          /\ Mirrored(b).credit = b.credit
          /\ Mirrored(b).last = b.last
        BY DEF Mirrored
    <2>4. Burst - b.level \in 0..Burst
        BY <2>2
    <2>5. Mirrored(b) \in [tokens : 0..Burst, credit : 0..999, last : 0..MaxTime]
        BY <2>2, <2>4 DEF Mirrored
    <2>6. MIRROR!Ledger(Mirrored(b), now)
        BY <2>2, <2>3, <2>5 DEF MIRROR!Ledger, MIRROR!Bucket, MIRROR!Unit
    <2>7. Burst - (Burst - b.level) = b.level
        BY <2>2
    <2>8. LB!Owed(b, now) = MIRROR!Owed(Mirrored(b), now)
        BY <2>3, <2>7 DEF LB!Owed, MIRROR!Owed, LB!Unit, MIRROR!Unit
    <2>9. QED
        BY <2>6, <2>8 DEF b
<1>2. DOMAIN Mirror = DOMAIN buckets /\ \A k \in DOMAIN buckets : Mirror[k] = Mirrored(buckets[k])
    BY DEF Mirror
<1>3. Mirror = [k \in DOMAIN Mirror |-> Mirror[k]]
    BY DEF Mirror
<1>4. MIRROR!BucketsOK
    BY <1>1, <1>2, <1>3, Zenon DEF MIRROR!BucketsOK, LeakyLedgers
<1>5. MIRROR!HarnessTypeOK
    BY DEF HarnessTypeOK, MIRROR!HarnessTypeOK, Replies, MIRROR!Replies, Readings, MIRROR!Readings
<1>6. LB!DebtMap = MIRROR!DebtMap
    <2>1. \A k \in Keys :
            (IF k \in DOMAIN buckets /\ LB!Owed(buckets[k], now) > 0
             THEN LB!Owed(buckets[k], now) ELSE 0) = MIRROR!Debt(k)
        BY <1>1, <1>2, Zenon DEF MIRROR!Debt
    <2>2. QED
        BY <2>1, Zenon DEF LB!DebtMap, MIRROR!DebtMap
<1>7. QED
    BY <1>4, <1>5, <1>6 DEF MIRROR!TypeOK

(* The same, after a step.                                                 *)
LEMMA MirrorStaysSound ==
    HarnessTypeOK' /\ LeakyLedgers' => LB!DebtMap' = MIRROR!DebtMap'
<1>1. HarnessTypeOK /\ LeakyLedgers => LB!DebtMap = MIRROR!DebtMap
    BY MirrorIsSound
<1>2. (HarnessTypeOK /\ LeakyLedgers => LB!DebtMap = MIRROR!DebtMap)'
    BY <1>1, PTL
<1>3. QED
    BY <1>2

(* Keeping a bucket keeps its mirror image.                                *)
LEMMA KeepMirrors ==
    ASSUME LeakyLedgers, now' = now, NEW k \in Keys, NEW b, LB!Ledger(b, now), LB!Keep(k, b)
    PROVE  LeakyLedgers' /\ MIRROR!Keep(k, Mirrored(b))
<1>1. buckets' = [x \in DOMAIN buckets \cup {k} |-> IF x = k THEN b ELSE buckets[x]]
    BY DEF LB!Keep
<1>2. /\ DOMAIN buckets' = DOMAIN buckets \cup {k}
      /\ buckets' = [x \in DOMAIN buckets' |-> buckets'[x]]
      /\ buckets'[k] = b
      /\ \A x \in DOMAIN buckets : x # k => buckets'[x] = buckets[x]
    BY <1>1
<1>3. LeakyLedgers'
    BY <1>2 DEF LeakyLedgers, LB!Ledger
<1>4. Mirror' = [x \in DOMAIN buckets \cup {k} |-> IF x = k THEN Mirrored(b) ELSE Mirrored(buckets[x])]
    BY <1>1, <1>2, Zenon DEF Mirror
<1>5. DOMAIN Mirror = DOMAIN buckets /\ \A x \in DOMAIN buckets : Mirror[x] = Mirrored(buckets[x])
    BY DEF Mirror
<1>6. Mirror' = [x \in DOMAIN Mirror \cup {k} |-> IF x = k THEN Mirrored(b) ELSE Mirror[x]]
    <2> DEFINE f(x) == IF x = k THEN Mirrored(b) ELSE Mirrored(buckets[x])
               g(x) == IF x = k THEN Mirrored(b) ELSE Mirror[x]
    <2>1. \A x \in DOMAIN buckets \cup {k} : f(x) = g(x)
        BY <1>5
    <2>2. Mirror' = [x \in DOMAIN buckets \cup {k} |-> f(x)]
        BY <1>4
    <2> HIDE DEF f, g
    <2>3. Mirror' = [x \in DOMAIN Mirror \cup {k} |-> g(x)]
        BY <1>5, <2>1, <2>2
    <2>4. QED
        BY <2>3 DEF g
<1>7. QED
    BY <1>3, <1>6 DEF MIRROR!Keep

(* The two read the table alike.                                           *)
LEMMA SameLeakyTable ==
    ASSUME NEW S
    PROVE  /\ LB!TableFull(S) = TableFull(S)
           /\ LB!WaitUntracked(S) = WaitUntracked(S)
<1>1. LB!Cardinality(S) = Cardinality(S)
    BY Zenon DEF LB!Cardinality, Cardinality
<1>2. LB!TableFull(S) = TableFull(S)
    BY <1>1 DEF LB!TableFull, TableFull
<1>3. LB!WaitUntracked(S) = WaitUntracked(S)
    BY <1>2, SMT DEF LB!WaitUntracked, WaitUntracked, LB!Unknown, Unknown
<1>4. QED
    BY <1>2, <1>3

(* What a call sees is the mirror image of what a token bucket would show. *)
LEMMA SeenInTheMirror ==
    ASSUME FillTimeFits, LeakyLedgers, now \in 0..MaxTime, NEW k \in Keys
    PROVE  /\ LB!Ledger(LB!BucketFor(k), now)
           /\ Mirrored(LB!BucketFor(k)) = MIRROR!BucketFor(k)
<1>1. DOMAIN Mirror = DOMAIN buckets /\ \A x \in DOMAIN buckets : Mirror[x] = Mirrored(buckets[x])
    BY DEF Mirror
<1>2. CASE k \in DOMAIN buckets
    <2>1. LB!Ledger(buckets[k], now)
        BY <1>2 DEF LeakyLedgers
    <2>2. LB!BucketFor(k) = LB!Drain(buckets[k], now)
        BY <1>2 DEF LB!BucketFor
    <2>3. MIRROR!BucketFor(k) = MIRROR!Refill(Mirrored(buckets[k]), now)
        BY <1>1, <1>2 DEF MIRROR!BucketFor
    <2>4. QED
        BY <2>1, <2>2, <2>3, DrainMirrors
<1>3. CASE k \notin DOMAIN buckets
    <2>1. LB!BucketFor(k) = [level |-> 0, credit |-> 0, last |-> now]
        BY <1>3 DEF LB!BucketFor, LB!Empty
    <2>2. MIRROR!BucketFor(k) = [tokens |-> Burst, credit |-> 0, last |-> now]
        BY <1>1, <1>3 DEF MIRROR!BucketFor, MIRROR!Full
    <2>3. Burst \in Nat /\ Burst - 0 = Burst
        BY BucketAssumption
    <2>4. LB!Ledger(LB!BucketFor(k), now)
        BY <2>1, <2>3, HarnessAssumption DEF LB!Ledger, LB!Bucket, LB!Unit
    <2>5. Mirrored(LB!BucketFor(k)) = MIRROR!BucketFor(k)
        BY <2>1, <2>2, <2>3 DEF Mirrored
    <2>6. QED
        BY <2>4, <2>5
<1>4. QED
    BY <1>2, <1>3

(* Every step keeps the ledgers, and is a step of the mirror image or one  *)
(* at the table.                                                           *)
LEMMA LeakyStep ==
    ASSUME FillTimeFits, LeakyLedgers, HarnessTypeOK, LB!Next
    PROVE  /\ LeakyLedgers'
           /\ MIRROR!Next \/ (AtTheTable(DOMAIN buckets) /\ UNCHANGED buckets)
<1>0. now \in 0..MaxTime /\ now \in Nat
    BY HarnessAssumption DEF HarnessTypeOK
<1>1. CASE \E t \in LB!Later : LB!Tick(t)
    <2> PICK t \in LB!Later : LB!Tick(t)
        BY <1>1
    <2>1. t \in Later /\ now' = t /\ UNCHANGED <<buckets, reply, since, spent>>
        BY DEF LB!Later, Later, LB!Tick, LB!AdvanceClock
    <2>2. now < t /\ t \in Nat
        BY <2>1, LaterIsLater
    <2>3. \A k \in DOMAIN buckets : buckets[k].last \in Int /\ buckets[k].last <= now
        BY HarnessAssumption DEF LeakyLedgers, LB!Ledger, LB!Bucket
    <2>4. \A k \in DOMAIN buckets : buckets[k].last <= t
        BY <1>0, <2>2, <2>3
    <2>5. LeakyLedgers'
        BY <2>1, <2>4 DEF LeakyLedgers, LB!Ledger
    <2>6. Mirror' = Mirror
        BY <2>1 DEF Mirror
    <2>7. MIRROR!Next
        BY <2>1, <2>6 DEF MIRROR!Next, MIRROR!Later, Later, MIRROR!Tick, MIRROR!AdvanceClock
    <2>8. QED
        BY <2>5, <2>7
<1>2. ASSUME now' = now, UNCHANGED buckets
      PROVE  LeakyLedgers' /\ Mirror' = Mirror
    BY <1>2 DEF LeakyLedgers, LB!Ledger, Mirror
<1>3. CASE LB!OpenWindow
    <2>1. now' = now /\ UNCHANGED buckets
        BY <1>3 DEF LB!OpenWindow, LB!MeasureFromNow
    <2>2. MIRROR!OpenWindow
        BY <1>2, <1>3, <2>1 DEF LB!OpenWindow, LB!MeasureFromNow, MIRROR!OpenWindow, MIRROR!MeasureFromNow
    <2>3. QED
        BY <1>2, <2>1, <2>2 DEF MIRROR!Next
<1>4. CASE LB!AnotherKey(DOMAIN buckets) /\ UNCHANGED buckets
    <2>1. AnotherKey(DOMAIN buckets)
        BY <1>4, SameLeakyTable, SMT DEF LB!AnotherKey, AnotherKey
    <2>2. now' = now
        BY <2>1 DEF AnotherKey
    <2>3. QED
        BY <1>2, <1>4, <2>1, <2>2 DEF AtTheTable
<1> SUFFICES ASSUME NEW k \in Keys,
                    \/ \E cost \in Costs :
                           LB!Admit(k, cost) \/ LB!Refuse(k, cost) \/ LB!RefuseNewKey(k, cost)
                    \/ LB!RetryAfterUntracked(k) \/ LB!RetryAfterTracked(k)
             PROVE  /\ LeakyLedgers'
                    /\ MIRROR!Next \/ (AtTheTable(DOMAIN buckets) /\ UNCHANGED buckets)
    BY <1>1, <1>3, <1>4 DEF LB!Next
<1> DEFINE b == LB!BucketFor(k)
           m == MIRROR!BucketFor(k)
<1>5. LB!Ledger(b, now) /\ Mirrored(b) = m
    BY <1>0, SeenInTheMirror
<1>6. /\ b.level \in 0..Burst /\ b \in LB!Bucket
      /\ m.tokens = Burst - b.level /\ m.credit = b.credit /\ m.last = b.last
      /\ m = [tokens |-> Burst - b.level, credit |-> b.credit, last |-> b.last]
    <2> HIDE DEF m, b
    <2>1. QED
        BY <1>5 DEF LB!Ledger, LB!Bucket, Mirrored
<1>7. ASSUME NEW cost \in Costs, LB!Admit(k, cost)
      PROVE  LeakyLedgers' /\ MIRROR!Next
    <2> DEFINE c == [b EXCEPT !.level = @ + cost]
    <2>1. /\ b.level + cost <= Burst
          /\ LB!Keep(k, c)
          /\ LB!AnswerAllow(k, cost, TRUE)
        BY <1>7, Zenon DEF LB!Admit, LB!FitsUnder
    <2>2. now' = now
        BY <2>1 DEF LB!AnswerAllow
    <2>3. cost \in Nat /\ Burst \in Nat
        BY HarnessAssumption, BucketAssumption
    <2> HIDE DEF b, m
    <2> DEFINE n == b.level + cost
    <2>4. n \in 0..Burst /\ (n = 0 => b.level = 0)
        BY <1>6, <2>1, <2>3
    <2>5. /\ c = [b EXCEPT !.level = n]
          /\ c = [level |-> n, credit |-> b.credit, last |-> b.last]
        BY <1>6 DEF LB!Bucket
    <2> HIDE DEF n, c
    <2>6. LB!Ledger(c, now)
        BY <1>5, <2>4, <2>5 DEF LB!Ledger, LB!Bucket
    <2>7. LeakyLedgers' /\ MIRROR!Keep(k, Mirrored(c))
        BY <2>1, <2>2, <2>6, KeepMirrors
    <2>8. Burst - n = m.tokens - cost /\ m.tokens >= cost
        BY <1>6, <2>1, <2>3 DEF n
    <2>9. Mirrored(c) = [m EXCEPT !.tokens = @ - cost]
        BY <1>6, <2>5, <2>8 DEF Mirrored
    <2>10. MIRROR!Admit(k, cost)
        <3>1. MIRROR!AnswerAllow(k, cost, TRUE)
            BY <2>1 DEF LB!AnswerAllow, MIRROR!AnswerAllow
        <3>2. QED
            BY <2>7, <2>8, <2>9, <3>1, Zenon DEF MIRROR!Admit, m
    <2>11. QED
        BY <2>7, <2>10 DEF MIRROR!Next
<1>8. ASSUME LB!Keep(k, b), now' = now
      PROVE  LeakyLedgers' /\ MIRROR!Keep(k, m)
    BY <1>5, <1>8, KeepMirrors
<1>9. ASSUME NEW cost \in Costs, LB!Refuse(k, cost)
      PROVE  LeakyLedgers' /\ MIRROR!Next
    <2>1. ~ (b.level + cost <= Burst) /\ LB!Keep(k, b) /\ LB!AnswerAllow(k, cost, FALSE)
        BY <1>9, Zenon DEF LB!Refuse, LB!FitsUnder
    <2>2. now' = now
        BY <2>1 DEF LB!AnswerAllow
    <2>3. LeakyLedgers' /\ MIRROR!Keep(k, m)
        BY <1>8, <2>1, <2>2
    <2>4. cost \in Nat /\ Burst \in Nat
        BY HarnessAssumption, BucketAssumption
    <2>5. m.tokens < cost
        <3> HIDE DEF m, b
        <3>1. QED
            BY <1>6, <2>1, <2>4
    <2>6. MIRROR!AnswerAllow(k, cost, FALSE)
        BY <2>1 DEF LB!AnswerAllow, MIRROR!AnswerAllow
    <2>7. MIRROR!Refuse(k, cost)
        BY <2>3, <2>5, <2>6, Zenon DEF MIRROR!Refuse
    <2>8. QED
        BY <2>3, <2>7 DEF MIRROR!Next
<1>10. ASSUME NEW cost \in Costs, LB!RefuseNewKey(k, cost)
       PROVE  LeakyLedgers' /\ AtTheTable(DOMAIN buckets) /\ UNCHANGED buckets
    <2>1. TurnAway(k, cost, DOMAIN buckets) /\ UNCHANGED buckets
        BY <1>10, SameLeakyTable, Zenon DEF LB!RefuseNewKey, LB!TurnAway, LB!HasRoom, LB!AnswerAllow,
                TurnAway, HasRoom, AnswerAllow
    <2>2. k \notin DOMAIN buckets /\ TableFull(DOMAIN buckets) /\ now' = now
        BY <2>1 DEF TurnAway, HasRoom, AnswerAllow
    <2>3. QED
        BY <1>2, <2>1, <2>2, Zenon DEF AtTheTable
<1>11. CASE LB!RetryAfterUntracked(k)
    <2>1. /\ k \notin DOMAIN buckets /\ UNCHANGED <<buckets, taken>>
          /\ Answer("retryAfter", k, WaitUntracked(DOMAIN buckets))
        BY <1>11, SameLeakyTable, Zenon
        DEF LB!RetryAfterUntracked, LB!AnswerUntracked, LB!Answer, Answer
    <2>2. now' = now /\ UNCHANGED buckets
        BY <2>1 DEF Answer
    <2>3. LeakyLedgers' /\ Mirror' = Mirror
        BY <1>2, <2>2
    <2>4. CASE TableFull(DOMAIN buckets)
        BY <2>1, <2>3, <2>4, Zenon DEF AtTheTable, AnswerUntracked
    <2>5. CASE ~ TableFull(DOMAIN buckets)
        <3>1. MIRROR!RetryAfterUntracked(k)
            BY <2>1, <2>3, <2>5 DEF WaitUntracked, Answer, MIRROR!RetryAfterUntracked, MIRROR!Answer, Mirror
        <3>2. QED
            BY <2>3, <3>1 DEF MIRROR!Next
    <2>6. QED
        BY <2>4, <2>5
<1>12. CASE LB!RetryAfterTracked(k)
    <2>1. k \in DOMAIN buckets /\ LB!Keep(k, b) /\ LB!Answer("retryAfter", k, LB!WaitFor(b))
        BY <1>12, Zenon DEF LB!RetryAfterTracked
    <2>2. now' = now
        BY <2>1 DEF LB!Answer
    <2>3. LeakyLedgers' /\ MIRROR!Keep(k, m)
        BY <1>8, <2>1, <2>2
    <2>4. LB!WaitFor(b) = MIRROR!WaitFor(m)
        <3> HIDE DEF b, m
        <3>1. (b.level < Burst) <=> (m.tokens >= 1)
            BY <1>6, BucketAssumption
        <3>2. QED
            BY <1>6, <3>1 DEF LB!WaitFor, MIRROR!WaitFor, LB!MsToAccrue, MIRROR!MsToAccrue, LB!Unit, MIRROR!Unit
    <2>5. MIRROR!RetryAfterTracked(k)
        <3>1. MIRROR!Answer("retryAfter", k, MIRROR!WaitFor(m))
            BY <2>1, <2>4 DEF LB!Answer, MIRROR!Answer
        <3>2. k \in DOMAIN Mirror
            BY <2>1 DEF Mirror
        <3>3. QED
            BY <2>3, <3>1, <3>2, Zenon DEF MIRROR!RetryAfterTracked
    <2>6. QED
        BY <2>3, <2>5 DEF MIRROR!Next
<1>13. QED
    BY <1>7, <1>9, <1>10, <1>11, <1>12

(* It claims at most one slot.                                             *)
LEMMA LeakyClaim ==
    ASSUME LB!Next
    PROVE  \/ Claims(DOMAIN buckets, DOMAIN buckets')
           \/ AtTheTable(DOMAIN buckets) /\ UNCHANGED buckets
<1>1. ASSUME NEW k \in Keys, HasRoom(k, DOMAIN buckets), NEW b, LB!Keep(k, b), UNCHANGED taken
      PROVE  Claims(DOMAIN buckets, DOMAIN buckets')
    BY <1>1 DEF LB!Keep, Claims
<1>2. ASSUME UNCHANGED <<buckets, taken>>
      PROVE  Claims(DOMAIN buckets, DOMAIN buckets')
    BY <1>2 DEF Claims
<1>3. \A k : LB!HasRoom(k, DOMAIN buckets) <=> HasRoom(k, DOMAIN buckets)
    BY SameLeakyTable DEF LB!HasRoom, HasRoom
<1>4. CASE LB!AnotherKey(DOMAIN buckets) /\ UNCHANGED buckets
    BY <1>4, SameLeakyTable, SMT DEF LB!AnotherKey, AnotherKey, AtTheTable
<1>5. CASE (\E t \in LB!Later : LB!Tick(t)) \/ LB!OpenWindow
    BY <1>2, <1>5, Zenon DEF LB!Tick, LB!OpenWindow
<1> SUFFICES ASSUME NEW k \in Keys,
                    \/ \E cost \in Costs :
                           LB!Admit(k, cost) \/ LB!Refuse(k, cost) \/ LB!RefuseNewKey(k, cost)
                    \/ LB!RetryAfterUntracked(k) \/ LB!RetryAfterTracked(k)
             PROVE  Claims(DOMAIN buckets, DOMAIN buckets')
    BY <1>4, <1>5, Zenon DEF LB!Next
<1>6. ASSUME NEW cost \in Costs, LB!Admit(k, cost) \/ LB!Refuse(k, cost)
      PROVE  Claims(DOMAIN buckets, DOMAIN buckets')
    BY <1>1, <1>3, <1>6, Zenon DEF LB!Admit, LB!Refuse
<1>7. ASSUME NEW cost \in Costs, LB!RefuseNewKey(k, cost)
      PROVE  Claims(DOMAIN buckets, DOMAIN buckets')
    BY <1>2, <1>7, Zenon DEF LB!RefuseNewKey, LB!TurnAway
<1>8. CASE LB!RetryAfterUntracked(k)
    BY <1>2, <1>8, Zenon DEF LB!RetryAfterUntracked, LB!AnswerUntracked
<1>9. CASE LB!RetryAfterTracked(k)
    BY <1>1, <1>9, Zenon DEF LB!RetryAfterTracked, HasRoom
<1>10. QED
    BY <1>6, <1>7, <1>8, <1>9, Zenon

-----------------------------------------------------------------------------
(* The C port of GCRA.                                                     *)

(* The table of this instance is the table.                                *)
LEMMA SameScheduleTable ==
    ASSUME NEW S
    PROVE  /\ GCRA!TableFull(S) = TableFull(S)
           /\ GCRA!WaitUntracked(S) = WaitUntracked(S)
<1>1. GCRA!Cardinality(S) = Cardinality(S)
    BY Zenon DEF GCRA!Cardinality, Cardinality
<1>2. GCRA!TableFull(S) = TableFull(S)
    BY <1>1 DEF GCRA!TableFull, TableFull
<1>3. GCRA!WaitUntracked(S) = WaitUntracked(S)
    BY <1>2, SMT DEF GCRA!WaitUntracked, WaitUntracked, GCRA!Unknown, Unknown
<1>4. QED
    BY <1>2, <1>3

(* A step of the port is one of the original, or one at the table.         *)
LEMMA PortedScheduleStep ==
    ASSUME GCRA!TypeOK, GCRA!PortNext
    PROVE  GCRA!Next \/ (AtTheTable(DOMAIN tat) /\ UNCHANGED tat)
<1>1. CASE \E t \in GCRA!Later : GCRA!Tick(t) /\ UNCHANGED taken
    BY <1>1, Zenon DEF GCRA!Next
<1>2. CASE GCRA!OpenWindow /\ UNCHANGED taken
    BY <1>2, Zenon DEF GCRA!Next
<1>3. CASE GCRA!AnotherKey(DOMAIN tat) /\ UNCHANGED tat
    BY <1>3, SameScheduleTable, SMT DEF GCRA!AnotherKey, AnotherKey, AtTheTable
<1> SUFFICES ASSUME NEW k \in Keys,
                    \/ \E cost \in Costs :
                           GCRA!Claim(k, cost) \/ GCRA!RefuseCost(k, cost) \/ GCRA!RefuseNewKey(k, cost)
                    \/ GCRA!RetryAfterUntracked(k) \/ GCRA!RetryAfterTracked(k)
             PROVE  GCRA!Next \/ (AtTheTable(DOMAIN tat) /\ UNCHANGED tat)
    BY <1>1, <1>2, <1>3, Zenon DEF GCRA!PortNext
<1>4. ASSUME NEW cost \in Costs, GCRA!Claim(k, cost) \/ GCRA!RefuseCost(k, cost)
      PROVE  GCRA!Next
    BY <1>4, Zenon DEF GCRA!Claim, GCRA!RefuseCost, GCRA!Next
<1>5. ASSUME NEW cost \in Costs, GCRA!RefuseNewKey(k, cost)
      PROVE  AtTheTable(DOMAIN tat) /\ UNCHANGED tat
    <2>1. TurnAway(k, cost, DOMAIN tat) /\ UNCHANGED tat
        BY <1>5, SameScheduleTable, Zenon
        DEF GCRA!RefuseNewKey, GCRA!TurnAway, GCRA!HasRoom, GCRA!AnswerAllow,
            TurnAway, HasRoom, AnswerAllow
    <2>2. k \notin DOMAIN tat /\ TableFull(DOMAIN tat)
        BY <2>1 DEF TurnAway, HasRoom
    <2>3. QED
        BY <2>1, <2>2, Zenon DEF AtTheTable
<1>6. CASE GCRA!RetryAfterUntracked(k)
    <2>1. /\ k \notin DOMAIN tat /\ UNCHANGED <<tat, taken>>
          /\ Answer("retryAfter", k, WaitUntracked(DOMAIN tat))
        BY <1>6, SameScheduleTable, Zenon
        DEF GCRA!RetryAfterUntracked, GCRA!AnswerUntracked, GCRA!Answer, Answer
    <2>2. CASE TableFull(DOMAIN tat)
        BY <2>1, <2>2, Zenon DEF AtTheTable, AnswerUntracked
    <2>3. CASE ~ TableFull(DOMAIN tat)
        <3>1. GCRA!TatOf(k) = GCRA!Scaled
            BY <2>1 DEF GCRA!TatOf
        <3>2. GCRA!Scaled \in Int /\ GCRA!Tolerance \in Nat
            BY BucketAssumption, HarnessAssumption
            DEF GCRA!Scaled, GCRA!Tolerance, GCRA!Unit, GCRA!TypeOK, GCRA!HarnessTypeOK
        <3>3. GCRA!WaitFor(k) = 0
            BY <3>1, <3>2 DEF GCRA!WaitFor
        <3>4. GCRA!RetryAfter(k)
            BY <2>1, <2>3, <3>3 DEF WaitUntracked, Answer, GCRA!RetryAfter, GCRA!Answer
        <3>5. QED
            BY <3>4 DEF GCRA!Next
    <2>4. QED
        BY <2>2, <2>3
<1>7. CASE GCRA!RetryAfterTracked(k)
    BY <1>7, Zenon DEF GCRA!RetryAfterTracked, GCRA!Next
<1>8. QED
    BY <1>4, <1>5, <1>6, <1>7

(* Only an admission claims a slot, and one at most.                       *)
LEMMA ScheduleClaim ==
    ASSUME GCRA!PortNext
    PROVE  \/ Claims(DOMAIN tat, DOMAIN tat')
           \/ AtTheTable(DOMAIN tat) /\ UNCHANGED tat
<1>1. ASSUME UNCHANGED <<tat, taken>>
      PROVE  Claims(DOMAIN tat, DOMAIN tat')
    BY <1>1 DEF Claims
<1>2. CASE GCRA!AnotherKey(DOMAIN tat) /\ UNCHANGED tat
    BY <1>2, SameScheduleTable, SMT DEF GCRA!AnotherKey, AnotherKey, AtTheTable
<1>3. CASE \/ \E t \in GCRA!Later : GCRA!Tick(t) /\ UNCHANGED taken
           \/ GCRA!OpenWindow /\ UNCHANGED taken
    BY <1>1, <1>3, Zenon DEF GCRA!Tick, GCRA!OpenWindow
<1> SUFFICES ASSUME NEW k \in Keys,
                    \/ \E cost \in Costs :
                           GCRA!Claim(k, cost) \/ GCRA!RefuseCost(k, cost) \/ GCRA!RefuseNewKey(k, cost)
                    \/ GCRA!RetryAfterUntracked(k) \/ GCRA!RetryAfterTracked(k)
             PROVE  Claims(DOMAIN tat, DOMAIN tat')
    BY <1>2, <1>3, Zenon DEF GCRA!PortNext
<1>4. ASSUME NEW cost \in Costs, GCRA!Claim(k, cost)
      PROVE  Claims(DOMAIN tat, DOMAIN tat')
    <2>1. HasRoom(k, DOMAIN tat) /\ UNCHANGED taken
        BY <1>4, SameScheduleTable, Zenon DEF GCRA!Claim, GCRA!HasRoom, HasRoom
    <2>2. tat' = [x \in DOMAIN tat \cup {k} |-> IF x = k THEN GCRA!Rescheduled(k, cost) ELSE tat[x]]
        BY <1>4, Zenon DEF GCRA!Claim, GCRA!Admit
    <2>3. DOMAIN tat' = DOMAIN tat \cup {k}
        BY <2>2
    <2>4. QED
        BY <2>1, <2>3 DEF Claims
<1>5. ASSUME NEW cost \in Costs, GCRA!RefuseCost(k, cost) \/ GCRA!RefuseNewKey(k, cost)
      PROVE  Claims(DOMAIN tat, DOMAIN tat')
    BY <1>1, <1>5, Zenon DEF GCRA!RefuseCost, GCRA!Refuse, GCRA!RefuseNewKey, GCRA!TurnAway
<1>6. CASE GCRA!RetryAfterUntracked(k) \/ GCRA!RetryAfterTracked(k)
    BY <1>1, <1>6, Zenon DEF GCRA!RetryAfterUntracked, GCRA!AnswerUntracked,
                             GCRA!RetryAfterTracked, GCRA!RetryAfter
<1>7. QED
    BY <1>4, <1>5, <1>6, Zenon

-----------------------------------------------------------------------------
(* The meter that a policy's debt shows is the one the policies share.     *)

(* For the token buckets.                                                  *)
LEMMA SameMeter ==
    ASSUME Debt = TB!DebtMap, Debt' = TB!DebtMap', [TB!M!Next]_(TB!M!meterVars)
    PROVE  [M!Next]_(M!meterVars)
    BY DEF M!Next, M!meterVars, M!harnessVars, M!Later, M!Tick, M!OpenWindow, M!Admit,
           M!Refuse, M!RetryAfter, M!TokensOf, M!Fits, M!Wait, M!WholePermits, M!PaidDown,
           M!AdvanceClock, M!MeasureFromNow, M!AnswerAllow, M!Answer, M!MsToAccrue, M!Unit,
           TB!M!Next, TB!M!meterVars, TB!M!harnessVars, TB!M!Later, TB!M!Tick, TB!M!OpenWindow,
           TB!M!Admit, TB!M!Refuse, TB!M!RetryAfter, TB!M!TokensOf, TB!M!Fits, TB!M!Wait,
           TB!M!WholePermits, TB!M!PaidDown, TB!M!AdvanceClock, TB!M!MeasureFromNow,
           TB!M!AnswerAllow, TB!M!Answer, TB!M!MsToAccrue, TB!M!Unit

(* For the leaky bucket.                                                   *)
LEMMA SameMeterMirrored ==
    ASSUME Debt = MIRROR!DebtMap, Debt' = MIRROR!DebtMap', [MIRROR!M!Next]_(MIRROR!M!meterVars)
    PROVE  [M!Next]_(M!meterVars)
    BY DEF M!Next, M!meterVars, M!harnessVars, M!Later, M!Tick, M!OpenWindow, M!Admit,
           M!Refuse, M!RetryAfter, M!TokensOf, M!Fits, M!Wait, M!WholePermits, M!PaidDown,
           M!AdvanceClock, M!MeasureFromNow, M!AnswerAllow, M!Answer, M!MsToAccrue, M!Unit,
           MIRROR!M!Next, MIRROR!M!meterVars, MIRROR!M!harnessVars, MIRROR!M!Later,
           MIRROR!M!Tick, MIRROR!M!OpenWindow, MIRROR!M!Admit, MIRROR!M!Refuse,
           MIRROR!M!RetryAfter, MIRROR!M!TokensOf, MIRROR!M!Fits, MIRROR!M!Wait,
           MIRROR!M!WholePermits, MIRROR!M!PaidDown, MIRROR!M!AdvanceClock,
           MIRROR!M!MeasureFromNow, MIRROR!M!AnswerAllow, MIRROR!M!Answer, MIRROR!M!MsToAccrue,
           MIRROR!M!Unit

(* For GCRA.                                                               *)
LEMMA SameMeterScheduled ==
    ASSUME Debt = GCRA!DebtMap, Debt' = GCRA!DebtMap', [GCRA!M!Next]_(GCRA!M!meterVars)
    PROVE  [M!Next]_(M!meterVars)
    BY DEF M!Next, M!meterVars, M!harnessVars, M!Later, M!Tick, M!OpenWindow, M!Admit,
           M!Refuse, M!RetryAfter, M!TokensOf, M!Fits, M!Wait, M!WholePermits, M!PaidDown,
           M!AdvanceClock, M!MeasureFromNow, M!AnswerAllow, M!Answer, M!MsToAccrue, M!Unit,
           GCRA!M!Next, GCRA!M!meterVars, GCRA!M!harnessVars, GCRA!M!Later, GCRA!M!Tick,
           GCRA!M!OpenWindow, GCRA!M!Admit, GCRA!M!Refuse, GCRA!M!RetryAfter, GCRA!M!TokensOf,
           GCRA!M!Fits, GCRA!M!Wait, GCRA!M!WholePermits, GCRA!M!PaidDown, GCRA!M!AdvanceClock,
           GCRA!M!MeasureFromNow, GCRA!M!AnswerAllow, GCRA!M!Answer, GCRA!M!MsToAccrue,
           GCRA!M!Unit

-----------------------------------------------------------------------------
(* The invariant of the policy in use: its ledger is well formed, and the  *)
(* table is no fuller than it may be.                                      *)
LedgerSound ==
    /\ policy \in {"token_bucket", "c_token_bucket"} => TB!TypeOK
    /\ policy = "leaky_bucket" => HarnessTypeOK /\ LeakyLedgers
    /\ policy \in {"gcra", "c_gcra"} => GCRA!TypeOK
    /\ policy \in {"c_token_bucket", "leaky_bucket", "c_gcra"} => Slots(Tracked, taken)

(* What is tracked, and what is owed, by each of the meters.               *)
LEMMA WhoseDebt ==
    /\ policy \in {"token_bucket", "c_token_bucket"} => Debt = TB!DebtMap /\ Tracked = DOMAIN buckets
    /\ policy = "leaky_bucket" => Debt = LB!DebtMap /\ Tracked = DOMAIN buckets
    /\ policy \in {"gcra", "c_gcra"} => Debt = GCRA!DebtMap /\ Tracked = DOMAIN tat
BY DEF Debt, Tracked

(* The caller's variables have one type, whoever declares it.              *)
LEMMA SameHarness ==
    /\ TB!HarnessTypeOK <=> HarnessTypeOK
    /\ LB!HarnessTypeOK <=> HarnessTypeOK
    /\ MIRROR!HarnessTypeOK <=> HarnessTypeOK
    /\ GCRA!HarnessTypeOK <=> HarnessTypeOK
    /\ M!HarnessTypeOK <=> HarnessTypeOK
BY DEF HarnessTypeOK, Replies, Readings, TB!HarnessTypeOK, TB!Replies, TB!Readings,
       LB!HarnessTypeOK, LB!Replies, LB!Readings, MIRROR!HarnessTypeOK, MIRROR!Replies,
       MIRROR!Readings, GCRA!HarnessTypeOK, GCRA!Replies, GCRA!Readings,
       M!HarnessTypeOK, M!Replies, M!Readings

(* The same, after a step.                                                 *)
LEMMA SameHarnessNext ==
    /\ TB!HarnessTypeOK' <=> HarnessTypeOK'
    /\ LB!HarnessTypeOK' <=> HarnessTypeOK'
    /\ MIRROR!HarnessTypeOK' <=> HarnessTypeOK'
    /\ GCRA!HarnessTypeOK' <=> HarnessTypeOK'
BY DEF HarnessTypeOK, Replies, Readings, TB!HarnessTypeOK, TB!Replies, TB!Readings,
       LB!HarnessTypeOK, LB!Replies, LB!Readings, MIRROR!HarnessTypeOK, MIRROR!Replies,
       MIRROR!Readings, GCRA!HarnessTypeOK, GCRA!Replies, GCRA!Readings

(* A slot table that was kept by a step of a port.                         *)
LEMMA SlotsKept ==
    ASSUME NEW tracked, NEW tracked2, Slots(tracked, taken),
           \/ Claims(tracked, tracked2)
           \/ AtTheTable(tracked) /\ tracked2 = tracked
    PROVE  Slots(tracked2, taken')
BY ClaimsKeepTable, TableStepKeepsTable

(* A step of the token bucket.                                             *)
LEMMA TokenBucketKeeps ==
    ASSUME LedgerSound, TokenBucketMoves
    PROVE  LedgerSound' /\ [M!Next]_(M!meterVars)
<1>1. policy = "token_bucket" /\ policy' = "token_bucket" /\ TB!Next
    BY DEF TokenBucketMoves
<1>2. TB!TypeOK' /\ [TB!M!Next]_(TB!M!meterVars)
    BY <1>1, TB!StepIsMeterStep, HarnessAssumption, BucketAssumption DEF LedgerSound
<1>3. Debt = TB!DebtMap /\ Debt' = TB!DebtMap'
    BY <1>1 DEF Debt
<1>4. LedgerSound'
    BY <1>1, <1>2 DEF LedgerSound
<1>5. QED
    BY <1>2, <1>3, <1>4, SameMeter

(* A step of its port.                                                     *)
LEMMA CTokenBucketKeeps ==
    ASSUME FillTimeFits, LedgerSound, CTokenBucketMoves
    PROVE  LedgerSound' /\ [MeterStep]_(M!meterVars)
<1>1. policy = "c_token_bucket" /\ policy' = "c_token_bucket" /\ CTB!Next
    BY DEF CTokenBucketMoves
<1>2. TB!TypeOK /\ Slots(DOMAIN buckets, taken)
    BY <1>1, WhoseDebt DEF LedgerSound
<1>3. Debt = TB!DebtMap /\ Debt' = TB!DebtMap' /\ Tracked = DOMAIN buckets /\ Tracked' = DOMAIN buckets'
    BY <1>1 DEF Debt, Tracked
<1>4. Slots(DOMAIN buckets', taken')
    BY <1>1, <1>2, PortedClaim, SlotsKept
<1>5. TB!TypeOK' /\ [MeterStep]_(M!meterVars)
    <2>1. CASE TB!Next
        <3>1. TB!TypeOK' /\ [TB!M!Next]_(TB!M!meterVars)
            BY <1>2, <2>1, TB!StepIsMeterStep, HarnessAssumption, BucketAssumption
        <3>2. [M!Next]_(M!meterVars)
            BY <1>3, <3>1, SameMeter
        <3>3. QED
            BY <3>1, <3>2 DEF MeterStep
    <2>2. CASE AtTheTable(DOMAIN buckets) /\ UNCHANGED buckets
        <3>1. TB!TypeOK' /\ TB!DebtMap' = TB!DebtMap
            BY <1>2, <2>2, TableStepOwesNothing
        <3>2. QED
            BY <1>1, <1>3, <2>2, <3>1 DEF MeterStep
    <2>3. QED
        BY <1>1, <2>1, <2>2, PortedStep
<1>6. LedgerSound'
    BY <1>1, <1>3, <1>4, <1>5 DEF LedgerSound
<1>7. QED
    BY <1>5, <1>6

(* A step of the leaky bucket.                                             *)
LEMMA LeakyBucketKeeps ==
    ASSUME FillTimeFits, LedgerSound, LeakyBucketMoves
    PROVE  LedgerSound' /\ [MeterStep]_(M!meterVars)
<1>1. policy = "leaky_bucket" /\ policy' = "leaky_bucket" /\ LB!Next
    BY DEF LeakyBucketMoves
<1>2. HarnessTypeOK /\ LeakyLedgers /\ Slots(DOMAIN buckets, taken)
    BY <1>1, WhoseDebt DEF LedgerSound
<1>3. Debt = LB!DebtMap /\ Debt' = LB!DebtMap' /\ Tracked = DOMAIN buckets /\ Tracked' = DOMAIN buckets'
    BY <1>1 DEF Debt, Tracked
<1>4. Slots(DOMAIN buckets', taken')
    BY <1>1, <1>2, LeakyClaim, SlotsKept
<1>5. LeakyLedgers' /\ (MIRROR!Next \/ (AtTheTable(DOMAIN buckets) /\ UNCHANGED buckets))
    BY <1>1, <1>2, LeakyStep
<1>6. MIRROR!TypeOK /\ LB!DebtMap = MIRROR!DebtMap
    BY <1>2, MirrorIsSound
<1>7. HarnessTypeOK' => LB!DebtMap' = MIRROR!DebtMap'
    BY <1>5, MirrorStaysSound
<1>8. HarnessTypeOK' /\ [MeterStep]_(M!meterVars)
    <2>1. CASE MIRROR!Next
        <3>1. MIRROR!TypeOK' /\ [MIRROR!M!Next]_(MIRROR!M!meterVars)
            BY <1>6, <2>1, MIRROR!StepIsMeterStep, HarnessAssumption, BucketAssumption
        <3>2. HarnessTypeOK'
            BY <3>1, SameHarnessNext DEF MIRROR!TypeOK
        <3>3. [M!Next]_(M!meterVars)
            BY <1>3, <1>6, <1>7, <3>1, <3>2, SameMeterMirrored
        <3>4. QED
            BY <3>2, <3>3 DEF MeterStep
    <2>2. CASE AtTheTable(DOMAIN buckets) /\ UNCHANGED buckets
        <3>1. HarnessTypeOK' /\ now' = now
            BY <1>2, <2>2, TableStepIsTyped
        <3>2. LB!DebtMap' = LB!DebtMap
            BY <2>2, <3>1 DEF LB!DebtMap, LB!Owed
        <3>3. QED
            BY <1>1, <1>3, <2>2, <3>1, <3>2 DEF MeterStep
    <2>3. QED
        BY <1>5, <2>1, <2>2
<1>9. LedgerSound'
    BY <1>1, <1>3, <1>4, <1>5, <1>8 DEF LedgerSound
<1>10. QED
    BY <1>8, <1>9

(* A step of GCRA.                                                         *)
LEMMA GcraKeeps ==
    ASSUME LedgerSound, GcraMoves
    PROVE  LedgerSound' /\ [M!Next]_(M!meterVars)
<1>1. policy = "gcra" /\ policy' = "gcra" /\ GCRA!Next
    BY DEF GcraMoves
<1>2. GCRA!TypeOK' /\ [GCRA!M!Next]_(GCRA!M!meterVars)
    BY <1>1, GCRA!StepIsMeterStep, HarnessAssumption, BucketAssumption, TableAssumption DEF LedgerSound
<1>3. Debt = GCRA!DebtMap /\ Debt' = GCRA!DebtMap'
    BY <1>1 DEF Debt
<1>4. LedgerSound'
    BY <1>1, <1>2 DEF LedgerSound
<1>5. QED
    BY <1>2, <1>3, <1>4, SameMeterScheduled

(* A step of its port.                                                     *)
LEMMA CGcraKeeps ==
    ASSUME LedgerSound, CGcraMoves
    PROVE  LedgerSound' /\ [MeterStep]_(M!meterVars)
<1>1. policy = "c_gcra" /\ policy' = "c_gcra" /\ GCRA!PortNext
    BY DEF CGcraMoves
<1>2. GCRA!TypeOK /\ Slots(DOMAIN tat, taken)
    BY <1>1, WhoseDebt DEF LedgerSound
<1>3. Debt = GCRA!DebtMap /\ Debt' = GCRA!DebtMap' /\ Tracked = DOMAIN tat /\ Tracked' = DOMAIN tat'
    BY <1>1 DEF Debt, Tracked
<1>4. Slots(DOMAIN tat', taken')
    BY <1>1, <1>2, ScheduleClaim, SlotsKept
<1>5. GCRA!TypeOK' /\ [MeterStep]_(M!meterVars)
    <2>1. CASE GCRA!Next
        <3>1. GCRA!TypeOK' /\ [GCRA!M!Next]_(GCRA!M!meterVars)
            BY <1>2, <2>1, GCRA!StepIsMeterStep, HarnessAssumption, BucketAssumption, TableAssumption
        <3>2. [M!Next]_(M!meterVars)
            BY <1>3, <3>1, SameMeterScheduled
        <3>3. QED
            BY <3>1, <3>2 DEF MeterStep
    <2>2. CASE AtTheTable(DOMAIN tat) /\ UNCHANGED tat
        <3>1. HarnessTypeOK' /\ now' = now
            BY <1>2, <2>2, SameHarness, TableStepIsTyped DEF GCRA!TypeOK
        <3>2. GCRA!TatsOK' /\ GCRA!DebtMap' = GCRA!DebtMap
            BY <1>2, <2>2, <3>1 DEF GCRA!TypeOK, GCRA!TatsOK, GCRA!DebtMap, GCRA!TatOf, GCRA!Scaled
        <3>3. QED
            BY <1>1, <1>3, <2>2, <3>1, <3>2, SameHarnessNext DEF MeterStep, GCRA!TypeOK
    <2>3. QED
        BY <1>1, <1>2, <2>1, <2>2, PortedScheduleStep
<1>6. LedgerSound'
    BY <1>1, <1>3, <1>4, <1>5 DEF LedgerSound
<1>7. QED
    BY <1>5, <1>6

-----------------------------------------------------------------------------
(* A step of whichever policy is in use.                                   *)
LEMMA LedgerStep ==
    ASSUME FillTimeFits, LedgerSound, [Next]_vars
    PROVE  /\ LedgerSound'
           /\ policy' = policy
           /\ policy \in Meters => [MeterStep]_(M!meterVars)
<1>1. CASE TokenBucketMoves
    BY <1>1, TokenBucketKeeps DEF TokenBucketMoves, MeterStep
<1>2. CASE CTokenBucketMoves
    BY <1>2, CTokenBucketKeeps DEF CTokenBucketMoves
<1>3. CASE LeakyBucketMoves
    BY <1>3, LeakyBucketKeeps DEF LeakyBucketMoves
<1>4. CASE GcraMoves
    BY <1>4, GcraKeeps DEF GcraMoves, MeterStep
<1>5. CASE CGcraMoves
    BY <1>5, CGcraKeeps DEF CGcraMoves
<1>6. CASE FixedWindowMoves \/ SlidingLogMoves \/ SlidingCounterMoves \/ DualBucketMoves
    <2>1. policy \in Windows /\ policy' = policy
        BY <1>6 DEF FixedWindowMoves, SlidingLogMoves, SlidingCounterMoves, DualBucketMoves, Windows
    <2>2. QED
        BY <2>1 DEF LedgerSound, Windows, Meters
<1>7. CASE UNCHANGED vars
    <2>1. /\ policy' = policy /\ buckets' = buckets /\ tat' = tat /\ taken' = taken
          /\ now' = now /\ reply' = reply /\ since' = since /\ spent' = spent
        BY <1>7 DEF vars, windowVars, harnessVars
    <2>2. Debt' = Debt /\ Tracked' = Tracked
        BY <1>7 DEF Debt, Tracked, vars, windowVars, harnessVars, TB!DebtMap, TB!Debt, TB!Owed,
                    LB!DebtMap, LB!Owed, GCRA!DebtMap, GCRA!TatOf, GCRA!Scaled
    <2>3. (HarnessTypeOK' <=> HarnessTypeOK) /\ (LeakyLedgers' <=> LeakyLedgers)
        BY <2>1 DEF HarnessTypeOK, LeakyLedgers, LB!Ledger
    <2>4. TB!BucketsOK' <=> TB!BucketsOK
        BY <2>1 DEF TB!BucketsOK, TB!Ledger
    <2>5. GCRA!TatsOK' <=> GCRA!TatsOK
        BY <2>1 DEF GCRA!TatsOK, GCRA!Scaled
    <2>6. LedgerSound'
        BY <2>1, <2>2, <2>3, <2>4, <2>5, SameHarness, SameHarnessNext
        DEF LedgerSound, TB!TypeOK, GCRA!TypeOK
    <2>7. UNCHANGED M!meterVars
        BY <2>1, <2>2 DEF M!meterVars, M!harnessVars
    <2>8. QED
        BY <2>1, <2>6, <2>7
<1>8. QED
    BY <1>1, <1>2, <1>3, <1>4, <1>5, <1>6, <1>7 DEF Next

(* What a sound ledger says is owed is a debt of the meter.                *)
LEMMA LedgerShowsDebt ==
    ASSUME LedgerSound, policy \in Meters
    PROVE  M!TypeOK
<1>1. CASE policy \in {"token_bucket", "c_token_bucket"}
    <2>1. TB!TypeOK /\ Debt = TB!DebtMap
        BY <1>1, WhoseDebt DEF LedgerSound
    <2>2. \A k \in Keys : TB!Debt(k) \in 0..(Burst * Unit)
        BY <2>1, TB!BucketForOwesDebt, HarnessAssumption, BucketAssumption DEF TB!Unit, Unit
    <2>3. QED
        BY <2>1, <2>2, SameHarness DEF TB!TypeOK, TB!DebtMap, M!TypeOK, M!Unit, Unit
<1>2. CASE policy = "leaky_bucket"
    <2>1. MIRROR!TypeOK /\ Debt = MIRROR!DebtMap
        BY <1>2, WhoseDebt, MirrorIsSound DEF LedgerSound
    <2>2. \A k \in Keys : MIRROR!Debt(k) \in 0..(Burst * Unit)
        BY <2>1, MIRROR!BucketForOwesDebt, HarnessAssumption, BucketAssumption DEF MIRROR!Unit, Unit
    <2>3. QED
        BY <2>1, <2>2, SameHarness DEF MIRROR!TypeOK, MIRROR!DebtMap, M!TypeOK, M!Unit, Unit
<1>3. CASE policy \in {"gcra", "c_gcra"}
    <2>1. GCRA!TypeOK /\ Debt = GCRA!DebtMap
        BY <1>3, WhoseDebt DEF LedgerSound
    <2>2. \A k \in Keys : GCRA!DebtMap[k] \in 0..(Burst * Unit)
        BY <2>1, GCRA!ScheduleBounded, HarnessAssumption, BucketAssumption, TableAssumption
        DEF GCRA!Unit, Unit
    <2>3. QED
        BY <2>1, <2>2, SameHarness DEF GCRA!TypeOK, GCRA!DebtMap, M!TypeOK, M!Unit, Unit
<1>4. QED
    BY <1>1, <1>2, <1>3 DEF Meters

(* A step at the table spends nothing and pays nothing back, so what the   *)
(* meter's steps keep is kept by every step.                               *)
LEMMA SpentStays ==
    ASSUME FillTimeFits, LedgerSound, policy \in Meters, M!SpentIsOwedOrPaid, [Next]_vars
    PROVE  M!SpentIsOwedOrPaid'
<1>1. M!TypeOK /\ [MeterStep]_(M!meterVars)
    BY LedgerShowsDebt, LedgerStep
<1>2. CASE [M!Next]_(M!meterVars)
    BY <1>1, <1>2, M!SpentStep, HarnessAssumption, BucketAssumption
<1>3. CASE AtTheTable(Tracked) /\ UNCHANGED Debt
    <2>1. HarnessTypeOK
        BY <1>1, SameHarness DEF M!TypeOK
    <2>2. now' = now /\ since' = since /\ spent' = spent /\ Debt' = Debt
        BY <1>3, <2>1, TableStepIsTyped
    <2>3. QED
        BY <2>2 DEF M!SpentIsOwedOrPaid
<1>4. QED
    BY <1>1, <1>2, <1>3 DEF MeterStep

(* Every policy starts with nobody owing anything.                         *)
LEMMA InitIsSound ==
    ASSUME Init
    PROVE  LedgerSound /\ M!Init /\ M!SpentIsOwedOrPaid
<1>1. TB!Init /\ LB!Init /\ GCRA!Init /\ GCRA!TableInit
    BY DEF Init, GCRA!PortInit
<1>2. TB!TypeOK /\ TB!M!Init
    BY <1>1, TB!InitIsMeterInit, HarnessAssumption, BucketAssumption
<1>3. GCRA!TypeOK /\ GCRA!M!Init
    BY <1>1, GCRA!InitIsMeterInit, HarnessAssumption, BucketAssumption, TableAssumption
<1>4. DOMAIN buckets = {} /\ buckets = [k \in DOMAIN buckets |-> buckets[k]]
    BY <1>1 DEF LB!Init
<1>5. DOMAIN tat = {} /\ taken = 0
    BY <1>1 DEF GCRA!Init, GCRA!TableInit
<1>6. HarnessTypeOK /\ LeakyLedgers
    BY <1>2, <1>4, SameHarness DEF TB!TypeOK, LeakyLedgers
<1>7. Slots({}, 0)
    BY FS_EmptySet, TableAssumption DEF Slots
<1>8. LedgerSound
    BY <1>2, <1>3, <1>4, <1>5, <1>6, <1>7, WhoseDebt DEF LedgerSound
<1>9. Debt = [k \in Keys |-> 0]
    <2>1. TB!DebtMap = [k \in Keys |-> 0]
        BY <1>4 DEF TB!DebtMap, TB!Debt
    <2>2. LB!DebtMap = [k \in Keys |-> 0]
        BY <1>4 DEF LB!DebtMap
    <2>3. GCRA!DebtMap = [k \in Keys |-> 0]
        BY <1>3 DEF GCRA!M!Init
    <2>4. QED
        BY <2>1, <2>2, <2>3 DEF Debt
<1>10. M!HarnessInit
    BY <1>1 DEF TB!Init, TB!HarnessInit, M!HarnessInit
<1>11. M!Init
    BY <1>9, <1>10 DEF M!Init
<1>12. M!SpentIsOwedOrPaid
    <2> SUFFICES ASSUME NEW k \in Keys
                 PROVE  spent[k] * M!Unit <= Debt[k] + Rate * (now - since)
        BY DEF M!SpentIsOwedOrPaid
    <2>1. spent[k] = 0 /\ Debt[k] = 0 /\ now = 0 /\ since = 0
        BY <1>9, <1>10 DEF M!HarnessInit
    <2>2. Rate * (now - since) = 0
        BY <2>1, BucketAssumption
    <2>3. QED
        BY <2>1, <2>2 DEF M!Unit
<1>13. QED
    BY <1>8, <1>11, <1>12

(* The whole tokens that a credit and a span of time make together.        *)
WholeTokens(credit, elapsed) == (credit + Rate * elapsed) \div 1000

(* A full fill time fills the bucket, whatever it held.                    *)
LEMMA FillTimeFills ==
    ASSUME NEW c \in 0..999, NEW d \in Nat, d >= MsToAccrue(Burst * Unit)
    PROVE  WholeTokens(c, d) \in Nat /\ WholeTokens(c, d) >= Burst
<1> DEFINE f == MsToAccrue(Burst * Unit)
           x == Rate * d
<1>1. Burst * Unit \in Nat \ {0}
    BY BucketAssumption DEF Unit
<1>2. f = TB!MsToAccrue(Burst * Unit)
    BY DEF MsToAccrue, TB!MsToAccrue
<1>3. f \in Nat /\ Rate * f >= Burst * Unit
    BY <1>1, <1>2, TB!AccrualTime, HarnessAssumption, BucketAssumption
<1>4. f <= d
    OBVIOUS
<1> HIDE DEF f
<1>5. Rate * f <= Rate * d
    BY <1>3, <1>4, TB!RateMonotone, HarnessAssumption, BucketAssumption
<1>6. x \in Nat /\ Rate * f \in Nat
    BY <1>3, BucketAssumption
<1>7. x >= Burst * 1000
    BY <1>1, <1>3, <1>5, <1>6 DEF Unit
<1> HIDE DEF x
<1>8. (c + x) \div 1000 \in Nat /\ (c + x) \div 1000 >= Burst
    BY <1>6, <1>7, BucketAssumption
<1>9. QED
    BY <1>8 DEF x, WholeTokens

-----------------------------------------------------------------------------
(* Every meter's ledger stays well formed, and no table overflows.         *)
THEOREM LedgersStaySound == FillTimeFits => (Spec => []LedgerSound)
<1> SUFFICES ASSUME FillTimeFits
             PROVE  Spec => []LedgerSound
    OBVIOUS
<1>1. LedgerSound /\ [Next]_vars => LedgerSound'
    BY LedgerStep
<1>2. QED
    BY <1>1, InitIsSound, PTL DEF Spec

(* Three ledgers, five implementations, one promise: whichever policy the  *)
(* factory built makes exactly the meter's decisions and gives exactly its *)
(* waits and balances, for every key it tracks.                            *)
THEOREM LimitersImplementMeter == FillTimeFits => (Spec => ImplementsMeter)
<1> SUFFICES ASSUME FillTimeFits
             PROVE  Spec => ImplementsMeter
    OBVIOUS
<1>1. Init => M!Init
    BY InitIsSound
<1>2. LedgerSound /\ [Next]_vars => ((policy \in Meters) => [MeterStep]_(M!meterVars))
    BY LedgerStep
<1>3. QED
    BY <1>1, <1>2, LedgersStaySound, PTL DEF Spec, ImplementsMeter

(* No key is ever admitted more than one burst and what the rate pays back *)
(* over the time measured, wherever the measurement starts, also with a    *)
(* full table and with keys turned away from it.                           *)
THEOREM LimitersKeepCeiling == FillTimeFits => (Spec => []RateCeiling)
<1> SUFFICES ASSUME FillTimeFits
             PROVE  Spec => []RateCeiling
    OBVIOUS
<1> DEFINE Covered == policy \in Meters => M!SpentIsOwedOrPaid
<1>1. Init => Covered
    BY InitIsSound
<1>2. LedgerSound /\ Covered /\ [Next]_vars => Covered'
    BY LedgerStep, SpentStays
<1>3. LedgerSound /\ Covered => RateCeiling
    <2> SUFFICES ASSUME LedgerSound, M!SpentIsOwedOrPaid, policy \in Meters, NEW k \in Keys
                 PROVE  spent[k] * Unit <= Burst * Unit + Rate * (now - since)
        BY DEF RateCeiling, TB!RateCeiling, TB!Unit, Unit
    <2>1. M!TypeOK
        BY LedgerShowsDebt
    <2>2. Debt[k] \in Nat /\ Debt[k] <= Burst * 1000 /\ spent[k] \in Nat
        BY <2>1, BucketAssumption DEF M!TypeOK, M!HarnessTypeOK, M!Unit
    <2>3. Rate * (now - since) \in Int
        BY <2>1, BucketAssumption, HarnessAssumption DEF M!TypeOK, M!HarnessTypeOK
    <2>4. spent[k] * 1000 <= Debt[k] + Rate * (now - since)
        BY DEF M!SpentIsOwedOrPaid, M!Unit
    <2>5. QED
        BY <2>2, <2>3, <2>4, BucketAssumption DEF Unit
<1> HIDE DEF Covered
<1>4. QED
    BY <1>1, <1>2, <1>3, LedgersStaySound, PTL DEF Spec

(* "The result is identical either way": a clamp to a fill time that was   *)
(* stored as it is never changes a refill or a drain.                      *)
THEOREM ClampStaysInvisible == FillTimeFits => (Spec => []ClampIsInvisible)
<1> SUFFICES ASSUME FillTimeFits
             PROVE  Spec => []ClampIsInvisible
    OBVIOUS
<1> DEFINE full == MsToAccrue(Burst * Unit)
<1>1. full \in Nat
    <2>1. Burst * Unit + Rate - 1 \in Nat
        BY BucketAssumption DEF Unit
    <2>2. QED
        BY <2>1, BucketAssumption DEF MsToAccrue
<1>2. ASSUME LedgerSound, policy = "c_token_bucket", NEW k \in DOMAIN buckets, now > buckets[k].last
      PROVE  CTB!Refill(buckets[k], now) = CTB!Accrue(buckets[k], now - buckets[k].last, now)
    <2> DEFINE b == buckets[k]
               d == now - b.last
    <2>1. TB!Ledger(b, now) /\ now \in 0..MaxTime
        BY <1>2 DEF LedgerSound, TB!TypeOK, TB!HarnessTypeOK, TB!BucketsOK
    <2>2. /\ b.tokens \in Nat /\ b.credit \in 0..999 /\ b.last \in Nat /\ b.last <= now
          /\ now \in Nat /\ d \in Nat
        BY <2>1, HarnessAssumption, BucketAssumption DEF TB!Ledger, TB!Bucket, TB!Unit
    <2>3. CTB!FillMs = full
        BY FillTimeIsStored DEF CTB!FillMs, CTB!MsToAccrue, MsToAccrue, CTB!Unit, Unit
    <2>4. ~ (now <= b.last)
        BY <1>2, <2>2
    <2>5. CTB!Refill(b, now) = CTB!Accrue(b, IF d > full THEN full ELSE d, now)
        BY <2>3, <2>4 DEF CTB!Refill
    <2>6. CASE ~ (d > full)
        BY <2>5, <2>6
    <2>7. CASE d > full
        <3>1. full >= full /\ d >= full
            BY <1>1, <2>2, <2>7
        <3>2. ASSUME NEW e \in Nat, e >= full
              PROVE  CTB!Accrue(b, e, now) = [tokens |-> Burst, credit |-> 0, last |-> now]
            <4> HIDE DEF full, b, d
            <4> DEFINE q == WholeTokens(b.credit, e)
            <4>1. q \in Nat /\ q >= Burst
                <5>1. e >= MsToAccrue(Burst * Unit)
                    BY <3>2 DEF full
                <5>2. QED
                    BY <2>2, <3>2, <5>1, FillTimeFills, ZenonT(30)
            <4>2. CTB!Accrue(b, e, now) =
                    IF b.tokens + q >= Burst
                    THEN [tokens |-> Burst, credit |-> 0, last |-> now]
                    ELSE [tokens |-> b.tokens + q, credit |-> (b.credit + Rate * e) % 1000, last |-> now]
                BY DEF CTB!Accrue, CTB!Unit, WholeTokens
            <4> HIDE DEF q
            <4>3. b.tokens + q >= Burst
                BY <2>2, <4>1, BucketAssumption
            <4>4. QED
                BY <4>2, <4>3
        <3> HIDE DEF full, d
        <3>3. CTB!Accrue(b, full, now) = CTB!Accrue(b, d, now)
            BY <1>1, <2>2, <3>1, <3>2
        <3>4. QED
            BY <2>5, <2>7, <3>3 DEF d
    <2>8. QED
        BY <2>6, <2>7
<1>3. ASSUME LedgerSound, policy = "leaky_bucket", NEW k \in DOMAIN buckets,
             now - buckets[k].last > LB!DrainMs
      PROVE  LB!Drain(buckets[k], now).level = 0
    <2> DEFINE b == buckets[k]
    <2>1. LB!Ledger(b, now) /\ now \in 0..MaxTime
        BY <1>3 DEF LedgerSound, HarnessTypeOK, LeakyLedgers
    <2>2. LB!DrainMs = full
        BY FillTimeIsStored DEF LB!DrainMs, LB!MsToAccrue, MsToAccrue, LB!Unit, Unit
    <2> HIDE DEF b
    <2>3. /\ b.level \in Nat /\ b.level <= Burst /\ b.credit \in 0..999
          /\ b.last \in Nat /\ b.last <= now /\ now \in Nat
        BY <2>1, HarnessAssumption, BucketAssumption DEF LB!Ledger, LB!Bucket, LB!Unit
    <2>4. LB!ClampedElapsed(b, now) = full /\ ~ (now <= b.last)
        BY <1>1, <1>3, <2>2, <2>3 DEF LB!ClampedElapsed, b
    <2>5. LB!Leaked(b, now) = WholeTokens(b.credit, full)
        BY <2>4 DEF LB!Leaked, LB!Unit, WholeTokens
    <2> HIDE DEF full
    <2>6. full >= MsToAccrue(Burst * Unit)
        BY <1>1 DEF full
    <2>7. LB!Leaked(b, now) >= b.level
        <3>1. LB!Leaked(b, now) \in Nat /\ LB!Leaked(b, now) >= Burst
            BY <1>1, <2>3, <2>5, <2>6, FillTimeFills, ZenonT(30)
        <3>2. QED
            BY <2>3, <3>1, BucketAssumption
    <2>8. LB!Drain(b, now).level = 0
        BY <2>4, <2>7 DEF LB!Drain
    <2>9. QED
        BY <2>8 DEF b
<1>4. LedgerSound => ClampIsInvisible
    BY <1>2, <1>3 DEF ClampIsInvisible, CTB!ClampIsInvisible, LB!ClampIsInvisible
<1>5. QED
    BY <1>4, LedgersStaySound, PTL

-----------------------------------------------------------------------------
(* The history of admissions, and aligned windows.                         *)

(* What a key was admitted by some instant never shrinks as instants go    *)
(* by, and nothing is known of the future.                                 *)
History ==
    /\ HarnessTypeOK
    /\ admitted \in [Keys -> [0..MaxTime -> Nat]]
    /\ \A k \in Keys : \A s, t \in 0..MaxTime : s <= t => admitted[k][s] <= admitted[k][t]
    /\ \A k \in Keys : \A t \in now..MaxTime : admitted[k][t] = admitted[k][now]

(* The same of every instant there is.                                     *)
LEMMA HistoryIs ==
    ASSUME History, NEW k \in Keys
    PROVE  /\ now \in Nat
           /\ \A t \in Int : AdmittedBy(k, t) \in Nat
           /\ \A t \in Int : t < 0 => AdmittedBy(k, t) = 0
           /\ \A s, t \in Int : s <= t => AdmittedBy(k, s) <= AdmittedBy(k, t)
           /\ \A t \in Int : t >= now => AdmittedBy(k, t) = AdmittedBy(k, now)
<1>1. now \in 0..MaxTime /\ MaxTime \in Nat
    BY HarnessAssumption DEF History, HarnessTypeOK
<1>2. /\ admitted[k] \in [0..MaxTime -> Nat]
      /\ \A s, t \in 0..MaxTime : s <= t => admitted[k][s] <= admitted[k][t]
      /\ \A t \in now..MaxTime : admitted[k][t] = admitted[k][now]
    BY DEF History
<1>3. \A t \in Int : AdmittedBy(k, t) \in Nat
    BY <1>1, <1>2 DEF AdmittedBy
<1>4. \A t \in Int : t < 0 => AdmittedBy(k, t) = 0
    BY DEF AdmittedBy
<1>5. \A s, t \in Int : s <= t => AdmittedBy(k, s) <= AdmittedBy(k, t)
    BY <1>1, <1>2, <1>3 DEF AdmittedBy
<1>6. \A t \in Int : t >= now => AdmittedBy(k, t) = AdmittedBy(k, now)
    BY <1>1, <1>2 DEF AdmittedBy
<1>7. QED
    BY <1>1, <1>3, <1>4, <1>5, <1>6

(* Time passes: nothing that was admitted changes.                         *)
LEMMA ElapseKeepsHistory ==
    ASSUME History, NEW t \in Later, Elapse(t)
    PROVE  /\ History'
           /\ now' = t /\ t \in Nat /\ t > now
           /\ \A k \in Keys : \A s \in Int : AdmittedBy(k, s)' = AdmittedBy(k, s)
           /\ \A k \in Keys : AdmittedBy(k, now)' = AdmittedBy(k, now)
<1>1. HarnessTypeOK' /\ now' = t /\ admitted' = admitted
    BY ClockAdvances DEF History, Elapse, AdvanceClock
<1>2. now \in Nat /\ t \in Nat /\ t > now /\ t <= MaxTime /\ MaxTime \in Nat
    BY LaterIsLater, HarnessAssumption DEF History
<1>3. \A k \in Keys : \A s \in t..MaxTime : admitted[k][s] = admitted[k][t]
    <2> SUFFICES ASSUME NEW k \in Keys, NEW s \in t..MaxTime
                 PROVE  admitted[k][s] = admitted[k][t]
        OBVIOUS
    <2>1. s \in now..MaxTime /\ t \in now..MaxTime
        BY <1>2
    <2>2. QED
        BY <2>1 DEF History
<1>4. History'
    BY <1>1, <1>3 DEF History
<1>5. \A k \in Keys : \A s \in Int : AdmittedBy(k, s)' = AdmittedBy(k, s)
    BY <1>1 DEF AdmittedBy
<1>6. \A k \in Keys : AdmittedBy(k, now)' = AdmittedBy(k, t)'
    BY <1>1 DEF AdmittedBy
<1>7. \A k \in Keys : AdmittedBy(k, now)' = AdmittedBy(k, now)
    BY <1>2, <1>5, <1>6, HistoryIs
<1>8. QED
    BY <1>1, <1>2, <1>4, <1>5, <1>7

(* An admission counts from now on, and only for its key.                  *)
LEMMA DecideKeepsHistory ==
    ASSUME History, NEW k \in Keys, NEW cost \in Costs, NEW ok \in BOOLEAN, Decide(k, cost, ok)
    PROVE  /\ History'
           /\ now' = now /\ cost \in Nat
           /\ \A x \in Keys : \A s \in Int :
                 AdmittedBy(x, s)' =
                    IF ok /\ x = k /\ s >= now THEN AdmittedBy(x, s) + cost ELSE AdmittedBy(x, s)
           /\ \A x \in Keys : AdmittedBy(x, now)' =
                    IF ok /\ x = k THEN AdmittedBy(x, now) + cost ELSE AdmittedBy(x, now)
<1>1. HarnessTypeOK' /\ now' = now /\ cost \in Nat
    BY AllowKeepsType, HarnessAssumption DEF History, Decide, AnswerAllow
<1>2. now \in 0..MaxTime /\ MaxTime \in Nat
    BY HarnessAssumption DEF History, HarnessTypeOK
<1> SUFFICES /\ History'
             /\ \A x \in Keys : \A s \in Int :
                    AdmittedBy(x, s)' =
                       IF ok /\ x = k /\ s >= now THEN AdmittedBy(x, s) + cost ELSE AdmittedBy(x, s)
    BY <1>1, <1>2 DEF AdmittedBy
<1>3. CASE ~ ok
    <2>1. admitted' = admitted
        BY <1>3 DEF Decide
    <2>2. QED
        BY <1>1, <1>3, <2>1 DEF History, AdmittedBy
<1>4. CASE ok
    <2> DEFINE row == [t \in 0..MaxTime |-> IF t < now THEN admitted[k][t] ELSE admitted[k][t] + cost]
    <2>1. admitted' = [admitted EXCEPT ![k] = row]
        BY <1>4 DEF Decide
    <2>2. admitted \in [Keys -> [0..MaxTime -> Nat]]
        BY DEF History
    <2>3. row \in [0..MaxTime -> Nat]
        <3>1. \A t \in 0..MaxTime : admitted[k][t] \in Nat
            BY <2>2
        <3>2. QED
            BY <1>1, <3>1
    <2>4. \A t \in 0..MaxTime :
              row[t] = IF t < now THEN admitted[k][t] ELSE admitted[k][t] + cost
        OBVIOUS
    <2> HIDE DEF row
    <2>5. admitted' \in [Keys -> [0..MaxTime -> Nat]]
        BY <2>1, <2>2, <2>3
    <2>6. \A x \in Keys : admitted'[x] = IF x = k THEN row ELSE admitted[x]
        BY <2>1, <2>2
    <2>7. \A s, t \in 0..MaxTime : s <= t => row[s] <= row[t]
        <3> SUFFICES ASSUME NEW s \in 0..MaxTime, NEW t \in 0..MaxTime, s <= t
                     PROVE  row[s] <= row[t]
            OBVIOUS
        <3>1. admitted[k][s] \in Nat /\ admitted[k][t] \in Nat /\ admitted[k][s] <= admitted[k][t]
            BY <2>2 DEF History
        <3>2. QED
            BY <1>1, <1>2, <2>4, <3>1
    <2>8. \A t \in now..MaxTime : row[t] = row[now]
        <3> SUFFICES ASSUME NEW t \in now..MaxTime
                     PROVE  row[t] = row[now]
            OBVIOUS
        <3>1. admitted[k][t] = admitted[k][now] /\ t \in 0..MaxTime /\ t >= now
            BY <1>2 DEF History
        <3>2. QED
            BY <1>2, <2>4, <3>1
    <2>9. History'
        <3>1. \A x \in Keys : \A s, t \in 0..MaxTime : s <= t => admitted'[x][s] <= admitted'[x][t]
            BY <2>6, <2>7 DEF History
        <3>2. \A x \in Keys : \A t \in now..MaxTime : admitted'[x][t] = admitted'[x][now]
            BY <2>6, <2>8 DEF History
        <3>3. QED
            BY <1>1, <2>5, <3>1, <3>2 DEF History
    <2>10. ASSUME NEW x \in Keys, NEW s \in Int
           PROVE  AdmittedBy(x, s)' =
                    IF x = k /\ s >= now THEN AdmittedBy(x, s) + cost ELSE AdmittedBy(x, s)
        <3>1. CASE x # k
            BY <2>6, <3>1 DEF AdmittedBy
        <3>2. CASE x = k
            <4> DEFINE u == IF s < MaxTime THEN s ELSE MaxTime
            <4>1. CASE s < 0
                BY <1>2, <4>1 DEF AdmittedBy
            <4>2. CASE s >= 0
                <5>1. u \in 0..MaxTime /\ (u < now <=> s < now)
                    BY <1>2, <4>2
                <5>2. AdmittedBy(x, s) = admitted[k][u] /\ AdmittedBy(x, s)' = row[u]
                    BY <2>6, <3>2, <4>2 DEF AdmittedBy
                <5>3. QED
                    BY <1>2, <2>4, <3>2, <5>1, <5>2
            <4>3. QED
                BY <4>1, <4>2
        <3>3. QED
            BY <3>1, <3>2
    <2>11. QED
        BY <1>1, <1>4, <2>9, <2>10
<1>5. QED
    BY <1>3, <1>4

(* No other call admits anything.                                          *)
LEMMA OthersKeepHistory ==
    ASSUME History, HarnessTypeOK', UNCHANGED <<now, admitted>>
    PROVE  /\ History'
           /\ \A k \in Keys : \A s \in Int : AdmittedBy(k, s)' = AdmittedBy(k, s)
           /\ \A k \in Keys : AdmittedBy(k, now)' = AdmittedBy(k, now)
BY DEF History, AdmittedBy

(* Where windows start.                                                    *)
LEMMA WindowIs ==
    ASSUME NEW t \in Nat
    PROVE  /\ WindowMs \in Nat /\ WindowMs > 0 /\ Limit \in Nat /\ Limit > 0
           /\ WindowOf(t) \in Nat /\ t \div WindowMs \in Nat
           /\ WindowOf(t) <= t /\ t < WindowOf(t) + WindowMs
           /\ WindowOf(t) = WindowMs * (t \div WindowMs)
<1>1. WindowMs \in Nat /\ WindowMs > 0 /\ Limit \in Nat /\ Limit > 0
    BY WindowAssumption
<1>2. /\ t \div WindowMs \in Nat /\ t % WindowMs \in Nat /\ t % WindowMs < WindowMs
      /\ t = WindowMs * (t \div WindowMs) + (t % WindowMs)
    BY <1>1
<1>3. WindowMs * (t \div WindowMs) \in Nat
    BY <1>1, <1>2
<1>4. QED
    BY <1>1, <1>2, <1>3 DEF WindowOf

(* Of two instants, the later is in the same window or in a later one.     *)
LEMMA WindowsInOrder ==
    ASSUME NEW s \in Nat, NEW t \in Nat, s <= t
    PROVE  /\ s \div WindowMs <= t \div WindowMs
           /\ s \div WindowMs = t \div WindowMs => WindowOf(s) = WindowOf(t)
           /\ s \div WindowMs < t \div WindowMs => WindowOf(s) + WindowMs <= WindowOf(t)
<1> DEFINE i == s \div WindowMs
           j == t \div WindowMs
<1>1. /\ WindowMs \in Nat /\ WindowMs > 0 /\ i \in Nat /\ j \in Nat
      /\ WindowOf(s) = WindowMs * i /\ WindowOf(t) = WindowMs * j
      /\ WindowOf(s) \in Nat /\ WindowOf(t) \in Nat
      /\ WindowOf(s) <= s /\ t < WindowOf(t) + WindowMs
    BY WindowIs
<1> HIDE DEF i, j
<1>2. i <= j
    <2> SUFFICES ASSUME i > j
                 PROVE  FALSE
        BY <1>1
    <2>1. i = j + 1 + (i - j - 1) /\ i - j - 1 \in Nat
        BY <1>1
    <2>2. WindowMs * i = WindowMs * j + WindowMs + WindowMs * (i - j - 1)
        BY <1>1, <2>1
    <2>3. WindowMs * (i - j - 1) \in Nat
        BY <1>1, <2>1
    <2>4. QED
        BY <1>1, <2>2, <2>3
<1>3. ASSUME i < j
      PROVE  WindowOf(s) + WindowMs <= WindowOf(t)
    <2>1. j - i - 1 \in Nat
        BY <1>1, <1>3
    <2>2. WindowMs * j = WindowMs * i + WindowMs + WindowMs * (j - i - 1)
        BY <1>1
    <2>3. WindowMs * (j - i - 1) \in Nat
        BY <1>1, <2>1
    <2>4. QED
        BY <1>1, <2>2, <2>3
<1>4. QED
    BY <1>1, <1>2, <1>3 DEF i, j

(* A window has the number of the instants in it.                          *)
LEMMA WindowNumber ==
    ASSUME NEW n \in Nat, NEW t \in Nat, WindowMs * n <= t, t < WindowMs * n + WindowMs
    PROVE  t \div WindowMs = n
<1>1. WindowMs \in Nat /\ WindowMs > 0
    BY WindowAssumption
<1>2. WindowMs * n \in Nat
    BY <1>1
<1>3. QED
    BY <1>1, <1>2

-----------------------------------------------------------------------------
(* The fixed window.                                                       *)

(* What this instance shares with the harness is the harness's.            *)
LEMMA SameFixed ==
    /\ \A S : FIXED!TableFull(S) = TableFull(S) /\ FIXED!WaitUntracked(S) = WaitUntracked(S)
    /\ \A k, S : FIXED!HasRoom(k, S) = HasRoom(k, S)
    /\ \A t : FIXED!WindowOf(t) = WindowOf(t)
    /\ \A k, s, t : FIXED!AdmittedIn(k, s, t) = AdmittedIn(k, s, t)
<1>1. \A S : FIXED!TableFull(S) = TableFull(S)
    <2> SUFFICES ASSUME NEW S PROVE FIXED!TableFull(S) = TableFull(S)
        OBVIOUS
    <2>1. FIXED!Cardinality(S) = Cardinality(S)
        BY Zenon DEF FIXED!Cardinality, Cardinality
    <2>2. QED
        BY <2>1 DEF FIXED!TableFull, TableFull
<1>2. \A S : FIXED!WaitUntracked(S) = WaitUntracked(S)
    BY <1>1 DEF FIXED!WaitUntracked, WaitUntracked, FIXED!Unknown, Unknown
<1>3. \A k, S : FIXED!HasRoom(k, S) = HasRoom(k, S)
    BY <1>1 DEF FIXED!HasRoom, HasRoom
<1>4. \A t : FIXED!WindowOf(t) = WindowOf(t)
    BY DEF FIXED!WindowOf, WindowOf
<1>5. \A k, s, t : FIXED!AdmittedIn(k, s, t) = AdmittedIn(k, s, t)
    BY DEF FIXED!AdmittedIn, AdmittedIn, FIXED!AdmittedBy, AdmittedBy
<1>6. QED
    BY <1>1, <1>2, <1>3, <1>4, <1>5

(* A counter holds what its window let through, and nothing was let        *)
(* through since.                                                          *)
CountsItsWindow(k, b) ==
    /\ b \in [windowStart : Nat, count : 0..Limit]
    /\ b.windowStart <= now /\ WindowOf(b.windowStart) = b.windowStart
    /\ b.count = AdmittedBy(k, b.windowStart + WindowMs - 1) - AdmittedBy(k, b.windowStart - 1)
    /\ AdmittedBy(k, now) = AdmittedBy(k, b.windowStart + WindowMs - 1)

FixedCounts ==
    /\ DOMAIN buckets \subseteq Keys
    /\ \A k \in Keys \ DOMAIN buckets : AdmittedBy(k, now) = 0
    /\ \A k \in DOMAIN buckets : CountsItsWindow(k, buckets[k])

(* The counter a request is charged to holds what this window let through. *)
LEMMA ChargedCounter ==
    ASSUME History, FixedCounts, NEW k \in Keys
    PROVE  LET b == FIXED!BucketAt(k, now)
           IN  /\ b.windowStart = WindowOf(now)
               /\ b.count = AdmittedBy(k, now) - AdmittedBy(k, WindowOf(now) - 1)
               /\ CountsItsWindow(k, b)
<1> DEFINE b == FIXED!BucketAt(k, now)
           w == WindowOf(now)
<1>1. /\ now \in Nat /\ w \in Nat /\ w <= now /\ now < w + WindowMs
      /\ WindowMs \in Nat /\ WindowMs > 0 /\ Limit \in Nat
      /\ w = WindowMs * (now \div WindowMs) /\ now \div WindowMs \in Nat
    BY HistoryIs, WindowIs
<1>2. WindowOf(w) = w
    <2>1. w \div WindowMs = now \div WindowMs
        BY <1>1, WindowNumber
    <2>2. QED
        BY <1>1, <2>1, WindowIs
<1>3. /\ \A t \in Int : AdmittedBy(k, t) \in Nat
      /\ \A s, t \in Int : s <= t => AdmittedBy(k, s) <= AdmittedBy(k, t)
      /\ AdmittedBy(k, now) = AdmittedBy(k, w + WindowMs - 1)
    BY <1>1, HistoryIs
<1>4. b = IF k \in DOMAIN buckets /\ buckets[k].windowStart = w
          THEN buckets[k] ELSE [windowStart |-> w, count |-> 0]
    BY SameFixed DEF FIXED!BucketAt
<1> HIDE DEF b, w
<1>5. CASE k \in DOMAIN buckets /\ buckets[k].windowStart = w
    BY <1>3, <1>4, <1>5 DEF FixedCounts, CountsItsWindow, b, w
<1>6. CASE ~(k \in DOMAIN buckets /\ buckets[k].windowStart = w)
    <2>1. AdmittedBy(k, w - 1) = AdmittedBy(k, now)
        <3>1. CASE k \notin DOMAIN buckets
            <4>1. AdmittedBy(k, now) = 0
                BY <3>1 DEF FixedCounts
            <4>2. AdmittedBy(k, w - 1) \in Nat /\ AdmittedBy(k, w - 1) <= AdmittedBy(k, now)
                BY <1>1, <1>3
            <4>3. QED
                BY <4>1, <4>2
        <3>2. CASE k \in DOMAIN buckets
            <4> DEFINE s == buckets[k].windowStart
            <4>1. /\ s \in Nat /\ s <= now /\ WindowOf(s) = s /\ s # w
                  /\ AdmittedBy(k, now) = AdmittedBy(k, s + WindowMs - 1)
                BY <1>6, <3>2 DEF FixedCounts, CountsItsWindow
            <4> HIDE DEF s
            <4>2. s + WindowMs <= w
                BY <1>1, <4>1, WindowsInOrder DEF w
            <4>3. AdmittedBy(k, s + WindowMs - 1) <= AdmittedBy(k, w - 1)
                BY <1>1, <1>3, <4>1, <4>2
            <4>4. AdmittedBy(k, w - 1) <= AdmittedBy(k, now)
                BY <1>1, <1>3
            <4>5. AdmittedBy(k, w - 1) \in Nat /\ AdmittedBy(k, now) \in Nat
                BY <1>1, <1>3
            <4>6. QED
                BY <4>1, <4>3, <4>4, <4>5
        <3>3. QED
            BY <3>1, <3>2
    <2>2. b.windowStart = w /\ b.count = 0 /\ b \in [windowStart : Nat, count : 0..Limit]
        BY <1>1, <1>4, <1>6
    <2>3. AdmittedBy(k, now) - AdmittedBy(k, w - 1) = 0
        BY <1>1, <1>3, <2>1
    <2>4. QED
        BY <1>1, <1>2, <1>3, <2>2, <2>3 DEF CountsItsWindow, b, w
<1>7. QED
    BY <1>5, <1>6

(* Time passes over the counters.                                          *)
LEMMA ElapseKeepsCounts ==
    ASSUME History, FixedCounts, NEW t \in Later, Elapse(t), UNCHANGED buckets
    PROVE  FixedCounts'
<1>1. /\ now' = t /\ t \in Nat /\ t > now
      /\ \A k \in Keys : \A s \in Int : AdmittedBy(k, s)' = AdmittedBy(k, s)
      /\ \A k \in Keys : AdmittedBy(k, now)' = AdmittedBy(k, now)
    BY ElapseKeepsHistory
<1>2. now \in Nat
    BY DEF History, HarnessTypeOK
<1>3. ASSUME NEW k \in DOMAIN buckets
      PROVE  CountsItsWindow(k, buckets[k])'
    <2> DEFINE b == buckets[k]
    <2>1. CountsItsWindow(k, b) /\ k \in Keys /\ b' = b
        BY <1>3 DEF FixedCounts
    <2>2. b.windowStart + WindowMs - 1 \in Int /\ b.windowStart - 1 \in Int
        BY <2>1, WindowAssumption DEF CountsItsWindow
    <2>3. b.windowStart <= now'
        BY <1>1, <1>2, <2>1 DEF CountsItsWindow
    <2>4. /\ AdmittedBy(k, b.windowStart + WindowMs - 1)' = AdmittedBy(k, b.windowStart + WindowMs - 1)
          /\ AdmittedBy(k, b.windowStart - 1)' = AdmittedBy(k, b.windowStart - 1)
        BY <1>1, <2>1, <2>2
    <2>5. QED
        BY <1>1, <2>1, <2>3, <2>4 DEF CountsItsWindow
<1>4. QED
    BY <1>1, <1>3 DEF FixedCounts

(* A request is counted where it is charged, if it is admitted.            *)
LEMMA DecideKeepsCounts ==
    ASSUME History, FixedCounts, NEW k \in Keys, NEW cost \in Costs, NEW ok \in BOOLEAN,
           Decide(k, cost, ok), NEW b,
           FIXED!Keep(k, b),
           b = IF ok THEN [FIXED!BucketAt(k, now) EXCEPT !.count = @ + cost] ELSE FIXED!BucketAt(k, now),
           ok => FIXED!BucketAt(k, now).count + cost <= Limit
    PROVE  FixedCounts'
<1> DEFINE c == FIXED!BucketAt(k, now)
<1>0. PICK w \in Int : w = WindowOf(now)
    BY HistoryIs, WindowIs
<1>1. /\ c.windowStart = w /\ CountsItsWindow(k, c)
      /\ c \in [windowStart : Nat, count : 0..Limit]
    BY <1>0, ChargedCounter DEF CountsItsWindow
<1>2. /\ now' = now /\ cost \in Nat
      /\ \A x \in Keys : \A s \in Int :
             AdmittedBy(x, s)' =
                IF ok /\ x = k /\ s >= now THEN AdmittedBy(x, s) + cost ELSE AdmittedBy(x, s)
    BY DecideKeepsHistory
<1>3. now \in Nat /\ w \in Nat /\ w <= now /\ now < w + WindowMs /\ WindowMs \in Nat /\ Limit \in Nat
    BY <1>0, HistoryIs, WindowIs
<1>4. buckets' = [x \in DOMAIN buckets \cup {k} |-> IF x = k THEN b ELSE buckets[x]]
    BY DEF FIXED!Keep
<1>5. \A x \in Keys : \A s \in Int : AdmittedBy(x, s) \in Nat
    BY HistoryIs
<1>6. \A x \in Keys : AdmittedBy(x, now)' =
            IF ok /\ x = k THEN AdmittedBy(x, now) + cost ELSE AdmittedBy(x, now)
    BY DecideKeepsHistory
<1> HIDE DEF c
<1>7. CountsItsWindow(k, b)'
    <2>1. /\ b \in [windowStart : Nat, count : 0..Limit]
          /\ b.windowStart = w
          /\ b.count = IF ok THEN c.count + cost ELSE c.count
        BY <1>1, <1>2, <1>3 DEF c
    <2>2. /\ AdmittedBy(k, w + WindowMs - 1)' =
                IF ok THEN AdmittedBy(k, w + WindowMs - 1) + cost ELSE AdmittedBy(k, w + WindowMs - 1)
          /\ AdmittedBy(k, w - 1)' = AdmittedBy(k, w - 1)
        BY <1>2, <1>3
    <2>3. /\ AdmittedBy(k, now)' = IF ok THEN AdmittedBy(k, now) + cost ELSE AdmittedBy(k, now)
          /\ AdmittedBy(k, now) = AdmittedBy(k, w + WindowMs - 1)
          /\ c.count = AdmittedBy(k, w + WindowMs - 1) - AdmittedBy(k, w - 1)
          /\ WindowOf(w) = w /\ w <= now
        BY <1>1, <1>6 DEF CountsItsWindow
    <2>4. /\ AdmittedBy(k, w + WindowMs - 1) \in Nat /\ AdmittedBy(k, w - 1) \in Nat
          /\ c.count \in Nat
        BY <1>1, <1>3, <1>5
    <2>5. b.count = AdmittedBy(k, w + WindowMs - 1)' - AdmittedBy(k, w - 1)'
        BY <1>2, <2>1, <2>2, <2>3, <2>4
    <2>6. AdmittedBy(k, now)' = AdmittedBy(k, w + WindowMs - 1)'
        BY <2>2, <2>3
    <2>7. QED
        BY <1>2, <2>1, <2>3, <2>5, <2>6 DEF CountsItsWindow
<1>8. ASSUME NEW x \in DOMAIN buckets, x # k
      PROVE  CountsItsWindow(x, buckets[x])'
    <2>1. PICK d : d = buckets[x]
        OBVIOUS
    <2>2. x \in Keys /\ CountsItsWindow(x, d) /\ buckets'[x] = d
        BY <1>4, <1>8, <2>1 DEF FixedCounts
    <2>3. d.windowStart + WindowMs - 1 \in Int /\ d.windowStart - 1 \in Int
        BY <1>3, <2>2 DEF CountsItsWindow
    <2>4. /\ AdmittedBy(x, d.windowStart + WindowMs - 1)' = AdmittedBy(x, d.windowStart + WindowMs - 1)
          /\ AdmittedBy(x, d.windowStart - 1)' = AdmittedBy(x, d.windowStart - 1)
          /\ AdmittedBy(x, now)' = AdmittedBy(x, now)
        BY <1>2, <1>6, <1>8, <2>2, <2>3
    <2>5. CountsItsWindow(x, d)'
        BY <1>2, <2>2, <2>4 DEF CountsItsWindow
    <2>6. QED
        BY <2>2, <2>5
<1>9. QED
    BY <1>4, <1>6, <1>7, <1>8 DEF FixedCounts

(* The limit of so many windows.                                           *)
Share(n) == Limit * n

(* It grows by the limit with each window.                                 *)
LEMMA ShareGrows ==
    /\ Share(0) = 0 /\ Limit \in Nat
    /\ \A n \in Int : Share(n) \in Int /\ Share(n + 1) = Share(n) + Limit
    /\ \A m, n \in Int : m <= n => Share(m) <= Share(n)
<1>1. Limit \in Nat
    BY WindowAssumption
<1>2. Share(0) = 0
    BY <1>1 DEF Share
<1>3. \A n \in Int : Share(n) \in Int /\ Share(n + 1) = Share(n) + Limit
    BY <1>1 DEF Share
<1>4. \A m, n \in Int : m <= n => Share(m) <= Share(n)
    <2> SUFFICES ASSUME NEW m \in Int, NEW n \in Int, m <= n
                 PROVE  Share(m) <= Share(n)
        OBVIOUS
    <2>1. n - m \in Nat
        OBVIOUS
    <2>2. Limit * n = Limit * m + Limit * (n - m)
        BY <1>1
    <2>3. Limit * (n - m) \in Nat /\ Limit * m \in Int
        BY <1>1, <2>1
    <2>4. QED
        BY <2>2, <2>3 DEF Share
<1>5. QED
    BY <1>1, <1>2, <1>3, <1>4

(* Any interval lets through at most the limit for each window it touches. *)
SeamHolds ==
    \A k \in Keys : \A from \in 0..now : \A to \in from..now :
        AdmittedBy(k, to) - AdmittedBy(k, from - 1)
            <= Share((to \div WindowMs) - (from \div WindowMs) + 1)

(* Windows that have begun since let nothing through yet.                  *)
LEMMA ElapseKeepsSeam ==
    ASSUME History, SeamHolds, NEW t \in Later, Elapse(t)
    PROVE  SeamHolds'
<1>1. /\ now' = t /\ t \in Nat /\ t > now /\ now \in Nat
      /\ \A k \in Keys : \A s \in Int : AdmittedBy(k, s)' = AdmittedBy(k, s)
    BY ElapseKeepsHistory DEF History, HarnessTypeOK
<1>2. SUFFICES ASSUME NEW k \in Keys, NEW from \in 0..t, NEW to \in from..t
               PROVE  AdmittedBy(k, to) - AdmittedBy(k, from - 1)
                          <= Share((to \div WindowMs) - (from \div WindowMs) + 1)
    BY <1>1 DEF SeamHolds
<1>3. from \in Nat /\ to \in Nat /\ from <= to
    OBVIOUS
<1>4. /\ to \div WindowMs \in Nat /\ from \div WindowMs \in Nat
      /\ from \div WindowMs <= to \div WindowMs
    BY <1>3, WindowIs, WindowsInOrder
<1>5. CASE to <= now
    BY <1>1, <1>3, <1>5 DEF SeamHolds
<1>6. CASE from > now
    <2>1. AdmittedBy(k, to) = AdmittedBy(k, now) /\ AdmittedBy(k, from - 1) = AdmittedBy(k, now)
        BY <1>1, <1>3, <1>6, HistoryIs
    <2>2. AdmittedBy(k, now) \in Nat
        BY <1>1, HistoryIs
    <2>3. 0 <= Share((to \div WindowMs) - (from \div WindowMs) + 1)
        BY <1>4, ShareGrows
    <2>4. QED
        BY <2>1, <2>2, <2>3
<1>7. CASE from <= now /\ to > now
    <2>1. AdmittedBy(k, to) = AdmittedBy(k, now)
        BY <1>1, <1>3, <1>7, HistoryIs
    <2>2. AdmittedBy(k, now) - AdmittedBy(k, from - 1)
              <= Share((now \div WindowMs) - (from \div WindowMs) + 1)
        BY <1>1, <1>3, <1>7 DEF SeamHolds
    <2>3. now \div WindowMs \in Nat /\ now \div WindowMs <= to \div WindowMs
        <3>1. now <= to
            BY <1>1, <1>3, <1>7
        <3>2. QED
            BY <1>1, <1>3, <3>1, WindowIs, WindowsInOrder, Zenon
    <2>4. Share((now \div WindowMs) - (from \div WindowMs) + 1)
              <= Share((to \div WindowMs) - (from \div WindowMs) + 1)
        BY <1>4, <2>3, ShareGrows
    <2>5. /\ AdmittedBy(k, now) \in Nat /\ AdmittedBy(k, from - 1) \in Nat
          /\ Share((now \div WindowMs) - (from \div WindowMs) + 1) \in Int
          /\ Share((to \div WindowMs) - (from \div WindowMs) + 1) \in Int
        <3>1. from - 1 \in Int /\ now \in Int
            BY <1>1, <1>3
        <3>2. /\ (now \div WindowMs) - (from \div WindowMs) + 1 \in Int
              /\ (to \div WindowMs) - (from \div WindowMs) + 1 \in Int
            BY <1>4, <2>3
        <3>3. QED
            BY <3>1, <3>2, HistoryIs, ShareGrows, Zenon
    <2>6. QED
        BY <2>1, <2>2, <2>4, <2>5
<1>8. QED
    BY <1>3, <1>5, <1>6, <1>7, <1>1

(* An admission that its own window has room for.                          *)
LEMMA DecideKeepsSeam ==
    ASSUME History, SeamHolds, NEW k \in Keys, NEW cost \in Costs, NEW ok \in BOOLEAN,
           Decide(k, cost, ok),
           ok => AdmittedBy(k, now) - AdmittedBy(k, WindowOf(now) - 1) + cost <= Limit
    PROVE  SeamHolds'
<1>1. PICK w \in Int : w = WindowOf(now)
    BY HistoryIs, WindowIs
<1>2. PICK n \in Nat : n = now \div WindowMs
    BY HistoryIs, WindowIs
<1>3. /\ now' = now /\ cost \in Nat /\ now \in Nat
      /\ \A x \in Keys : \A s \in Int :
             AdmittedBy(x, s)' =
                IF ok /\ x = k /\ s >= now THEN AdmittedBy(x, s) + cost ELSE AdmittedBy(x, s)
    BY DecideKeepsHistory DEF History, HarnessTypeOK
<1>4. /\ w \in Nat /\ w <= now /\ now < w + WindowMs /\ WindowMs \in Nat /\ WindowMs > 0
      /\ w = WindowMs * n
    BY <1>1, <1>2, <1>3, WindowIs
<1>5. SUFFICES ASSUME NEW x \in Keys, NEW from \in 0..now, NEW to \in from..now
               PROVE  AdmittedBy(x, to)' - AdmittedBy(x, from - 1)'
                          <= Share((to \div WindowMs) - (from \div WindowMs) + 1)
    BY <1>3 DEF SeamHolds
<1>6. /\ from \in Nat /\ to \in Nat /\ from <= to /\ to <= now
      /\ AdmittedBy(x, from - 1)' = AdmittedBy(x, from - 1)
    BY <1>3
<1>7. CASE ~(ok /\ x = k /\ to = now)
    <2>1. AdmittedBy(x, to)' = AdmittedBy(x, to)
        BY <1>3, <1>6, <1>7
    <2>2. QED
        BY <1>6, <2>1 DEF SeamHolds
<1>8. CASE ok /\ x = k /\ to = now
    <2> DEFINE m == from \div WindowMs
    <2>1. m \in Nat /\ m <= n
        <3>1. from <= now
            BY <1>3, <1>6
        <3>2. QED
            BY <1>2, <1>3, <1>6, <3>1, WindowIs, WindowsInOrder, Zenon
    <2>2. /\ AdmittedBy(x, now) \in Nat /\ AdmittedBy(x, w - 1) \in Nat
          /\ AdmittedBy(x, from - 1) \in Nat
        BY <1>4, <1>6, HistoryIs
    <2>3. AdmittedBy(x, to)' = AdmittedBy(x, now) + cost
        BY <1>3, <1>8
    <2>4. AdmittedBy(x, now) + cost <= Limit + AdmittedBy(x, w - 1)
        BY <1>1, <1>3, <1>8, <2>2, WindowAssumption
    <2>5. CASE from >= w
        <3>1. AdmittedBy(x, w - 1) <= AdmittedBy(x, from - 1)
            BY <1>4, <1>6, <2>5, HistoryIs
        <3>2. Limit <= Share(n - m + 1)
            BY <2>1, ShareGrows
        <3>3. Share(n - m + 1) \in Int /\ Limit \in Nat
            BY <2>1, ShareGrows
        <3>4. QED
            BY <1>2, <1>3, <1>6, <1>8, <2>2, <2>3, <2>4, <3>1, <3>2, <3>3
    <2>6. CASE from < w
        <3>1. w - 1 \in from..now /\ w - 1 \in Nat
            BY <1>3, <1>4, <1>6, <2>6
        <3>2. n - 1 \in Nat /\ (w - 1) \div WindowMs = n - 1
            <4>1. n > 0
                BY <1>4, <1>6, <2>6
            <4>2. n - 1 \in Nat /\ WindowMs * (n - 1) = w - WindowMs
                BY <1>4, <4>1
            <4>3. QED
                BY <1>4, <3>1, <4>2, WindowNumber
        <3>3. AdmittedBy(x, w - 1) - AdmittedBy(x, from - 1) <= Share((n - 1) - m + 1)
            BY <3>1, <3>2 DEF SeamHolds
        <3>4. Share(n - m + 1) = Share((n - 1) - m + 1) + Limit
            <4>1. (n - 1) - m + 1 \in Int /\ n - m + 1 = ((n - 1) - m + 1) + 1
                BY <2>1
            <4>2. QED
                BY <4>1, ShareGrows
        <3>5. Share((n - 1) - m + 1) \in Int /\ Limit \in Nat
            BY <2>1, ShareGrows
        <3>6. QED
            BY <1>2, <1>3, <1>6, <1>8, <2>2, <2>3, <2>4, <3>3, <3>4, <3>5
    <2>7. QED
        BY <1>4, <1>6, <2>5, <2>6
<1>9. QED
    BY <1>7, <1>8

(* What the fixed window keeps.                                            *)
FixedSound == History /\ FixedCounts /\ SeamHolds

(* A call that admits nothing.                                             *)
LEMMA AskKeepsSeam ==
    ASSUME History, SeamHolds, HarnessTypeOK', UNCHANGED <<now, admitted>>
    PROVE  SeamHolds'
BY DEF SeamHolds, AdmittedBy

(* Nor does it change what the counters stand for.                         *)
LEMMA AskKeepsCounts ==
    ASSUME FixedCounts, UNCHANGED <<now, admitted, buckets>>
    PROVE  FixedCounts'
BY DEF FixedCounts, CountsItsWindow, AdmittedBy

(* Every step of the fixed window keeps it.                                *)
LEMMA FixedStep ==
    ASSUME FixedSound, FIXED!Next
    PROVE  FixedSound'
<1> USE DEF FixedSound
<1>1. ASSUME NEW t \in Later, FIXED!Tick(t)
      PROVE  FixedSound'
    <2>1. Elapse(t) /\ UNCHANGED buckets
        BY <1>1, Zenon DEF FIXED!Tick, FIXED!Elapse, FIXED!AdvanceClock, Elapse, AdvanceClock
    <2>2. QED
        BY <2>1, ElapseKeepsHistory, ElapseKeepsCounts, ElapseKeepsSeam
<1>2. ASSUME HarnessTypeOK', UNCHANGED <<now, admitted, buckets>>
      PROVE  FixedSound'
    BY <1>2, OthersKeepHistory, AskKeepsSeam, AskKeepsCounts
<1>3. CASE FIXED!AnotherKey(DOMAIN buckets) /\ UNCHANGED <<buckets, admitted>>
    <2>1. AnotherKey(DOMAIN buckets)
        BY <1>3, SameFixed, Zenon DEF FIXED!AnotherKey, AnotherKey
    <2>2. HarnessTypeOK' /\ now' = now
        BY <2>1, TableStepIsTyped DEF History, AtTheTable
    <2>3. QED
        BY <1>2, <1>3, <2>2
<1>4. ASSUME NEW k \in Keys, NEW cost \in Costs, FIXED!Admit(k, cost)
      PROVE  FixedSound'
    <2> DEFINE c == FIXED!BucketAt(k, now)
    <2>1. /\ Decide(k, cost, TRUE) /\ c.count + cost <= Limit
          /\ FIXED!Keep(k, [c EXCEPT !.count = @ + cost])
        BY <1>4, Zenon DEF FIXED!Admit, FIXED!Fits, FIXED!Decide, FIXED!AnswerAllow, Decide, AnswerAllow
    <2>2. c.count = AdmittedBy(k, now) - AdmittedBy(k, WindowOf(now) - 1)
        BY ChargedCounter
    <2>3. History'
        BY <2>1, DecideKeepsHistory
    <2>4. SeamHolds'
        BY <2>1, <2>2, DecideKeepsSeam
    <2>5. FixedCounts'
        BY <2>1, DecideKeepsCounts
    <2>6. QED
        BY <2>3, <2>4, <2>5
<1>5. ASSUME NEW k \in Keys, NEW cost \in Costs, FIXED!Refuse(k, cost)
      PROVE  FixedSound'
    <2>1. Decide(k, cost, FALSE) /\ FIXED!Keep(k, FIXED!BucketAt(k, now))
        BY <1>5, Zenon DEF FIXED!Refuse, FIXED!Decide, FIXED!AnswerAllow, Decide, AnswerAllow
    <2>2. QED
        BY <2>1, DecideKeepsHistory, DecideKeepsSeam, DecideKeepsCounts
<1>6. ASSUME NEW k \in Keys, NEW cost \in Costs, FIXED!RefuseNewKey(k, cost)
      PROVE  FixedSound'
    <2>1. AnswerAllow(k, cost, FALSE) /\ UNCHANGED <<buckets, admitted>>
        BY <1>6, Zenon DEF FIXED!RefuseNewKey, FIXED!TurnAway, FIXED!AnswerAllow, AnswerAllow
    <2>2. HarnessTypeOK' /\ now' = now
        BY <2>1, AllowKeepsType DEF History, AnswerAllow
    <2>3. QED
        BY <1>2, <2>1, <2>2
<1>7. ASSUME NEW k \in Keys, FIXED!RetryAfterUntracked(k)
      PROVE  FixedSound'
    <2>1. /\ Answer("retryAfter", k, WaitUntracked(DOMAIN buckets))
          /\ UNCHANGED <<buckets, admitted>>
        BY <1>7, SameFixed, Zenon DEF FIXED!RetryAfterUntracked, FIXED!AnswerUntracked, FIXED!Answer, Answer
    <2>2. WaitUntracked(DOMAIN buckets) \in Nat /\ "retryAfter" \in Readings
        BY DEF WaitUntracked, Unknown, Readings
    <2>3. HarnessTypeOK' /\ now' = now
        BY <2>1, <2>2, AnswerKeepsType DEF History, Answer
    <2>4. QED
        BY <1>2, <2>1, <2>3
<1>8. ASSUME NEW k \in Keys, FIXED!RetryAfterTracked(k)
      PROVE  FixedSound'
    <2>1. /\ Answer("retryAfter", k, FIXED!WaitFor(k))
          /\ UNCHANGED <<buckets, admitted>>
        BY <1>8, Zenon DEF FIXED!RetryAfterTracked, FIXED!Read, FIXED!Answer, Answer
    <2>2. FIXED!WaitFor(k) \in Nat /\ "retryAfter" \in Readings
        <3>1. now \in Nat /\ WindowOf(now) \in Nat /\ now < WindowOf(now) + WindowMs /\ WindowMs \in Nat
            BY WindowIs DEF History, HarnessTypeOK
        <3>2. QED
            BY <3>1, SameFixed DEF FIXED!WaitFor, Readings
    <2>3. HarnessTypeOK' /\ now' = now
        BY <2>1, <2>2, AnswerKeepsType DEF History, Answer
    <2>4. QED
        BY <1>2, <2>1, <2>3
<1>9. FIXED!Later = Later
    BY DEF FIXED!Later, Later
<1>10. QED
    BY <1>1, <1>3, <1>4, <1>5, <1>6, <1>7, <1>8, <1>9, Zenon DEF FIXED!Next

(* It claims at most one slot.                                             *)
LEMMA FixedClaim ==
    ASSUME FIXED!Next
    PROVE  \/ Claims(DOMAIN buckets, DOMAIN buckets')
           \/ AtTheTable(DOMAIN buckets) /\ UNCHANGED buckets
<1>1. ASSUME NEW k \in Keys, HasRoom(k, DOMAIN buckets), NEW b, FIXED!Keep(k, b), UNCHANGED taken
      PROVE  Claims(DOMAIN buckets, DOMAIN buckets')
    BY <1>1 DEF FIXED!Keep, Claims
<1>2. ASSUME UNCHANGED <<buckets, taken>>
      PROVE  Claims(DOMAIN buckets, DOMAIN buckets')
    BY <1>2 DEF Claims
<1>3. \A k : FIXED!HasRoom(k, DOMAIN buckets) <=> HasRoom(k, DOMAIN buckets)
    BY SameFixed
<1>4. CASE FIXED!AnotherKey(DOMAIN buckets) /\ UNCHANGED <<buckets, admitted>>
    BY <1>4, SameFixed, Zenon DEF FIXED!AnotherKey, AnotherKey, AtTheTable
<1>5. CASE \E t \in FIXED!Later : FIXED!Tick(t)
    BY <1>2, <1>5, Zenon DEF FIXED!Tick
<1> SUFFICES ASSUME NEW k \in Keys,
                    \/ \E cost \in Costs :
                           FIXED!Admit(k, cost) \/ FIXED!Refuse(k, cost) \/ FIXED!RefuseNewKey(k, cost)
                    \/ FIXED!RetryAfterUntracked(k) \/ FIXED!RetryAfterTracked(k)
             PROVE  Claims(DOMAIN buckets, DOMAIN buckets')
    BY <1>4, <1>5, Zenon DEF FIXED!Next
<1>6. ASSUME NEW cost \in Costs, FIXED!Admit(k, cost) \/ FIXED!Refuse(k, cost)
      PROVE  Claims(DOMAIN buckets, DOMAIN buckets')
    BY <1>1, <1>3, <1>6, Zenon DEF FIXED!Admit, FIXED!Refuse
<1>7. ASSUME NEW cost \in Costs, FIXED!RefuseNewKey(k, cost)
      PROVE  Claims(DOMAIN buckets, DOMAIN buckets')
    BY <1>2, <1>7, Zenon DEF FIXED!RefuseNewKey, FIXED!TurnAway
<1>8. CASE FIXED!RetryAfterUntracked(k) \/ FIXED!RetryAfterTracked(k)
    BY <1>2, <1>8, Zenon DEF FIXED!RetryAfterUntracked, FIXED!AnswerUntracked, FIXED!RetryAfterTracked
<1>9. QED
    BY <1>6, <1>7, <1>8, Zenon

(* The counters are true, and the seam is the worst there is.              *)
LEMMA FixedPromises ==
    ASSUME FixedSound, Slots(DOMAIN buckets, taken)
    PROVE  FIXED!SeamCeiling /\ FIXED!CountsOnlyItsWindow /\ FIXED!TypeOK
<1> USE DEF FixedSound
<1>1. FIXED!SeamCeiling
    BY SameFixed DEF SeamHolds, Share, FIXED!SeamCeiling, AdmittedIn
<1>2. FIXED!CountsOnlyItsWindow
    BY SameFixed, ChargedCounter DEF FIXED!CountsOnlyItsWindow, AdmittedIn
<1>3. FIXED!WindowTypeOK
    BY DEF FIXED!WindowTypeOK, FIXED!HarnessTypeOK, FIXED!Replies, FIXED!Readings,
           History, HarnessTypeOK, Replies, Readings
<1>4. FIXED!TableOK(DOMAIN buckets)
    <2>1. FIXED!Cardinality(DOMAIN buckets) = Cardinality(DOMAIN buckets)
        BY Zenon DEF FIXED!Cardinality, Cardinality
    <2>2. QED
        BY <2>1 DEF FIXED!TableOK, Slots
<1>5. ASSUME NEW k \in DOMAIN buckets
      PROVE  /\ buckets[k] \in [windowStart : 0..now, count : 0..Limit]
             /\ buckets[k].windowStart % WindowMs = 0
    <2>1. PICK b : b = buckets[k]
        OBVIOUS
    <2>2. /\ b \in [windowStart : Nat, count : 0..Limit] /\ b.windowStart <= now
          /\ WindowOf(b.windowStart) = b.windowStart
        BY <1>5, <2>1 DEF FixedCounts, CountsItsWindow
    <2>3. now \in Nat
        BY DEF History, HarnessTypeOK
    <2>4. b.windowStart % WindowMs \in Nat
        BY <2>2, WindowAssumption
    <2>5. b.windowStart % WindowMs = 0
        BY <2>2, <2>4 DEF WindowOf
    <2>6. QED
        BY <2>1, <2>2, <2>3, <2>5
<1>6. QED
    BY <1>1, <1>2, <1>3, <1>4, <1>5 DEF FIXED!TypeOK

-----------------------------------------------------------------------------
(* The sliding counter.                                                    *)

(* What this instance shares with the harness is the harness's.            *)
LEMMA SameCounter ==
    /\ \A S : COUNTER!TableFull(S) = TableFull(S) /\ COUNTER!WaitUntracked(S) = WaitUntracked(S)
    /\ \A k, S : COUNTER!HasRoom(k, S) = HasRoom(k, S)
    /\ \A t : COUNTER!WindowOf(t) = WindowOf(t)
    /\ \A k, s, t : COUNTER!AdmittedIn(k, s, t) = AdmittedIn(k, s, t)
<1>1. \A S : COUNTER!TableFull(S) = TableFull(S)
    <2> SUFFICES ASSUME NEW S PROVE COUNTER!TableFull(S) = TableFull(S)
        OBVIOUS
    <2>1. COUNTER!Cardinality(S) = Cardinality(S)
        BY Zenon DEF COUNTER!Cardinality, Cardinality
    <2>2. QED
        BY <2>1 DEF COUNTER!TableFull, TableFull
<1>2. \A S : COUNTER!WaitUntracked(S) = WaitUntracked(S)
    BY <1>1 DEF COUNTER!WaitUntracked, WaitUntracked, COUNTER!Unknown, Unknown
<1>3. \A k, S : COUNTER!HasRoom(k, S) = HasRoom(k, S)
    BY <1>1 DEF COUNTER!HasRoom, HasRoom
<1>4. \A t : COUNTER!WindowOf(t) = WindowOf(t)
    BY DEF COUNTER!WindowOf, WindowOf
<1>5. \A k, s, t : COUNTER!AdmittedIn(k, s, t) = AdmittedIn(k, s, t)
    BY DEF COUNTER!AdmittedIn, AdmittedIn, COUNTER!AdmittedBy, AdmittedBy
<1>6. QED
    BY <1>1, <1>2, <1>3, <1>4, <1>5

(* A counter holds what its window and the one before it let through, and  *)
(* nothing was let through since.                                          *)
CountsTwoWindows(k, c) ==
    /\ c \in [windowStart : Nat, current : 0..Limit, previous : 0..Limit]
    /\ c.windowStart <= now /\ WindowOf(c.windowStart) = c.windowStart
    /\ c.current = AdmittedBy(k, c.windowStart + WindowMs - 1) - AdmittedBy(k, c.windowStart - 1)
    /\ c.previous = AdmittedBy(k, c.windowStart - 1) - AdmittedBy(k, c.windowStart - WindowMs - 1)
    /\ AdmittedBy(k, now) = AdmittedBy(k, c.windowStart + WindowMs - 1)

SlidingCounts ==
    /\ DOMAIN counters \subseteq Keys
    /\ \A k \in Keys \ DOMAIN counters : AdmittedBy(k, now) = 0
    /\ \A k \in DOMAIN counters : CountsTwoWindows(k, counters[k])

(* Of two windows that do not touch, the later starts two windows on.      *)
LEMMA WindowsApart ==
    ASSUME NEW s \in Nat, NEW t \in Nat, s < t,
           WindowOf(s) = s, WindowOf(t) = t, t # s + WindowMs
    PROVE  s + 2 * WindowMs <= t
<1> DEFINE i == s \div WindowMs
           j == t \div WindowMs
<1>1. /\ WindowMs \in Nat /\ WindowMs > 0 /\ i \in Nat /\ j \in Nat
      /\ s = WindowMs * i /\ t = WindowMs * j
    BY WindowIs
<1> HIDE DEF i, j
<1>2. i <= j /\ i # j /\ j # i + 1
    <2>1. i <= j
        BY WindowsInOrder DEF i, j
    <2>2. WindowMs * (i + 1) = WindowMs * i + WindowMs
        BY <1>1
    <2>3. QED
        BY <1>1, <2>1, <2>2
<1>3. j - i - 2 \in Nat
    BY <1>1, <1>2
<1>4. WindowMs * j = WindowMs * i + 2 * WindowMs + WindowMs * (j - i - 2)
    BY <1>1
<1>5. WindowMs * (j - i - 2) \in Nat /\ WindowMs * i \in Nat
    BY <1>1, <1>3
<1>6. QED
    BY <1>1, <1>4, <1>5

(* Rolled forward, a counter holds what this window and the last let       *)
(* through, over whatever gap.                                             *)
LEMMA RolledForward ==
    ASSUME History, SlidingCounts, NEW k \in Keys
    PROVE  LET c == COUNTER!CounterAt(k, now)
           IN  /\ c.windowStart = WindowOf(now)
               /\ CountsTwoWindows(k, c)
               /\ c.current = AdmittedBy(k, now) - AdmittedBy(k, WindowOf(now) - 1)
<1> DEFINE c == COUNTER!CounterAt(k, now)
<1>1. PICK w \in Int : w = WindowOf(now)
    BY HistoryIs, WindowIs
<1>2. /\ now \in Nat /\ w \in Nat /\ w <= now /\ now < w + WindowMs
      /\ WindowMs \in Nat /\ WindowMs > 0 /\ Limit \in Nat
      /\ w = WindowMs * (now \div WindowMs) /\ now \div WindowMs \in Nat
    BY <1>1, HistoryIs, WindowIs
<1>3. WindowOf(w) = w
    <2>1. w \div WindowMs = now \div WindowMs
        BY <1>2, WindowNumber
    <2>2. QED
        BY <1>2, <2>1, WindowIs
<1>4. /\ \A t \in Int : AdmittedBy(k, t) \in Nat
      /\ \A s, t \in Int : s <= t => AdmittedBy(k, s) <= AdmittedBy(k, t)
      /\ \A t \in Int : t >= now => AdmittedBy(k, t) = AdmittedBy(k, now)
    BY HistoryIs
<1>5. AdmittedBy(k, now) = AdmittedBy(k, w + WindowMs - 1)
    BY <1>2, <1>4
<1>6. c = IF k \in DOMAIN counters
          THEN COUNTER!Advance(counters[k], w)
          ELSE [windowStart |-> w, current |-> 0, previous |-> 0]
    BY <1>1, SameCounter DEF COUNTER!CounterAt
<1> HIDE DEF c
<1> SUFFICES c.windowStart = w /\ CountsTwoWindows(k, c)
    BY <1>1, <1>5 DEF c, CountsTwoWindows
<1>7. CASE k \notin DOMAIN counters
    <2>1. AdmittedBy(k, now) = 0
        BY <1>7 DEF SlidingCounts
    <2>2. AdmittedBy(k, w - 1) = 0 /\ AdmittedBy(k, w - WindowMs - 1) = 0
        <3>1. w - 1 \in Int /\ w - WindowMs - 1 \in Int /\ w - 1 <= now /\ w - WindowMs - 1 <= now
            BY <1>2
        <3>2. /\ AdmittedBy(k, w - 1) \in Nat /\ AdmittedBy(k, w - 1) <= AdmittedBy(k, now)
              /\ AdmittedBy(k, w - WindowMs - 1) \in Nat
              /\ AdmittedBy(k, w - WindowMs - 1) <= AdmittedBy(k, now)
            BY <1>2, <1>4, <3>1
        <3>3. QED
            BY <2>1, <3>2
    <2>3. c = [windowStart |-> w, current |-> 0, previous |-> 0]
        BY <1>6, <1>7
    <2>4. QED
        BY <1>2, <1>3, <1>5, <2>1, <2>2, <2>3 DEF CountsTwoWindows
<1>8. CASE k \in DOMAIN counters
    <2>1. PICK d : d = counters[k]
        OBVIOUS
    <2>2. CountsTwoWindows(k, d)
        BY <1>8, <2>1 DEF SlidingCounts
    <2>3. PICK s \in Nat : s = d.windowStart
        BY <2>2 DEF CountsTwoWindows
    <2>4. /\ s <= now /\ WindowOf(s) = s /\ d.current \in 0..Limit
          /\ d.current = AdmittedBy(k, s + WindowMs - 1) - AdmittedBy(k, s - 1)
          /\ AdmittedBy(k, now) = AdmittedBy(k, s + WindowMs - 1)
        BY <2>2, <2>3 DEF CountsTwoWindows
    <2>5. CASE s = w
        BY <1>6, <1>8, <2>1, <2>2, <2>3, <2>5 DEF COUNTER!Advance
    <2>6. CASE s # w
        <3>1. c = [windowStart |-> w, current |-> 0,
                   previous |-> IF w = s + WindowMs THEN d.current ELSE 0]
            BY <1>6, <1>8, <2>1, <2>3, <2>6 DEF COUNTER!Advance
        <3>2. s + WindowMs <= w
            <4>1. PICK i \in Nat, j \in Nat : i = s \div WindowMs /\ j = now \div WindowMs
                BY <1>2, WindowIs
            <4>2. /\ s \div WindowMs <= now \div WindowMs
                  /\ s \div WindowMs = now \div WindowMs => WindowOf(s) = WindowOf(now)
                  /\ s \div WindowMs < now \div WindowMs => WindowOf(s) + WindowMs <= WindowOf(now)
                BY <1>2, <2>4, WindowsInOrder, Zenon
            <4>3. i <= j /\ (i = j => s = w) /\ (i < j => s + WindowMs <= w)
                BY <1>1, <2>4, <4>1, <4>2
            <4>4. QED
                BY <2>6, <4>3
        <3>3. AdmittedBy(k, w - 1) = AdmittedBy(k, now)
            <4>1. s + WindowMs - 1 <= w - 1 /\ w - 1 <= now /\ s + WindowMs - 1 \in Int /\ w - 1 \in Int
                BY <1>2, <3>2
            <4>2. AdmittedBy(k, now) <= AdmittedBy(k, w - 1) /\ AdmittedBy(k, w - 1) <= AdmittedBy(k, now)
                BY <1>2, <1>4, <2>4, <4>1
            <4>3. AdmittedBy(k, now) \in Nat /\ AdmittedBy(k, w - 1) \in Nat
                BY <1>2, <1>4, <4>1
            <4>4. QED
                BY <4>2, <4>3
        <3>4. AdmittedBy(k, now) - AdmittedBy(k, w - 1) = 0
            BY <1>2, <1>4, <3>3
        <3>5. c.previous \in 0..Limit
                /\ c.previous = AdmittedBy(k, w - 1) - AdmittedBy(k, w - WindowMs - 1)
            <4>1. CASE w = s + WindowMs
                <5>1. w - 1 = s + WindowMs - 1 /\ w - WindowMs - 1 = s - 1
                    BY <1>2, <4>1
                <5>2. QED
                    BY <2>4, <3>1, <4>1, <5>1
            <4>2. CASE w # s + WindowMs
                <5>1. s + 2 * WindowMs <= w
                    BY <1>2, <1>3, <2>4, <3>2, <4>2, WindowsApart
                <5>2. /\ s + WindowMs - 1 <= w - WindowMs - 1 /\ w - WindowMs - 1 <= now
                      /\ s + WindowMs - 1 \in Int /\ w - WindowMs - 1 \in Int
                    BY <1>2, <5>1
                <5>3. /\ AdmittedBy(k, now) <= AdmittedBy(k, w - WindowMs - 1)
                      /\ AdmittedBy(k, w - WindowMs - 1) <= AdmittedBy(k, now)
                      /\ AdmittedBy(k, w - WindowMs - 1) \in Nat
                      /\ AdmittedBy(k, now) \in Nat
                    BY <1>2, <1>4, <2>4, <5>2
                <5>4. AdmittedBy(k, w - 1) - AdmittedBy(k, w - WindowMs - 1) = 0
                    BY <3>3, <5>3
                <5>5. QED
                    BY <1>2, <3>1, <4>2, <5>4
            <4>3. QED
                BY <4>1, <4>2
        <3>6. /\ c \in [windowStart : Nat, current : 0..Limit, previous : 0..Limit]
              /\ c.windowStart = w /\ c.current = 0
            BY <1>2, <3>1, <3>5
        <3>7. QED
            BY <1>2, <1>3, <1>5, <3>4, <3>5, <3>6 DEF CountsTwoWindows
    <2>7. QED
        BY <2>5, <2>6
<1>9. QED
    BY <1>7, <1>8

(* A key's counter is rolled forward, and charged n.                       *)
LEMMA ChargeKeepsCounters ==
    ASSUME History, SlidingCounts, NEW k \in Keys, NEW n \in Nat, now' = now,
           \A x \in Keys : \A s \in Int :
               AdmittedBy(x, s)' =
                  IF x = k /\ s >= now THEN AdmittedBy(x, s) + n ELSE AdmittedBy(x, s),
           \A x \in Keys : AdmittedBy(x, now)' =
                  IF x = k THEN AdmittedBy(x, now) + n ELSE AdmittedBy(x, now),
           NEW b,
           b = [COUNTER!CounterAt(k, now) EXCEPT !.current = @ + n],
           COUNTER!CounterAt(k, now).current + n <= Limit,
           COUNTER!Keep(k, b)
    PROVE  SlidingCounts'
<1> DEFINE c == COUNTER!CounterAt(k, now)
<1>1. PICK w \in Int : w = WindowOf(now)
    BY HistoryIs, WindowIs
<1>2. /\ c.windowStart = w /\ CountsTwoWindows(k, c)
      /\ c \in [windowStart : Nat, current : 0..Limit, previous : 0..Limit]
    BY <1>1, RolledForward DEF CountsTwoWindows
<1>3. now \in Nat /\ w \in Nat /\ w <= now /\ now < w + WindowMs /\ WindowMs \in Nat /\ Limit \in Nat
    BY <1>1, HistoryIs, WindowIs
<1>4. counters' = [x \in DOMAIN counters \cup {k} |-> IF x = k THEN b ELSE counters[x]]
    BY DEF COUNTER!Keep
<1>5. \A x \in Keys : \A s \in Int : AdmittedBy(x, s) \in Nat
    BY HistoryIs
<1> HIDE DEF c
<1>6. CountsTwoWindows(k, b)'
    <2>1. /\ b \in [windowStart : Nat, current : 0..Limit, previous : 0..Limit]
          /\ b.windowStart = w /\ b.current = c.current + n /\ b.previous = c.previous
        BY <1>2, <1>3 DEF c
    <2>2. /\ AdmittedBy(k, w + WindowMs - 1)' = AdmittedBy(k, w + WindowMs - 1) + n
          /\ AdmittedBy(k, w - 1)' = AdmittedBy(k, w - 1)
          /\ AdmittedBy(k, w - WindowMs - 1)' = AdmittedBy(k, w - WindowMs - 1)
          /\ AdmittedBy(k, now)' = AdmittedBy(k, now) + n
        BY <1>3
    <2>3. /\ AdmittedBy(k, now) = AdmittedBy(k, w + WindowMs - 1)
          /\ c.current = AdmittedBy(k, w + WindowMs - 1) - AdmittedBy(k, w - 1)
          /\ c.previous = AdmittedBy(k, w - 1) - AdmittedBy(k, w - WindowMs - 1)
          /\ WindowOf(w) = w /\ w <= now
        BY <1>2 DEF CountsTwoWindows
    <2>4. /\ AdmittedBy(k, w + WindowMs - 1) \in Nat /\ AdmittedBy(k, w - 1) \in Nat
          /\ AdmittedBy(k, w - WindowMs - 1) \in Nat
        BY <1>3, <1>5
    <2>5. b.current = AdmittedBy(k, w + WindowMs - 1)' - AdmittedBy(k, w - 1)'
        BY <2>1, <2>2, <2>3, <2>4
    <2>6. b.previous = AdmittedBy(k, w - 1)' - AdmittedBy(k, w - WindowMs - 1)'
        BY <2>1, <2>2, <2>3
    <2>7. AdmittedBy(k, now)' = AdmittedBy(k, w + WindowMs - 1)'
        BY <2>2, <2>3
    <2>8. QED
        BY <2>1, <2>3, <2>5, <2>6, <2>7 DEF CountsTwoWindows
<1>7. ASSUME NEW x \in DOMAIN counters, x # k
      PROVE  CountsTwoWindows(x, counters[x])'
    <2>1. PICK d : d = counters[x]
        OBVIOUS
    <2>2. x \in Keys /\ CountsTwoWindows(x, d) /\ counters'[x] = d
        BY <1>4, <1>7, <2>1 DEF SlidingCounts
    <2>3. /\ d.windowStart + WindowMs - 1 \in Int /\ d.windowStart - 1 \in Int
          /\ d.windowStart - WindowMs - 1 \in Int
        BY <1>3, <2>2 DEF CountsTwoWindows
    <2>4. /\ AdmittedBy(x, d.windowStart + WindowMs - 1)' = AdmittedBy(x, d.windowStart + WindowMs - 1)
          /\ AdmittedBy(x, d.windowStart - 1)' = AdmittedBy(x, d.windowStart - 1)
          /\ AdmittedBy(x, d.windowStart - WindowMs - 1)' = AdmittedBy(x, d.windowStart - WindowMs - 1)
          /\ AdmittedBy(x, now)' = AdmittedBy(x, now)
        BY <1>7, <2>2, <2>3
    <2>5. CountsTwoWindows(x, d)'
        BY <2>2, <2>4 DEF CountsTwoWindows
    <2>6. QED
        BY <2>2, <2>5
<1>8. QED
    BY <1>4, <1>6, <1>7 DEF SlidingCounts

(* Time passes over the counters.                                          *)
LEMMA ElapseKeepsCounters ==
    ASSUME History, SlidingCounts, NEW t \in Later, Elapse(t), UNCHANGED counters
    PROVE  SlidingCounts'
<1>1. /\ now' = t /\ t \in Nat /\ t > now
      /\ \A k \in Keys : \A s \in Int : AdmittedBy(k, s)' = AdmittedBy(k, s)
      /\ \A k \in Keys : AdmittedBy(k, now)' = AdmittedBy(k, now)
    BY ElapseKeepsHistory
<1>2. now \in Nat
    BY DEF History, HarnessTypeOK
<1>3. ASSUME NEW k \in DOMAIN counters
      PROVE  CountsTwoWindows(k, counters[k])'
    <2>1. PICK d : d = counters[k]
        OBVIOUS
    <2>2. k \in Keys /\ CountsTwoWindows(k, d) /\ counters'[k] = d
        BY <1>3, <2>1 DEF SlidingCounts
    <2>3. /\ d.windowStart + WindowMs - 1 \in Int /\ d.windowStart - 1 \in Int
          /\ d.windowStart - WindowMs - 1 \in Int
        BY <2>2, WindowAssumption DEF CountsTwoWindows
    <2>4. /\ AdmittedBy(k, d.windowStart + WindowMs - 1)' = AdmittedBy(k, d.windowStart + WindowMs - 1)
          /\ AdmittedBy(k, d.windowStart - 1)' = AdmittedBy(k, d.windowStart - 1)
          /\ AdmittedBy(k, d.windowStart - WindowMs - 1)' = AdmittedBy(k, d.windowStart - WindowMs - 1)
          /\ AdmittedBy(k, now)' = AdmittedBy(k, now)
        BY <1>1, <2>2, <2>3
    <2>5. d.windowStart <= now'
        BY <1>1, <1>2, <2>2 DEF CountsTwoWindows
    <2>6. CountsTwoWindows(k, d)'
        BY <2>2, <2>4, <2>5 DEF CountsTwoWindows
    <2>7. QED
        BY <2>2, <2>6
<1>4. QED
    BY <1>1, <1>3 DEF SlidingCounts

(* What the faded estimate can miss in a trailing window.                  *)
Missed == IF WindowMs = 1 THEN Limit ELSE 2 * Limit - ((2 * Limit) \div WindowMs)

(* No interval of a window's length has let more through than that.        *)
NoIntervalExceeds(bound) ==
    \A k \in Keys : \A from \in 0..now :
        AdmittedBy(k, from + WindowMs - 1) - AdmittedBy(k, from - 1) <= bound

(* It misses no more than a limit less what two milliseconds' fading gives *)
(* back.                                                                   *)
LEMMA FadingMisses ==
    /\ Missed \in Nat /\ Limit <= Missed
    /\ \A p \in 0..Limit : \A d \in Nat : \A cur \in Nat :
          2 <= d /\ d <= WindowMs /\ ((p * d) \div WindowMs) + cur <= Limit => p + cur <= Missed
<1>1. WindowMs \in Nat /\ WindowMs > 0 /\ Limit \in Nat /\ Limit > 0
    BY WindowAssumption
<1> DEFINE f == (2 * Limit) \div WindowMs
<1>2. /\ f \in Nat /\ WindowMs * f <= 2 * Limit /\ 2 * Limit < WindowMs * f + WindowMs
      /\ WindowMs * f \in Nat
    BY <1>1
<1>3. CASE WindowMs = 1
    BY <1>1, <1>3 DEF Missed
<1>4. CASE WindowMs # 1
    <2>1. Missed = 2 * Limit - f /\ WindowMs >= 2
        BY <1>1, <1>4 DEF Missed
    <2> HIDE DEF f
    <2>2. f <= Limit
        <3>1. WindowMs * f = 2 * f + (WindowMs - 2) * f
            BY <1>1, <1>2
        <3>2. (WindowMs - 2) * f \in Nat
            BY <1>1, <1>2, <2>1
        <3>3. QED
            BY <1>1, <1>2, <3>1, <3>2
    <2>3. ASSUME NEW p \in 0..Limit, NEW d \in Nat, NEW cur \in Nat,
                 2 <= d, ((p * d) \div WindowMs) + cur <= Limit
          PROVE  p + cur <= 2 * Limit - f
        <3> DEFINE q == (p * d) \div WindowMs
        <3>1. p * d \in Nat /\ p \in Nat /\ p <= Limit
            BY <1>1
        <3>2. q \in Nat /\ p * d < WindowMs * q + WindowMs /\ WindowMs * q \in Nat
            BY <1>1, <3>1
        <3>3. q + cur <= Limit
            BY <2>3
        <3> HIDE DEF q
        <3>4. 2 * p <= p * d
            <4>1. p * d = 2 * p + p * (d - 2)
                BY <3>1
            <4>2. p * (d - 2) \in Nat
                BY <2>3, <3>1
            <4>3. QED
                BY <3>1, <4>1, <4>2
        <3>5. 2 * (Limit - p) <= WindowMs * (Limit - p)
            <4>1. Limit - p \in Nat
                BY <1>1, <3>1
            <4>2. WindowMs * (Limit - p) = 2 * (Limit - p) + (WindowMs - 2) * (Limit - p)
                BY <1>1, <4>1
            <4>3. (WindowMs - 2) * (Limit - p) \in Nat
                BY <1>1, <2>1, <4>1
            <4>4. QED
                BY <4>1, <4>2, <4>3
        <3>6. WindowMs * f < WindowMs * (q + (Limit - p)) + WindowMs
            <4>1. WindowMs * (q + (Limit - p)) = WindowMs * q + WindowMs * (Limit - p)
                BY <1>1, <3>1, <3>2
            <4>2. WindowMs * (Limit - p) \in Int
                BY <1>1, <3>1
            <4>3. 2 * Limit < (WindowMs * q + WindowMs * (Limit - p)) + WindowMs
                BY <1>1, <3>1, <3>2, <3>4, <3>5, <4>2
            <4>4. QED
                BY <1>1, <1>2, <3>2, <4>1, <4>2, <4>3
        <3>7. f <= q + (Limit - p)
            <4> SUFFICES ASSUME f > q + (Limit - p) PROVE FALSE
                BY <1>1, <1>2, <3>1, <3>2
            <4>1. PICK m \in Nat : m = f - (q + (Limit - p)) - 1
                BY <1>1, <1>2, <3>1, <3>2
            <4>2. f = (q + (Limit - p)) + 1 + m /\ q + (Limit - p) \in Int
                BY <1>1, <1>2, <3>1, <3>2, <4>1
            <4>3. WindowMs * f = WindowMs * (q + (Limit - p)) + WindowMs + WindowMs * m
                BY <1>1, <4>2
            <4>4. WindowMs * m \in Nat /\ WindowMs * (q + (Limit - p)) \in Int
                BY <1>1, <4>1, <4>2
            <4>5. QED
                BY <1>1, <1>2, <3>6, <4>3, <4>4
        <3>8. QED
            BY <1>1, <1>2, <3>1, <3>2, <3>3, <3>7
    <2>4. QED
        BY <1>1, <1>2, <2>1, <2>2, <2>3
<1>5. QED
    BY <1>3, <1>4

(* No interval that has begun since let anything through.                  *)
LEMMA ElapseKeepsIntervals ==
    ASSUME History, NEW bound \in Nat, NoIntervalExceeds(bound), NEW t \in Later, Elapse(t)
    PROVE  NoIntervalExceeds(bound)'
<1>1. /\ now' = t /\ t \in Nat /\ t > now /\ now \in Nat
      /\ \A k \in Keys : \A s \in Int : AdmittedBy(k, s)' = AdmittedBy(k, s)
    BY ElapseKeepsHistory DEF History, HarnessTypeOK
<1>2. SUFFICES ASSUME NEW k \in Keys, NEW from \in 0..t
               PROVE  AdmittedBy(k, from + WindowMs - 1)' - AdmittedBy(k, from - 1)' <= bound
    BY <1>1 DEF NoIntervalExceeds
<1>3. /\ from \in Nat /\ WindowMs \in Nat /\ WindowMs > 0
      /\ from + WindowMs - 1 \in Int /\ from - 1 \in Int
    BY WindowAssumption
<1>4. /\ AdmittedBy(k, from + WindowMs - 1)' = AdmittedBy(k, from + WindowMs - 1)
      /\ AdmittedBy(k, from - 1)' = AdmittedBy(k, from - 1)
    BY <1>1, <1>3
<1>5. CASE from <= now
    BY <1>1, <1>3, <1>4, <1>5 DEF NoIntervalExceeds
<1>6. CASE from > now
    <2>1. from - 1 >= now /\ from + WindowMs - 1 >= now
        BY <1>1, <1>3, <1>6
    <2>2. /\ AdmittedBy(k, from + WindowMs - 1) = AdmittedBy(k, now)
          /\ AdmittedBy(k, from - 1) = AdmittedBy(k, now) /\ AdmittedBy(k, now) \in Nat
        BY <1>1, <1>3, <2>1, HistoryIs
    <2>3. QED
        BY <1>4, <2>2
<1>7. QED
    BY <1>1, <1>3, <1>5, <1>6

(* A request that the faded estimate has room for.                         *)
LEMMA DecideKeepsTrailing ==
    ASSUME History, SlidingCounts, NoIntervalExceeds(Missed),
           NEW k \in Keys, NEW cost \in Costs, NEW ok \in BOOLEAN, Decide(k, cost, ok),
           ok => COUNTER!Estimate(COUNTER!CounterAt(k, now), now) + cost <= Limit
    PROVE  NoIntervalExceeds(Missed)'
<1>1. PICK w \in Int : w = WindowOf(now)
    BY HistoryIs, WindowIs
<1>2. PICK c : c = COUNTER!CounterAt(k, now)
    OBVIOUS
<1>3. /\ now' = now /\ cost \in Nat /\ now \in Nat
      /\ \A x \in Keys : \A s \in Int :
             AdmittedBy(x, s)' =
                IF ok /\ x = k /\ s >= now THEN AdmittedBy(x, s) + cost ELSE AdmittedBy(x, s)
    BY DecideKeepsHistory DEF History, HarnessTypeOK
<1>4. /\ w \in Nat /\ w <= now /\ now < w + WindowMs /\ WindowMs \in Nat /\ WindowMs > 0
      /\ Limit \in Nat
    BY <1>1, <1>3, WindowIs
<1>5. SUFFICES ASSUME NEW x \in Keys, NEW from \in 0..now
               PROVE  AdmittedBy(x, from + WindowMs - 1)' - AdmittedBy(x, from - 1)' <= Missed
    BY <1>3 DEF NoIntervalExceeds
<1>6. /\ from \in Nat /\ from <= now /\ from + WindowMs - 1 \in Int /\ from - 1 \in Int
      /\ AdmittedBy(x, from - 1)' = AdmittedBy(x, from - 1)
    BY <1>3, <1>4
<1>7. CASE ~(ok /\ x = k /\ from + WindowMs - 1 >= now)
    <2>1. AdmittedBy(x, from + WindowMs - 1)' = AdmittedBy(x, from + WindowMs - 1)
        BY <1>3, <1>6, <1>7
    <2>2. QED
        BY <1>6, <2>1 DEF NoIntervalExceeds
<1>8. CASE ok /\ x = k /\ from + WindowMs - 1 >= now
    <2>1. AdmittedBy(x, from + WindowMs - 1)' = AdmittedBy(x, now) + cost
        <3>1. AdmittedBy(x, from + WindowMs - 1) = AdmittedBy(x, now)
            BY <1>3, <1>6, <1>8, HistoryIs
        <3>2. QED
            BY <1>3, <1>6, <1>8, <3>1
    <2>2. /\ c.windowStart = w
          /\ c.current = AdmittedBy(x, now) - AdmittedBy(x, w - 1)
          /\ c.previous = AdmittedBy(x, w - 1) - AdmittedBy(x, w - WindowMs - 1)
          /\ c.current \in 0..Limit /\ c.previous \in 0..Limit
        BY <1>1, <1>2, <1>8, RolledForward DEF CountsTwoWindows
    <2>3. ((c.previous * (WindowMs - (now - w))) \div WindowMs) + c.current + cost <= Limit
        BY <1>2, <1>8, <2>2 DEF COUNTER!Estimate
    <2>4. /\ AdmittedBy(x, now) \in Nat /\ AdmittedBy(x, w - 1) \in Nat
          /\ AdmittedBy(x, w - WindowMs - 1) \in Nat /\ AdmittedBy(x, from - 1) \in Nat
        BY <1>3, <1>4, <1>6, HistoryIs
    <2>5. PICK e \in Nat : e = (c.previous * (WindowMs - (now - w))) \div WindowMs
        <3>1. WindowMs - (now - w) \in Nat /\ c.previous \in Nat
            BY <1>3, <1>4, <2>2
        <3>2. c.previous * (WindowMs - (now - w)) \in Nat
            BY <3>1
        <3>3. QED
            BY <1>4, <3>2
    <2>6. c.current + cost <= Limit
        BY <1>3, <1>4, <2>2, <2>3, <2>5
    <2>7. CASE from >= w
        <3>1. AdmittedBy(x, w - 1) <= AdmittedBy(x, from - 1)
            BY <1>4, <1>6, <2>7, HistoryIs
        <3>2. QED
            BY <1>3, <1>4, <1>6, <2>1, <2>2, <2>4, <2>6, <3>1, FadingMisses
    <2>8. CASE from < w
        <3>1. AdmittedBy(x, w - WindowMs - 1) <= AdmittedBy(x, from - 1)
            <4>1. w - WindowMs - 1 \in Int /\ w - WindowMs - 1 <= from - 1
                BY <1>3, <1>4, <1>6, <1>8
            <4>2. QED
                BY <1>6, <4>1, HistoryIs
        <3>2. PICK d \in Nat : d = WindowMs - (now - w) /\ 2 <= d /\ d <= WindowMs
            BY <1>3, <1>4, <1>6, <1>8, <2>8
        <3>3. c.current + cost \in Nat /\ ((c.previous * d) \div WindowMs) + (c.current + cost) <= Limit
            BY <1>3, <1>4, <2>2, <2>3, <2>5, <3>2
        <3>4. c.previous + (c.current + cost) <= Missed
            BY <2>2, <3>2, <3>3, FadingMisses
        <3>5. QED
            BY <1>3, <1>6, <2>1, <2>2, <2>4, <3>1, <3>4, FadingMisses
    <2>9. QED
        BY <1>4, <1>6, <2>7, <2>8
<1>9. QED
    BY <1>7, <1>8

(* What the sliding counter keeps.                                         *)
CounterSound == History /\ SlidingCounts /\ NoIntervalExceeds(Missed)

(* Every step of the sliding counter keeps it.                             *)
LEMMA CounterStep ==
    ASSUME CounterSound, COUNTER!Next
    PROVE  CounterSound'
<1> USE DEF CounterSound
<1>1. ASSUME NEW t \in Later, COUNTER!Tick(t)
      PROVE  CounterSound'
    <2>1. Elapse(t) /\ UNCHANGED counters
        BY <1>1, Zenon DEF COUNTER!Tick, COUNTER!Elapse, COUNTER!AdvanceClock, Elapse, AdvanceClock
    <2>2. QED
        BY <2>1, ElapseKeepsHistory, ElapseKeepsCounters, ElapseKeepsIntervals, FadingMisses
<1>2. ASSUME HarnessTypeOK', UNCHANGED <<now, admitted>>
      PROVE  /\ History' /\ NoIntervalExceeds(Missed)'
             /\ UNCHANGED counters => SlidingCounts'
             /\ \A k \in Keys : COUNTER!Keep(k, COUNTER!CounterAt(k, now)) => SlidingCounts'
    <2>1. /\ History' /\ now' = now
          /\ \A k \in Keys : \A s \in Int : AdmittedBy(k, s)' = AdmittedBy(k, s)
          /\ \A k \in Keys : AdmittedBy(k, now)' = AdmittedBy(k, now)
        BY <1>2, OthersKeepHistory
    <2>2. NoIntervalExceeds(Missed)'
        BY <1>2 DEF NoIntervalExceeds, AdmittedBy
    <2>3. ASSUME UNCHANGED counters
          PROVE  SlidingCounts'
        BY <1>2, <2>3 DEF SlidingCounts, CountsTwoWindows, AdmittedBy
    <2>4. ASSUME NEW k \in Keys, COUNTER!Keep(k, COUNTER!CounterAt(k, now))
          PROVE  SlidingCounts'
        <3>1. PICK b : b = COUNTER!CounterAt(k, now)
            OBVIOUS
        <3>2. b \in [windowStart : Nat, current : 0..Limit, previous : 0..Limit]
            BY <3>1, RolledForward DEF CountsTwoWindows
        <3>3. b = [COUNTER!CounterAt(k, now) EXCEPT !.current = @ + 0] /\ b.current + 0 <= Limit
            BY <3>1, <3>2, WindowAssumption
        <3>4. \A x \in Keys : \A s \in Int : AdmittedBy(x, s) \in Nat
            BY HistoryIs
        <3>5. /\ \A x \in Keys : \A s \in Int :
                    AdmittedBy(x, s)' =
                        IF x = k /\ s >= now THEN AdmittedBy(x, s) + 0 ELSE AdmittedBy(x, s)
              /\ \A x \in Keys : AdmittedBy(x, now)' =
                        IF x = k THEN AdmittedBy(x, now) + 0 ELSE AdmittedBy(x, now)
            <4>1. now \in Int
                BY DEF History, HarnessTypeOK
            <4>2. QED
                BY <2>1, <3>4, <4>1
        <3>6. QED
            BY <2>1, <2>4, <3>1, <3>3, <3>5, ChargeKeepsCounters
    <2>5. QED
        BY <2>1, <2>2, <2>3, <2>4
<1>3. CASE COUNTER!AnotherKey(DOMAIN counters) /\ UNCHANGED <<counters, admitted>>
    <2>1. AnotherKey(DOMAIN counters)
        BY <1>3, SameCounter, Zenon DEF COUNTER!AnotherKey, AnotherKey
    <2>2. HarnessTypeOK' /\ now' = now
        BY <2>1, TableStepIsTyped DEF History, AtTheTable
    <2>3. QED
        BY <1>2, <1>3, <2>2
<1>4. ASSUME NEW k \in Keys, NEW cost \in Costs, COUNTER!Admit(k, cost)
      PROVE  CounterSound'
    <2>1. PICK c : c = COUNTER!CounterAt(k, now)
        OBVIOUS
    <2>2. /\ Decide(k, cost, TRUE) /\ COUNTER!Estimate(c, now) + cost <= Limit
          /\ COUNTER!Keep(k, [c EXCEPT !.current = @ + cost])
        BY <1>4, <2>1, Zenon
        DEF COUNTER!Admit, COUNTER!Fits, COUNTER!Decide, COUNTER!AnswerAllow, Decide, AnswerAllow
    <2>3. History' /\ NoIntervalExceeds(Missed)'
        BY <2>1, <2>2, DecideKeepsHistory, DecideKeepsTrailing
    <2>4. c.current + cost <= Limit
        <3>1. /\ c.windowStart = WindowOf(now)
              /\ c.current \in 0..Limit /\ c.previous \in 0..Limit
            BY <2>1, RolledForward DEF CountsTwoWindows
        <3>2. /\ now \in Nat /\ WindowOf(now) \in Nat /\ now < WindowOf(now) + WindowMs
              /\ WindowOf(now) <= now /\ WindowMs \in Nat /\ WindowMs > 0 /\ Limit \in Nat
            BY WindowIs DEF History, HarnessTypeOK
        <3>3. PICK d \in Nat : d = WindowMs - (now - c.windowStart)
            BY <3>1, <3>2
        <3>4. c.previous * d \in Nat
            BY <3>1, <3>2
        <3>5. (c.previous * d) \div WindowMs \in Nat
            BY <3>2, <3>4
        <3>6. ((c.previous * d) \div WindowMs) + c.current + cost <= Limit
            BY <2>2, <3>3 DEF COUNTER!Estimate
        <3>7. QED
            BY <3>1, <3>2, <3>5, <3>6, HarnessAssumption
    <2>5. SlidingCounts'
        <3>1. /\ now' = now /\ cost \in Nat
              /\ \A x \in Keys : \A s \in Int :
                     AdmittedBy(x, s)' =
                        IF x = k /\ s >= now THEN AdmittedBy(x, s) + cost ELSE AdmittedBy(x, s)
              /\ \A x \in Keys : AdmittedBy(x, now)' =
                        IF x = k THEN AdmittedBy(x, now) + cost ELSE AdmittedBy(x, now)
            <4>1. /\ now' = now /\ cost \in Nat
                  /\ \A x \in Keys : \A s \in Int :
                        AdmittedBy(x, s)' =
                            IF TRUE /\ x = k /\ s >= now THEN AdmittedBy(x, s) + cost ELSE AdmittedBy(x, s)
                  /\ \A x \in Keys : AdmittedBy(x, now)' =
                            IF TRUE /\ x = k THEN AdmittedBy(x, now) + cost ELSE AdmittedBy(x, now)
                BY <2>2, DecideKeepsHistory, Zenon
            <4>2. QED
                BY <4>1
        <3>2. PICK b : b = [c EXCEPT !.current = @ + cost]
            OBVIOUS
        <3>3. QED
            BY <2>1, <2>2, <2>4, <3>1, <3>2, ChargeKeepsCounters
    <2>6. QED
        BY <2>3, <2>5
<1>5. ASSUME NEW k \in Keys, NEW cost \in Costs, COUNTER!Refuse(k, cost)
      PROVE  CounterSound'
    <2>1. Decide(k, cost, FALSE) /\ COUNTER!Keep(k, COUNTER!CounterAt(k, now))
        BY <1>5, Zenon
        DEF COUNTER!Refuse, COUNTER!Decide, COUNTER!AnswerAllow, Decide, AnswerAllow
    <2>2. HarnessTypeOK' /\ UNCHANGED <<now, admitted>>
        BY <2>1, AllowKeepsType DEF Decide, AnswerAllow, History
    <2>3. QED
        BY <1>2, <2>1, <2>2
<1>6. ASSUME NEW k \in Keys, NEW cost \in Costs, COUNTER!RefuseNewKey(k, cost)
      PROVE  CounterSound'
    <2>1. AnswerAllow(k, cost, FALSE) /\ UNCHANGED <<counters, admitted>>
        BY <1>6, Zenon DEF COUNTER!RefuseNewKey, COUNTER!TurnAway, COUNTER!AnswerAllow, AnswerAllow
    <2>2. HarnessTypeOK' /\ now' = now
        BY <2>1, AllowKeepsType DEF History, AnswerAllow
    <2>3. QED
        BY <1>2, <2>1, <2>2
<1>7. ASSUME NEW k \in Keys, COUNTER!RetryAfterUntracked(k)
      PROVE  CounterSound'
    <2>1. /\ Answer("retryAfter", k, WaitUntracked(DOMAIN counters))
          /\ UNCHANGED <<counters, admitted>>
        BY <1>7, SameCounter, Zenon
        DEF COUNTER!RetryAfterUntracked, COUNTER!AnswerUntracked, COUNTER!Answer, Answer
    <2>2. WaitUntracked(DOMAIN counters) \in Nat /\ "retryAfter" \in Readings
        BY DEF WaitUntracked, Unknown, Readings
    <2>3. HarnessTypeOK' /\ now' = now
        BY <2>1, <2>2, AnswerKeepsType DEF History, Answer
    <2>4. QED
        BY <1>2, <2>1, <2>3
<1>8. ASSUME NEW k \in Keys, COUNTER!RetryAfterTracked(k)
      PROVE  CounterSound'
    <2>1. PICK c : c = COUNTER!CounterAt(k, now)
        OBVIOUS
    <2>2. /\ Answer("retryAfter", k, COUNTER!WaitFor(c))
          /\ UNCHANGED admitted /\ COUNTER!Keep(k, COUNTER!CounterAt(k, now))
        BY <1>8, <2>1, Zenon DEF COUNTER!RetryAfterTracked, COUNTER!Read, COUNTER!Answer, Answer
    <2>3. COUNTER!WaitFor(c) \in Nat
        <3>1. /\ c.windowStart = WindowOf(now)
              /\ c.current \in 0..Limit /\ c.previous \in 0..Limit
            BY <2>1, RolledForward DEF CountsTwoWindows
        <3>2. /\ now \in Nat /\ WindowOf(now) \in Nat /\ now < WindowOf(now) + WindowMs
              /\ WindowOf(now) <= now /\ WindowMs \in Nat /\ WindowMs > 0 /\ Limit \in Nat
            BY WindowIs DEF History, HarnessTypeOK
        <3>3. PICK elapsed \in Nat : elapsed = now - c.windowStart /\ elapsed < WindowMs
            BY <3>1, <3>2
        <3>4. PICK need \in Int : need = Limit - c.current - 1
            BY <3>1, <3>2
        <3>5. PICK excess \in Int : excess = c.previous - need - 1
            BY <3>1, <3>4
        <3>6. CASE c.previous = 0
            BY <3>3, <3>4, <3>6, <3>2 DEF COUNTER!WaitFor
        <3>7. CASE c.previous # 0
            <4>1. WindowMs * excess \in Int /\ c.previous \in Nat /\ c.previous > 0
                BY <3>1, <3>2, <3>5, <3>7
            <4>2. PICK target \in Int : target = ((WindowMs * excess) \div c.previous) + 1
                BY <4>1
            <4>3. COUNTER!WaitFor(c) \in
                    {0, WindowMs - elapsed + 1, IF target > elapsed THEN target - elapsed ELSE 0}
                BY <3>3, <3>4, <3>5, <4>2, Zenon DEF COUNTER!WaitFor
            <4>4. QED
                BY <3>2, <3>3, <4>2, <4>3
        <3>8. QED
            BY <3>6, <3>7
    <2>4. HarnessTypeOK' /\ now' = now
        BY <2>2, <2>3, AnswerKeepsType DEF History, Answer, Readings
    <2>5. QED
        BY <1>2, <2>2, <2>4
<1>9. COUNTER!Later = Later
    BY DEF COUNTER!Later, Later
<1>10. QED
    BY <1>1, <1>3, <1>4, <1>5, <1>6, <1>7, <1>8, <1>9, Zenon DEF COUNTER!Next

(* It claims at most one slot.                                             *)
LEMMA CounterClaim ==
    ASSUME COUNTER!Next
    PROVE  \/ Claims(DOMAIN counters, DOMAIN counters')
           \/ AtTheTable(DOMAIN counters) /\ UNCHANGED counters
<1>1. ASSUME NEW k \in Keys, HasRoom(k, DOMAIN counters), NEW b, COUNTER!Keep(k, b), UNCHANGED taken
      PROVE  Claims(DOMAIN counters, DOMAIN counters')
    BY <1>1 DEF COUNTER!Keep, Claims
<1>2. ASSUME UNCHANGED <<counters, taken>>
      PROVE  Claims(DOMAIN counters, DOMAIN counters')
    BY <1>2 DEF Claims
<1>3. \A k : COUNTER!HasRoom(k, DOMAIN counters) <=> HasRoom(k, DOMAIN counters)
    BY SameCounter
<1>4. CASE COUNTER!AnotherKey(DOMAIN counters) /\ UNCHANGED <<counters, admitted>>
    BY <1>4, SameCounter, Zenon DEF COUNTER!AnotherKey, AnotherKey, AtTheTable
<1>5. CASE \E t \in COUNTER!Later : COUNTER!Tick(t)
    BY <1>2, <1>5, Zenon DEF COUNTER!Tick
<1> SUFFICES ASSUME NEW k \in Keys,
                    \/ \E cost \in Costs :
                           COUNTER!Admit(k, cost) \/ COUNTER!Refuse(k, cost) \/ COUNTER!RefuseNewKey(k, cost)
                    \/ COUNTER!RetryAfterUntracked(k) \/ COUNTER!RetryAfterTracked(k)
             PROVE  Claims(DOMAIN counters, DOMAIN counters')
    BY <1>4, <1>5, Zenon DEF COUNTER!Next
<1>6. ASSUME NEW cost \in Costs, COUNTER!Admit(k, cost) \/ COUNTER!Refuse(k, cost)
      PROVE  Claims(DOMAIN counters, DOMAIN counters')
    BY <1>1, <1>3, <1>6, Zenon DEF COUNTER!Admit, COUNTER!Refuse
<1>7. ASSUME NEW cost \in Costs, COUNTER!RefuseNewKey(k, cost)
      PROVE  Claims(DOMAIN counters, DOMAIN counters')
    BY <1>2, <1>7, Zenon DEF COUNTER!RefuseNewKey, COUNTER!TurnAway
<1>8. CASE COUNTER!RetryAfterUntracked(k)
    BY <1>2, <1>8, Zenon DEF COUNTER!RetryAfterUntracked, COUNTER!AnswerUntracked
<1>9. CASE COUNTER!RetryAfterTracked(k)
    BY <1>1, <1>9, Zenon DEF COUNTER!RetryAfterTracked, HasRoom
<1>10. QED
    BY <1>6, <1>7, <1>8, <1>9, Zenon

(* The counters are true, and the estimate misses no more than it may.     *)
LEMMA CounterPromises ==
    ASSUME CounterSound, Slots(DOMAIN counters, taken)
    PROVE  COUNTER!TrailingCeiling /\ COUNTER!CountsAreTrue /\ COUNTER!TypeOK
<1> USE DEF CounterSound
<1>1. COUNTER!TrailingCeiling
    <2> SUFFICES ASSUME NEW k \in Keys, NEW from \in 0..now
                 PROVE  AdmittedIn(k, from, from + WindowMs - 1) <= Missed
        BY SameCounter DEF COUNTER!TrailingCeiling, Missed
    <2>1. QED
        BY DEF NoIntervalExceeds, AdmittedIn
<1>2. COUNTER!CountsAreTrue
    <2> SUFFICES ASSUME NEW k \in Keys, NEW c, c = COUNTER!CounterAt(k, now)
                 PROVE  /\ c.current = AdmittedIn(k, c.windowStart, now)
                        /\ c.previous = AdmittedIn(k, c.windowStart - WindowMs, c.windowStart - 1)
        BY SameCounter DEF COUNTER!CountsAreTrue
    <2>1. /\ c.windowStart = WindowOf(now) /\ c.windowStart \in Nat
          /\ c.current = AdmittedBy(k, now) - AdmittedBy(k, WindowOf(now) - 1)
          /\ c.previous = AdmittedBy(k, c.windowStart - 1) - AdmittedBy(k, c.windowStart - WindowMs - 1)
        BY RolledForward DEF CountsTwoWindows
    <2>2. QED
        BY <2>1 DEF AdmittedIn
<1>3. COUNTER!WindowTypeOK
    BY DEF COUNTER!WindowTypeOK, COUNTER!HarnessTypeOK, COUNTER!Replies, COUNTER!Readings,
           History, HarnessTypeOK, Replies, Readings
<1>4. COUNTER!TableOK(DOMAIN counters)
    <2>1. COUNTER!Cardinality(DOMAIN counters) = Cardinality(DOMAIN counters)
        BY Zenon DEF COUNTER!Cardinality, Cardinality
    <2>2. QED
        BY <2>1 DEF COUNTER!TableOK, Slots
<1>5. ASSUME NEW k \in DOMAIN counters
      PROVE  /\ counters[k] \in [windowStart : 0..now, current : 0..Limit, previous : 0..Limit]
             /\ counters[k].windowStart % WindowMs = 0
    <2>1. PICK c : c = counters[k]
        OBVIOUS
    <2>2. /\ c \in [windowStart : Nat, current : 0..Limit, previous : 0..Limit]
          /\ c.windowStart <= now /\ WindowOf(c.windowStart) = c.windowStart
        BY <1>5, <2>1 DEF SlidingCounts, CountsTwoWindows
    <2>3. now \in Nat
        BY DEF History, HarnessTypeOK
    <2>4. c.windowStart % WindowMs \in Nat
        BY <2>2, WindowAssumption
    <2>5. c.windowStart % WindowMs = 0
        BY <2>2, <2>4 DEF WindowOf
    <2>6. QED
        BY <2>1, <2>2, <2>3, <2>5
<1>6. QED
    BY <1>1, <1>2, <1>3, <1>4, <1>5 DEF COUNTER!TypeOK

-----------------------------------------------------------------------------
(* The sliding log.                                                        *)

(* Every set of numbers that has a member has a least one.                 *)
LEMMA LeastNumber ==
    ASSUME NEW S \in SUBSET Nat, S # {}
    PROVE  \E m \in S : \A x \in S : m <= x
<1>1. PICK n \in S : TRUE
    OBVIOUS
<1> DEFINE Below(m) == S \cap (0..m)
           T == {Below(m) : m \in S \cap (0..n)}
           R == StrictSubsetOrdering(0..n)
<1>2. IsFiniteSet(0..n)
    BY FS_Interval
<1>3. T \subseteq SUBSET (0..n) /\ Below(n) \in T
    BY <1>1
<1>4. IsWellFoundedOn(R, SUBSET (0..n))
    BY <1>2, FS_FiniteSubsetsOfFinite, FS_StrictSubsetOrderingWellFounded, Zenon
<1>5. \E U \in T : \A V \in T : ~ (<<V, U>> \in R)
    <2>1. T # {}
        BY <1>3
    <2> HIDE DEF T, R
    <2>2. QED
        BY <1>3, <1>4, <2>1, WFMin, Zenon
<1>6. PICK m \in S \cap (0..n) : \A V \in T : ~ (<<V, Below(m)>> \in R)
    BY <1>5
<1>7. ASSUME NEW x \in S, x < m
      PROVE  FALSE
    <2>1. Below(x) \in T
        BY <1>6, <1>7
    <2>2. Below(x) \subseteq Below(m) /\ Below(x) # Below(m)
        BY <1>6, <1>7
    <2>3. Below(x) \in SUBSET (0..n) /\ Below(m) \in SUBSET (0..n)
        BY <1>3, <1>6, <2>1
    <2>4. <<Below(x), Below(m)>> \in R
        BY <2>2, <2>3 DEF StrictSubsetOrdering
    <2>5. QED
        BY <1>6, <2>1, <2>4
<1>8. \A x \in S : m <= x
    BY <1>6, <1>7
<1>9. QED
    BY <1>6, <1>8

(* The one Min chooses.                                                    *)
LEMMA LeastIsMin ==
    ASSUME NEW S \in SUBSET Nat, NEW m \in S, \A x \in S : m <= x
    PROVE  LOG!Min(S) = m /\ LOG!E!Min(S) = m
<1>1. \A x \in S : (\A y \in S : x <= y) => x = m
    OBVIOUS
<1>2. LOG!Min(S) \in S /\ \A y \in S : LOG!Min(S) <= y
    BY DEF LOG!Min
<1>3. LOG!E!Min(S) \in S /\ \A y \in S : LOG!E!Min(S) <= y
    BY DEF LOG!E!Min
<1>4. QED
    BY <1>1, <1>2, <1>3

(* What this instance shares with the harness is the harness's.            *)
LEMMA SameLog ==
    /\ \A S : LOG!TableFull(S) = TableFull(S) /\ LOG!WaitUntracked(S) = WaitUntracked(S)
    /\ \A k, S : LOG!HasRoom(k, S) = HasRoom(k, S)
    /\ \A k, s, t : LOG!AdmittedIn(k, s, t) = AdmittedIn(k, s, t)
    /\ \A k, s, t : LOG!E!AdmittedIn(k, s, t) = AdmittedIn(k, s, t)
<1>1. \A S : LOG!Cardinality(S) = Cardinality(S)
    BY Zenon DEF LOG!Cardinality, Cardinality
<1>2. \A S : LOG!TableFull(S) = TableFull(S)
    BY <1>1 DEF LOG!TableFull, TableFull
<1>3. \A S : LOG!WaitUntracked(S) = WaitUntracked(S)
    BY <1>2, SMT DEF LOG!WaitUntracked, WaitUntracked, LOG!Unknown, Unknown
<1>4. \A k, S : LOG!HasRoom(k, S) = HasRoom(k, S)
    BY <1>2 DEF LOG!HasRoom, HasRoom
<1>5. \A k, s, t : LOG!AdmittedIn(k, s, t) = AdmittedIn(k, s, t)
    BY DEF LOG!AdmittedIn, AdmittedIn, LOG!AdmittedBy, AdmittedBy
<1>6. \A k, s, t : LOG!E!AdmittedIn(k, s, t) = AdmittedIn(k, s, t)
    BY DEF LOG!E!AdmittedIn, AdmittedIn, LOG!E!AdmittedBy, AdmittedBy
<1>7. QED
    BY <1>2, <1>3, <1>4, <1>5, <1>6

(* Once around the ring and no further.                                    *)
LEMMA Around ==
    ASSUME NEW x \in Nat, x < Limit + Limit
    PROVE  x % Limit = IF x < Limit THEN x ELSE x - Limit
<1>1. Limit \in Nat /\ Limit > 0
    BY WindowAssumption
<1>2. CASE x < Limit
    BY <1>1, <1>2
<1>3. CASE x >= Limit
    <2>1. x - Limit \in Nat /\ x - Limit < Limit
        BY <1>1, <1>3
    <2>2. x = Limit * 1 + (x - Limit)
        BY <1>1, <2>1
    <2>3. x % Limit = x - Limit
        BY <1>1, <2>1, <2>2
    <2>4. QED
        BY <1>1, <1>3, <2>3
<1>4. QED
    BY <1>1, <1>2, <1>3

(* Where the entries of a log lie: no two in one slot, and counting on     *)
(* from the slot of one entry reaches those that follow it.                *)
LEMMA SlotsOfLog ==
    ASSUME NEW log, log.head \in LOG!Slots
    PROVE  /\ \A i \in 0..Limit : LOG!SlotOf(log, i) \in LOG!Slots
           /\ LOG!SlotOf(log, 0) = log.head
           /\ \A i, j \in 0..(Limit - 1) : LOG!SlotOf(log, i) = LOG!SlotOf(log, j) => i = j
           /\ \A d, i \in 0..Limit : d + i <= Limit =>
                 (LOG!SlotOf(log, d) + i) % Limit = LOG!SlotOf(log, d + i)
<1>1. PICK h : h = log.head
    OBVIOUS
<1>2. /\ Limit \in Nat /\ Limit > 0 /\ h \in Nat /\ h < Limit
    BY <1>1, WindowAssumption DEF LOG!Slots
<1>3. \A i \in 0..Limit : LOG!SlotOf(log, i) = IF h + i < Limit THEN h + i ELSE h + i - Limit
    BY <1>1, <1>2, Around DEF LOG!SlotOf
<1>4. \A i \in 0..Limit : LOG!SlotOf(log, i) \in LOG!Slots
    BY <1>2, <1>3 DEF LOG!Slots
<1>5. LOG!SlotOf(log, 0) = log.head
    BY <1>1, <1>2, <1>3
<1>6. \A i, j \in 0..(Limit - 1) : LOG!SlotOf(log, i) = LOG!SlotOf(log, j) => i = j
    BY <1>2, <1>3
<1>7. ASSUME NEW d \in 0..Limit, NEW i \in 0..Limit, d + i <= Limit
      PROVE  (LOG!SlotOf(log, d) + i) % Limit = LOG!SlotOf(log, d + i)
    <2>1. PICK s \in Nat : s = LOG!SlotOf(log, d) /\ s < Limit
        BY <1>2, <1>4 DEF LOG!Slots
    <2>2. s = IF h + d < Limit THEN h + d ELSE h + d - Limit
        BY <1>3, <2>1
    <2>3. (s + i) % Limit = IF s + i < Limit THEN s + i ELSE s + i - Limit
        BY <1>2, <1>7, <2>1, Around
    <2>4. d + i \in 0..Limit
        BY <1>2, <1>7
    <2>5. LOG!SlotOf(log, d + i) = IF h + (d + i) < Limit THEN h + (d + i) ELSE h + (d + i) - Limit
        BY <1>3, <2>4
    <2>6. QED
        BY <1>2, <1>7, <2>1, <2>2, <2>3, <2>5
<1>8. QED
    BY <1>4, <1>5, <1>6, <1>7

(* What a key was admitted and its log no longer holds.                    *)
Forgotten(k, log) == AdmittedBy(k, now) - log.count

(* A log holds the latest of what its key was admitted, each request at    *)
(* the instant it was; what it no longer holds has left the window.        *)
LogRecords(k, log) ==
    /\ log \in LOG!Log
    /\ Forgotten(k, log) >= 0
    /\ Forgotten(k, log) <= AdmittedBy(k, now - WindowMs)
    /\ \A i \in 0..(log.count - 1) :
          /\ log.times[LOG!SlotOf(log, i)] <= now
          /\ AdmittedBy(k, log.times[LOG!SlotOf(log, i)] - 1) <= Forgotten(k, log) + i
          /\ Forgotten(k, log) + i < AdmittedBy(k, log.times[LOG!SlotOf(log, i)])

(* A key with no log was admitted nothing.                                 *)
LogsRecord ==
    /\ DOMAIN logs \subseteq Keys
    /\ \A k \in DOMAIN logs : LogRecords(k, logs[k])
    /\ \A k \in Keys \ DOMAIN logs : AdmittedBy(k, now) = 0

(* The fields of a log.                                                    *)
LEMMA LogFields ==
    ASSUME NEW log \in LOG!Log
    PROVE  /\ log.head \in LOG!Slots
           /\ log.count \in Nat /\ log.count <= Limit /\ Limit \in Nat /\ Limit > 0
           /\ log.times \in [LOG!Slots -> 0..MaxTime] /\ MaxTime \in Nat
           /\ \A i \in 0..Limit : log.times[LOG!SlotOf(log, i)] \in 0..MaxTime
<1>1. /\ log.head \in LOG!Slots /\ log.count \in 0..Limit
      /\ log.times \in [LOG!Slots -> 0..MaxTime]
    BY DEF LOG!Log
<1>2. \A i \in 0..Limit : LOG!SlotOf(log, i) \in LOG!Slots
    BY <1>1, SlotsOfLog
<1>3. QED
    BY <1>1, <1>2, WindowAssumption, HarnessAssumption

(* Read from the head, the entries of a log are in order of time.          *)
LEMMA LogIsInOrder ==
    ASSUME History, NEW k \in Keys, NEW log, LogRecords(k, log),
           NEW i \in 0..(log.count - 1), NEW j \in 0..(log.count - 1), i <= j
    PROVE  log.times[LOG!SlotOf(log, i)] <= log.times[LOG!SlotOf(log, j)]
<1>1. /\ log.count \in Nat /\ log.count <= Limit /\ Limit \in Nat
      /\ \A x \in 0..Limit : log.times[LOG!SlotOf(log, x)] \in 0..MaxTime
    BY LogFields DEF LogRecords
<1>2. i \in 0..Limit /\ j \in 0..Limit
    BY <1>1
<1>3. PICK s \in Nat : s = log.times[LOG!SlotOf(log, i)]
    BY <1>1, <1>2
<1>4. PICK t \in Nat : t = log.times[LOG!SlotOf(log, j)]
    BY <1>1, <1>2
<1>5. PICK base : base = Forgotten(k, log)
    OBVIOUS
<1>6. base \in Int
    BY <1>1, <1>5, HistoryIs DEF Forgotten, History, HarnessTypeOK
<1>7. AdmittedBy(k, s - 1) <= base + i /\ base + j < AdmittedBy(k, t)
    BY <1>3, <1>4, <1>5 DEF LogRecords
<1>8. ASSUME t < s
      PROVE  FALSE
    <2>1. t \in Int /\ s - 1 \in Int /\ t <= s - 1
        BY <1>3, <1>4, <1>8
    <2>2. AdmittedBy(k, t) <= AdmittedBy(k, s - 1) /\ AdmittedBy(k, t) \in Nat /\ AdmittedBy(k, s - 1) \in Nat
        BY <2>1, HistoryIs
    <2>3. QED
        BY <1>6, <1>7, <2>2
<1>9. QED
    BY <1>3, <1>4, <1>8

(* Expiry leaves exactly what is in the trailing window.                   *)
LEMMA ExpiryIsExact ==
    ASSUME History, NEW k \in Keys, NEW log, LogRecords(k, log)
    PROVE  /\ LogRecords(k, LOG!Expire(log, now))
           /\ Forgotten(k, LOG!Expire(log, now)) = AdmittedBy(k, now - WindowMs)
           /\ LOG!Expire(log, now).count # 0 =>
                 LOG!Expire(log, now).times[LOG!Expire(log, now).head] > now - WindowMs
<1>1. PICK n : n = log.count
    OBVIOUS
<1>2. PICK base : base = Forgotten(k, log)
    OBVIOUS
<1>3. /\ log \in LOG!Log /\ log.head \in LOG!Slots /\ log.times \in [LOG!Slots -> 0..MaxTime]
      /\ n \in Nat /\ n <= Limit /\ Limit \in Nat /\ Limit > 0
      /\ \A i \in 0..Limit : log.times[LOG!SlotOf(log, i)] \in 0..MaxTime
    BY <1>1, LogFields DEF LogRecords
<1>4. /\ now \in Nat /\ WindowMs \in Nat /\ WindowMs > 0 /\ MaxTime \in Nat
      /\ \A t \in Int : AdmittedBy(k, t) \in Nat
      /\ \A s, t \in Int : s <= t => AdmittedBy(k, s) <= AdmittedBy(k, t)
    BY HistoryIs, WindowAssumption, HarnessAssumption
<1>5. PICK all \in Nat : all = AdmittedBy(k, now)
    BY <1>4
<1>6. PICK gone \in Nat : gone = AdmittedBy(k, now - WindowMs)
    BY <1>4
<1>7. base = all - n /\ base >= 0 /\ base <= gone /\ gone <= all
    <2>1. now - WindowMs \in Int /\ now \in Int /\ now - WindowMs <= now
        BY <1>4
    <2>2. AdmittedBy(k, now - WindowMs) <= AdmittedBy(k, now)
        BY <1>4, <2>1
    <2>3. QED
        BY <1>1, <1>2, <1>5, <1>6, <2>2 DEF LogRecords, Forgotten
<1> DEFINE Time(i) == log.times[LOG!SlotOf(log, i)]
           Live == {i \in 0..n : i = n \/ Time(i) > now - WindowMs}
<1>8. \A i \in 0..(n - 1) :
         /\ Time(i) \in Nat /\ Time(i) <= MaxTime /\ Time(i) <= now
         /\ AdmittedBy(k, Time(i) - 1) <= base + i /\ base + i < AdmittedBy(k, Time(i))
    <2>1. \A i \in 0..(n - 1) : i \in 0..Limit
        BY <1>3
    <2>2. \A i \in 0..(n - 1) : Time(i) \in Nat /\ Time(i) <= MaxTime
        BY <1>3, <1>4, <2>1
    <2>3. QED
        BY <1>1, <1>2, <2>2 DEF LogRecords
<1>9. PICK dead \in Live : \A i \in Live : dead <= i
    <2>1. Live \in SUBSET Nat /\ n \in Live
        BY <1>3
    <2> HIDE DEF Live
    <2>2. QED
        BY <2>1, LeastNumber
<1>10. LOG!Min(Live) = dead
    <2>1. Live \in SUBSET Nat
        BY <1>3
    <2> HIDE DEF Live
    <2>2. QED
        BY <1>9, <2>1, LeastIsMin
<1>11. PICK kept : kept = LOG!Expire(log, now)
    OBVIOUS
<1>12. kept = [log EXCEPT !.head = LOG!SlotOf(log, dead), !.count = n - dead]
    BY <1>1, <1>10, <1>11 DEF LOG!Expire
<1>13. dead \in 0..n /\ dead \in Nat /\ dead <= n /\ dead \in 0..Limit
    BY <1>3, <1>9
<1>14. /\ kept \in LOG!Log
       /\ kept.times = log.times /\ kept.head = LOG!SlotOf(log, dead) /\ kept.count = n - dead
    <2>1. LOG!SlotOf(log, dead) \in LOG!Slots
        BY <1>3, <1>13, SlotsOfLog
    <2>2. n - dead \in 0..Limit
        BY <1>3, <1>13
    <2>3. QED
        BY <1>3, <1>12, <2>1, <2>2 DEF LOG!Log
<1>15. \A i \in 0..(n - dead) : kept.times[LOG!SlotOf(kept, i)] = Time(dead + i)
    <2>1. \A i \in 0..(n - dead) : i \in 0..Limit /\ dead + i <= Limit
        BY <1>3, <1>13
    <2>2. \A i \in 0..(n - dead) : (LOG!SlotOf(log, dead) + i) % Limit = LOG!SlotOf(log, dead + i)
        BY <1>3, <1>13, <2>1, SlotsOfLog
    <2>3. QED
        BY <1>14, <2>2 DEF LOG!SlotOf
<1>16. Forgotten(k, kept) = base + dead
    BY <1>3, <1>5, <1>7, <1>13, <1>14 DEF Forgotten
<1>17. base + dead <= gone
    <2>1. CASE dead = 0
        BY <1>7, <2>1
    <2>2. CASE dead # 0
        <3>1. dead - 1 \in 0..(n - 1) /\ dead - 1 \notin Live
            <4>1. \A i \in Live : dead <= i
                BY <1>9
            <4> HIDE DEF Live
            <4>2. QED
                BY <1>3, <1>13, <2>2, <4>1
        <3>2. Time(dead - 1) <= now - WindowMs
            BY <1>3, <1>4, <1>8, <3>1
        <3>3. AdmittedBy(k, Time(dead - 1)) <= gone /\ AdmittedBy(k, Time(dead - 1)) \in Nat
            <4>1. Time(dead - 1) \in Int /\ now - WindowMs \in Int
                BY <1>4, <1>8, <3>1
            <4>2. QED
                BY <1>4, <1>6, <3>2, <4>1
        <3>4. base + (dead - 1) < AdmittedBy(k, Time(dead - 1))
            BY <1>8, <3>1
        <3>5. QED
            BY <1>6, <1>7, <1>5, <1>3, <1>13, <3>3, <3>4
    <2>3. QED
        BY <2>1, <2>2
<1>18. dead # n => Time(dead) > now - WindowMs
    BY <1>9
<1>19. gone <= base + dead
    <2>1. CASE dead = n
        BY <1>3, <1>5, <1>7, <2>1
    <2>2. CASE dead # n
        <3>1. dead \in 0..(n - 1)
            BY <1>3, <1>13, <2>2
        <3>2. Time(dead) - 1 \in Int /\ now - WindowMs \in Int /\ now - WindowMs <= Time(dead) - 1
            BY <1>4, <1>8, <1>18, <2>2, <3>1
        <3>3. gone <= AdmittedBy(k, Time(dead) - 1) /\ AdmittedBy(k, Time(dead) - 1) \in Nat
            BY <1>4, <1>6, <3>2
        <3>4. AdmittedBy(k, Time(dead) - 1) <= base + dead
            BY <1>8, <3>1
        <3>5. QED
            BY <1>3, <1>5, <1>6, <1>7, <1>13, <3>3, <3>4
    <2>3. QED
        BY <2>1, <2>2
<1>20. base + dead = gone
    BY <1>3, <1>5, <1>6, <1>7, <1>13, <1>17, <1>19
<1>21. ASSUME NEW i \in 0..(kept.count - 1)
       PROVE  /\ kept.times[LOG!SlotOf(kept, i)] <= now
              /\ AdmittedBy(k, kept.times[LOG!SlotOf(kept, i)] - 1) <= Forgotten(k, kept) + i
              /\ Forgotten(k, kept) + i < AdmittedBy(k, kept.times[LOG!SlotOf(kept, i)])
    <2>1. i \in 0..(n - dead) /\ dead + i \in 0..(n - 1)
        BY <1>3, <1>13, <1>14
    <2>2. kept.times[LOG!SlotOf(kept, i)] = Time(dead + i)
        BY <1>15, <2>1
    <2>3. Forgotten(k, kept) + i = base + (dead + i)
        BY <1>3, <1>5, <1>7, <1>13, <1>16, <2>1
    <2> HIDE DEF Time
    <2>4. QED
        BY <1>8, <2>1, <2>2, <2>3
<1>22. LogRecords(k, kept)
    BY <1>6, <1>14, <1>16, <1>20, <1>21 DEF LogRecords
<1>23. kept.count # 0 => kept.times[kept.head] > now - WindowMs
    <2> SUFFICES ASSUME kept.count # 0
                 PROVE  kept.times[kept.head] > now - WindowMs
        OBVIOUS
    <2>1. dead # n
        BY <1>3, <1>13, <1>14
    <2>2. QED
        BY <1>14, <1>18, <2>1
<1>24. QED
    BY <1>6, <1>11, <1>16, <1>20, <1>22, <1>23

(* A log keeps recording as long as its key is admitted nothing more.      *)
LEMMA RecordsLast ==
    ASSUME History, NEW k \in Keys, NEW log, LogRecords(k, log),
           NEW n \in Nat, n >= now, now' = n,
           \A s \in Int : AdmittedBy(k, s)' = AdmittedBy(k, s)
    PROVE  LogRecords(k, log)'
<1>1. /\ log \in LOG!Log /\ log.count \in Nat /\ log.count <= Limit /\ Limit \in Nat
      /\ MaxTime \in Nat
      /\ \A i \in 0..Limit : log.times[LOG!SlotOf(log, i)] \in 0..MaxTime
    BY LogFields DEF LogRecords
<1>2. /\ now \in Nat /\ WindowMs \in Nat /\ WindowMs > 0
      /\ \A s, t \in Int : s <= t => AdmittedBy(k, s) <= AdmittedBy(k, t)
      /\ \A t \in Int : AdmittedBy(k, t) \in Nat
      /\ AdmittedBy(k, n) = AdmittedBy(k, now)
    BY HistoryIs, WindowAssumption
<1>3. AdmittedBy(k, n)' = AdmittedBy(k, n) /\ AdmittedBy(k, now)' = AdmittedBy(k, n)'
    OBVIOUS
<1>4. AdmittedBy(k, now - WindowMs)' = AdmittedBy(k, n - WindowMs)
    <2>1. n - WindowMs \in Int
        BY <1>2
    <2>2. AdmittedBy(k, now - WindowMs)' = AdmittedBy(k, n - WindowMs)'
        OBVIOUS
    <2>3. QED
        BY <2>1, <2>2
<1>5. AdmittedBy(k, now - WindowMs) <= AdmittedBy(k, n - WindowMs)
    BY <1>2
<1>6. PICK base : base = Forgotten(k, log)
    OBVIOUS
<1>7. Forgotten(k, log)' = base
    BY <1>2, <1>3, <1>6 DEF Forgotten
<1>8. base \in Nat /\ base <= AdmittedBy(k, now - WindowMs)
    BY <1>1, <1>2, <1>6 DEF LogRecords, Forgotten
<1>9. base <= AdmittedBy(k, n - WindowMs)
    BY <1>2, <1>5, <1>8
<1>10. ASSUME NEW i \in 0..(log.count - 1)
       PROVE  /\ log.times[LOG!SlotOf(log, i)] <= n
              /\ AdmittedBy(k, log.times[LOG!SlotOf(log, i)] - 1)' <= base + i
              /\ base + i < AdmittedBy(k, log.times[LOG!SlotOf(log, i)])'
    <2>1. PICK t \in Int : t = log.times[LOG!SlotOf(log, i)]
        <3>1. i \in 0..Limit
            BY <1>1
        <3>2. QED
            BY <1>1, <3>1
    <2>2. t <= now /\ AdmittedBy(k, t - 1) <= base + i /\ base + i < AdmittedBy(k, t)
        BY <1>6, <2>1 DEF LogRecords
    <2>3. AdmittedBy(k, t - 1)' = AdmittedBy(k, t - 1) /\ AdmittedBy(k, t)' = AdmittedBy(k, t)
        BY <2>1
    <2>4. t <= n
        BY <1>2, <2>1, <2>2
    <2>5. QED
        BY <2>1, <2>2, <2>3, <2>4
<1>11. QED
    BY <1>1, <1>4, <1>7, <1>8, <1>9, <1>10 DEF LogRecords

(* A log is written back.                                                  *)
LEMMA WriteKeepsLogs ==
    ASSUME History, LogsRecord, NEW k \in Keys, NEW log, LOG!Keep(k, log), LogRecords(k, log)',
           now' = now,
           \A x \in Keys \ {k} : \A s \in Int : AdmittedBy(x, s)' = AdmittedBy(x, s)
    PROVE  LogsRecord'
<1>1. /\ DOMAIN logs' = DOMAIN logs \cup {k} /\ logs'[k] = log
      /\ \A x \in DOMAIN logs : x # k => logs'[x] = logs[x]
    BY DEF LOG!Keep
<1>2. now \in Nat /\ now \in Int
    BY DEF History, HarnessTypeOK
<1>3. \A x \in Keys \ {k} : AdmittedBy(x, now)' = AdmittedBy(x, now)
    BY <1>2
<1>4. ASSUME NEW x \in DOMAIN logs', x # k
      PROVE  LogRecords(x, logs[x])'
    <2>1. x \in DOMAIN logs /\ x \in Keys \ {k} /\ logs'[x] = logs[x]
        BY <1>1, <1>4 DEF LogsRecord
    <2>2. PICK l : l = logs[x]
        OBVIOUS
    <2>3. LogRecords(x, l)
        BY <2>1, <2>2 DEF LogsRecord
    <2>4. LogRecords(x, l)'
        <3>1. now >= now /\ now' = now
            BY <1>2
        <3>2. QED
            BY <1>2, <2>1, <2>3, <3>1, RecordsLast
    <2>5. QED
        BY <2>1, <2>2, <2>4
<1>5. LogRecords(k, logs[k])'
    BY <1>1
<1>6. DOMAIN logs' \subseteq Keys
    BY <1>1 DEF LogsRecord
<1>7. \A x \in Keys \ DOMAIN logs' : AdmittedBy(x, now)' = 0
    BY <1>1, <1>3 DEF LogsRecord
<1>8. QED
    BY <1>4, <1>5, <1>6, <1>7 DEF LogsRecord

(* The log a call looks at, up to date.                                    *)
LEMMA LogIsExact ==
    ASSUME History, LogsRecord, NEW k \in Keys
    PROVE  /\ LogRecords(k, LOG!LogFor(k))
           /\ LOG!LogFor(k).count = AdmittedBy(k, now) - AdmittedBy(k, now - WindowMs)
           /\ LOG!LogFor(k).count # 0 =>
                 LOG!LogFor(k).times[LOG!LogFor(k).head] > now - WindowMs
<1>1. PICK log : log = IF k \in DOMAIN logs THEN logs[k] ELSE LOG!NewLog
    OBVIOUS
<1>2. now \in Nat /\ AdmittedBy(k, now) \in Nat /\ AdmittedBy(k, now - WindowMs) \in Nat
    BY HistoryIs, WindowAssumption
<1>3. LogRecords(k, log)
    <2>1. CASE k \in DOMAIN logs
        BY <1>1, <2>1 DEF LogsRecord
    <2>2. CASE k \notin DOMAIN logs
        <3>1. AdmittedBy(k, now) = 0
            BY <2>2 DEF LogsRecord
        <3>2. log.count = 0 /\ log \in LOG!Log
            BY <1>1, <2>2, WindowAssumption, HarnessAssumption DEF LOG!NewLog, LOG!Log, LOG!Slots
        <3>3. Forgotten(k, log) = 0
            BY <3>1, <3>2 DEF Forgotten
        <3>4. QED
            BY <1>2, <3>2, <3>3 DEF LogRecords
    <2>3. QED
        BY <2>1, <2>2
<1>4. LOG!LogFor(k) = LOG!Expire(log, now)
    BY <1>1 DEF LOG!LogFor
<1>5. PICK kept : kept = LOG!Expire(log, now)
    OBVIOUS
<1>6. /\ LogRecords(k, kept) /\ Forgotten(k, kept) = AdmittedBy(k, now - WindowMs)
      /\ kept.count # 0 => kept.times[kept.head] > now - WindowMs
    BY <1>3, <1>5, ExpiryIsExact
<1>7. kept.count \in Nat
    BY <1>6, LogFields DEF LogRecords
<1>8. kept.count = AdmittedBy(k, now) - AdmittedBy(k, now - WindowMs)
    BY <1>2, <1>6, <1>7 DEF Forgotten
<1>9. QED
    BY <1>4, <1>5, <1>6, <1>8

(* Where a request is written, and what is left of what was there.         *)
LEMMA AppendIs ==
    ASSUME now \in 0..MaxTime, NEW log \in LOG!Log, NEW cost \in Nat, log.count + cost <= Limit
    PROVE  /\ LOG!Append(log, cost) \in LOG!Log
           /\ LOG!Append(log, cost).count = log.count + cost
           /\ \A i \in 0..(log.count + cost - 1) :
                 LOG!Append(log, cost).times[LOG!SlotOf(LOG!Append(log, cost), i)] =
                    IF i < log.count THEN log.times[LOG!SlotOf(log, i)] ELSE now
<1>1. PICK n : n = log.count
    OBVIOUS
<1>2. /\ log.head \in LOG!Slots /\ n \in Nat /\ n <= Limit /\ Limit \in Nat /\ Limit > 0
      /\ log.times \in [LOG!Slots -> 0..MaxTime]
    BY <1>1, LogFields
<1> DEFINE written == {LOG!SlotOf(log, n + i) : i \in 0..(cost - 1)}
           times == [s \in LOG!Slots |-> IF s \in written THEN now ELSE log.times[s]]
<1>3. PICK new : new = LOG!Append(log, cost)
    OBVIOUS
<1>4. new = [log EXCEPT !.times = times, !.count = n + cost]
    BY <1>1, <1>3 DEF LOG!Append
<1>5. new.times = times /\ new.head = log.head /\ new.count = n + cost
    BY <1>4 DEF LOG!Log
<1>6. new \in LOG!Log
    <2>1. times \in [LOG!Slots -> 0..MaxTime]
        BY <1>2
    <2>2. n + cost \in 0..Limit
        BY <1>1, <1>2
    <2> HIDE DEF times
    <2>3. QED
        BY <1>4, <2>1, <2>2 DEF LOG!Log
<1>7. \A i \in 0..(Limit - 1) : LOG!SlotOf(log, i) \in LOG!Slots
    BY <1>2, SlotsOfLog
<1>8. \A i, j \in 0..(Limit - 1) : LOG!SlotOf(log, i) = LOG!SlotOf(log, j) => i = j
    BY <1>2, SlotsOfLog
<1>9. ASSUME NEW i \in 0..(n + cost - 1)
      PROVE  new.times[LOG!SlotOf(new, i)] = IF i < n THEN log.times[LOG!SlotOf(log, i)] ELSE now
    <2>1. i \in 0..(Limit - 1)
        BY <1>1, <1>2
    <2>2. LOG!SlotOf(new, i) = LOG!SlotOf(log, i)
        BY <1>5 DEF LOG!SlotOf
    <2>3. new.times[LOG!SlotOf(new, i)] =
            IF LOG!SlotOf(log, i) \in written THEN now ELSE log.times[LOG!SlotOf(log, i)]
        BY <1>5, <1>7, <2>1, <2>2
    <2>4. ASSUME i < n
          PROVE  LOG!SlotOf(log, i) \notin written
        <3> SUFFICES ASSUME NEW j \in 0..(cost - 1), LOG!SlotOf(log, i) = LOG!SlotOf(log, n + j)
                     PROVE  FALSE
            OBVIOUS
        <3>1. n + j \in 0..(Limit - 1)
            BY <1>1, <1>2
        <3>2. i = n + j
            BY <1>8, <2>1, <3>1, Zenon
        <3>3. QED
            BY <1>2, <2>4, <3>2
    <2>5. ASSUME i >= n
          PROVE  LOG!SlotOf(log, i) \in written
        <3>1. i - n \in 0..(cost - 1) /\ n + (i - n) = i
            BY <1>2, <2>5
        <3>2. QED
            BY <3>1
    <2> HIDE DEF written
    <2>6. QED
        BY <1>2, <2>3, <2>4, <2>5
<1>10. QED
    BY <1>1, <1>3, <1>5, <1>6, <1>9

(* A request that is admitted is recorded.                                 *)
LEMMA AppendRecords ==
    ASSUME History, NEW k \in Keys, NEW log, LogRecords(k, log),
           NEW cost \in Nat, log.count + cost <= Limit, NEW new, new = LOG!Append(log, cost), NEW n, n = now, now' = n,
           \A s \in Int : AdmittedBy(k, s)' =
                             IF s >= n THEN AdmittedBy(k, s) + cost ELSE AdmittedBy(k, s)
    PROVE  LogRecords(k, new)'
<1>1. new = LOG!Append(log, cost)
    OBVIOUS
<1>2. /\ n \in Nat /\ n <= MaxTime /\ MaxTime \in Nat /\ WindowMs \in Nat /\ WindowMs > 0
      /\ \A t \in Int : AdmittedBy(k, t) \in Nat
      /\ \A s, t \in Int : s <= t => AdmittedBy(k, s) <= AdmittedBy(k, t)
    <2>1. n \in Nat /\ n <= MaxTime /\ MaxTime \in Nat
        BY HarnessAssumption DEF History, HarnessTypeOK
    <2>2. /\ \A t \in Int : AdmittedBy(k, t) \in Nat
          /\ \A s, t \in Int : s <= t => AdmittedBy(k, s) <= AdmittedBy(k, t)
        BY HistoryIs, Zenon
    <2>3. QED
        <3>1. WindowMs \in Nat /\ WindowMs > 0
            BY WindowAssumption
        <3>2. QED
            BY <2>1, <2>2, <3>1, Zenon
<1>3. /\ log \in LOG!Log /\ log.count \in Nat /\ log.count <= Limit /\ Limit \in Nat
      /\ \A i \in 0..Limit : log.times[LOG!SlotOf(log, i)] \in 0..MaxTime
    BY LogFields DEF LogRecords
<1>4. PICK c \in Nat : c = log.count
    BY <1>3
<1>5. /\ new \in LOG!Log /\ new.count = c + cost
      /\ \A i \in 0..(c + cost - 1) :
            new.times[LOG!SlotOf(new, i)] = IF i < c THEN log.times[LOG!SlotOf(log, i)] ELSE n
    BY <1>1, <1>2, <1>3, <1>4, AppendIs
<1>6. PICK base \in Nat : base = Forgotten(k, log)
    BY <1>2, <1>3 DEF Forgotten, LogRecords
<1>7. base = AdmittedBy(k, n) - c /\ base <= AdmittedBy(k, n - WindowMs)
    BY <1>4, <1>6 DEF Forgotten, LogRecords
<1>8. AdmittedBy(k, now)' = AdmittedBy(k, n) + cost
    <2>1. AdmittedBy(k, n)' = AdmittedBy(k, n) + cost
        BY <1>2
    <2>2. AdmittedBy(k, now)' = AdmittedBy(k, n)'
        OBVIOUS
    <2>3. QED
        BY <2>1, <2>2
<1>9. AdmittedBy(k, now - WindowMs)' = AdmittedBy(k, n - WindowMs)
    <2>1. n - WindowMs \in Int /\ ~ (n - WindowMs >= n)
        BY <1>2
    <2>2. AdmittedBy(k, now - WindowMs)' = AdmittedBy(k, n - WindowMs)'
        OBVIOUS
    <2>3. QED
        BY <2>1, <2>2
<1>10. Forgotten(k, new)' = base
    <2>1. AdmittedBy(k, n) \in Nat
        BY <1>2
    <2>2. QED
        BY <1>4, <1>5, <1>7, <1>8, <2>1 DEF Forgotten
<1>11. ASSUME NEW i \in 0..(new.count - 1)
       PROVE  /\ new.times[LOG!SlotOf(new, i)] <= n
              /\ AdmittedBy(k, new.times[LOG!SlotOf(new, i)] - 1)' <= base + i
              /\ base + i < AdmittedBy(k, new.times[LOG!SlotOf(new, i)])'
    <2>1. PICK t : t = new.times[LOG!SlotOf(new, i)]
        OBVIOUS
    <2>2. i \in 0..(c + cost - 1)
        BY <1>5
    <2>3. CASE i < c
        <3>1. t = log.times[LOG!SlotOf(log, i)]
            BY <1>5, <2>1, <2>2, <2>3
        <3>2. i \in 0..Limit /\ i \in 0..(log.count - 1)
            BY <1>3, <1>4, <2>2, <2>3
        <3>3. t \in Int
            BY <1>3, <3>1, <3>2
        <3>4. t <= n /\ AdmittedBy(k, t - 1) <= base + i /\ base + i < AdmittedBy(k, t)
            BY <1>6, <3>1, <3>2 DEF LogRecords
        <3>5. t - 1 \in Int /\ ~ (t - 1 >= n)
            BY <1>2, <3>3, <3>4
        <3>6. AdmittedBy(k, t - 1)' = AdmittedBy(k, t - 1)
            BY <3>5
        <3>7. AdmittedBy(k, t)' = IF t >= n THEN AdmittedBy(k, t) + cost ELSE AdmittedBy(k, t)
            BY <3>3
        <3>8. AdmittedBy(k, t) \in Nat /\ base + i \in Nat
            BY <1>2, <2>2, <3>3
        <3>9. base + i < AdmittedBy(k, t)'
            BY <3>4, <3>7, <3>8
        <3>10. QED
            BY <2>1, <3>4, <3>6, <3>9
    <2>4. CASE i >= c
        <3>1. t = n
            BY <1>4, <1>5, <2>1, <2>2, <2>4
        <3>2. n - 1 \in Int /\ ~ (n - 1 >= n) /\ n - 1 <= n /\ n \in Int
            BY <1>2
        <3>3. AdmittedBy(k, n - 1)' = AdmittedBy(k, n - 1) /\ AdmittedBy(k, n)' = AdmittedBy(k, n) + cost
            BY <3>2
        <3>4. /\ AdmittedBy(k, n - 1) <= AdmittedBy(k, n)
              /\ AdmittedBy(k, n - 1) \in Nat /\ AdmittedBy(k, n) \in Nat
            BY <1>2, <3>2
        <3>5. AdmittedBy(k, n - 1) <= base + i /\ base + i < AdmittedBy(k, n) + cost
            BY <1>4, <1>6, <1>7, <2>2, <2>4, <3>4
        <3>6. n <= n
            BY <1>2
        <3>7. QED
            BY <2>1, <3>1, <3>3, <3>5, <3>6
    <2>5. QED
        BY <1>4, <2>2, <2>3, <2>4
<1>12. base <= AdmittedBy(k, now - WindowMs)' /\ base >= 0
    BY <1>6, <1>7, <1>9
<1>13. QED
    <2>1. Forgotten(k, new)' >= 0 /\ Forgotten(k, new)' <= AdmittedBy(k, now - WindowMs)'
        BY <1>10, <1>12
    <2>2. ASSUME NEW i \in 0..(new.count - 1)
          PROVE  /\ new.times[LOG!SlotOf(new, i)] <= now'
                 /\ AdmittedBy(k, new.times[LOG!SlotOf(new, i)] - 1)' <= Forgotten(k, new)' + i
                 /\ Forgotten(k, new)' + i < AdmittedBy(k, new.times[LOG!SlotOf(new, i)])'
        BY <1>10, <1>11
    <2>3. QED
        BY <1>5, <2>1, <2>2, Zenon DEF LogRecords

(* What is in the trailing window at an instant.                           *)
LEMMA InWindowIs ==
    ASSUME NEW k, NEW t \in Int
    PROVE  LOG!E!InWindow(k, t) = AdmittedBy(k, t) - AdmittedBy(k, t - WindowMs)
<1>1. LOG!E!InWindow(k, t) = AdmittedIn(k, t - WindowMs + 1, t)
    BY SameLog DEF LOG!E!InWindow
<1>2. (t - WindowMs + 1) - 1 = t - WindowMs
    BY WindowAssumption
<1>3. QED
    BY <1>1, <1>2 DEF AdmittedIn

(* A log decides as the trailing window would.                             *)
LEMMA LogDecides ==
    ASSUME History, LogsRecord, NEW k \in Keys, NEW cost
    PROVE  LOG!Fits(LOG!LogFor(k), cost) <=> LOG!E!Fits(k, cost)
<1>1. now \in Int
    BY HistoryIs
<1>2. LOG!LogFor(k).count = LOG!E!InWindow(k, now)
    BY <1>1, LogIsExact, InWindowIs
<1>3. QED
    BY <1>2 DEF LOG!Fits, LOG!E!Fits

(* And its wait is exact.                                                  *)
LEMMA LogWaits ==
    ASSUME History, LogsRecord, NEW k \in Keys
    PROVE  /\ LOG!WaitFor(LOG!LogFor(k)) = LOG!E!Wait(k)
           /\ LOG!E!Wait(k) \in Nat /\ LOG!E!Wait(k) <= WindowMs
<1>1. PICK log : log = LOG!LogFor(k)
    OBVIOUS
<1>2. /\ LogRecords(k, log)
      /\ log.count = AdmittedBy(k, now) - AdmittedBy(k, now - WindowMs)
      /\ log.count # 0 => log.times[log.head] > now - WindowMs
    BY <1>1, LogIsExact
<1>3. /\ log.head \in LOG!Slots /\ log.count \in Nat /\ log.count <= Limit
      /\ Limit \in Nat /\ Limit > 0
      /\ log.times \in [LOG!Slots -> 0..MaxTime]
    BY <1>2, LogFields DEF LogRecords
<1>4. /\ now \in Nat /\ WindowMs \in Nat /\ WindowMs > 0
      /\ \A t \in Int : AdmittedBy(k, t) \in Nat
      /\ \A s, t \in Int : s <= t => AdmittedBy(k, s) <= AdmittedBy(k, t)
      /\ \A t \in Int : t >= now => AdmittedBy(k, t) = AdmittedBy(k, now)
    BY HistoryIs, WindowAssumption
<1> DEFINE Enough == {d \in 0..WindowMs : LOG!E!InWindow(k, now + d) < Limit}
<1>5. ASSUME NEW d \in 0..WindowMs
      PROVE  LOG!E!InWindow(k, now + d) = AdmittedBy(k, now) - AdmittedBy(k, now + d - WindowMs)
    <2>1. now + d \in Int /\ now + d >= now
        BY <1>4
    <2>2. QED
        BY <1>4, <2>1, InWindowIs
<1>6. Enough \in SUBSET Nat
    BY <1>4
<1>7. CASE log.count < Limit
    <2>1. LOG!WaitFor(log) = 0
        BY <1>7 DEF LOG!WaitFor
    <2>2. 0 \in 0..WindowMs /\ now + 0 - WindowMs = now - WindowMs
        BY <1>4
    <2>3. 0 \in Enough
        BY <1>2, <1>5, <1>7, <2>2
    <2> HIDE DEF Enough
    <2>4. \A x \in Enough : 0 <= x
        BY <1>6
    <2>5. LOG!E!Min(Enough) = 0
        BY <1>6, <2>3, <2>4, LeastIsMin
    <2>6. QED
        BY <1>1, <1>4, <2>1, <2>5 DEF LOG!E!Wait, Enough
<1>8. CASE log.count = Limit
    <2>1. PICK t \in Nat : t = log.times[log.head] /\ t > now - WindowMs /\ t <= now
        <3>1. log.times[log.head] \in Nat /\ log.times[log.head] > now - WindowMs
            BY <1>2, <1>3, <1>8, HarnessAssumption
        <3>2. 0 \in 0..(log.count - 1) /\ LOG!SlotOf(log, 0) = log.head
            BY <1>3, <1>8, SlotsOfLog
        <3>3. log.times[log.head] <= now
            BY <1>2, <3>2 DEF LogRecords
        <3>4. QED
            BY <3>1, <3>3
    <2>2. PICK base \in Nat : base = Forgotten(k, log)
        BY <1>2, <1>3, <1>4 DEF Forgotten, LogRecords
    <2>3. base = AdmittedBy(k, now) - Limit
        BY <1>8, <2>2 DEF Forgotten
    <2>4. AdmittedBy(k, t - 1) <= base /\ base < AdmittedBy(k, t)
        <3>1. 0 \in 0..(log.count - 1) /\ LOG!SlotOf(log, 0) = log.head
            BY <1>3, <1>8, SlotsOfLog
        <3>2. AdmittedBy(k, t - 1) <= base + 0 /\ base + 0 < AdmittedBy(k, t)
            BY <1>2, <2>1, <2>2, <3>1 DEF LogRecords
        <3>3. QED
            BY <2>2, <3>2
    <2>5. PICK wait \in Nat : wait = t + WindowMs - now /\ wait <= WindowMs
        BY <1>4, <2>1
    <2>6. LOG!WaitFor(log) = wait
        BY <1>3, <1>8, <2>1, <2>5 DEF LOG!WaitFor
    <2>7. wait \in Enough
        <3>1. wait \in 0..WindowMs /\ now + wait - WindowMs = t
            BY <1>4, <2>1, <2>5
        <3>2. LOG!E!InWindow(k, now + wait) = AdmittedBy(k, now) - AdmittedBy(k, t)
            BY <1>5, <3>1
        <3>3. AdmittedBy(k, now) \in Nat /\ AdmittedBy(k, t) \in Nat
            BY <1>4, <2>1
        <3>4. AdmittedBy(k, now) - AdmittedBy(k, t) < Limit
            BY <1>3, <2>2, <2>3, <2>4, <3>3
        <3>5. QED
            BY <3>1, <3>2, <3>4
    <2>8. ASSUME NEW d \in Enough, d < wait
          PROVE  FALSE
        <3>1. d \in 0..WindowMs /\ LOG!E!InWindow(k, now + d) < Limit
            OBVIOUS
        <3>2. AdmittedBy(k, now) - AdmittedBy(k, now + d - WindowMs) < Limit
            BY <1>5, <3>1
        <3>3. PICK s \in Int : s = now + d - WindowMs
            BY <1>4, <3>1
        <3>4. s <= t - 1 /\ t - 1 \in Int
            BY <1>4, <2>1, <2>5, <2>8, <3>1, <3>3
        <3>5. AdmittedBy(k, s) <= AdmittedBy(k, t - 1)
            BY <1>4, <3>4
        <3>6. AdmittedBy(k, s) \in Nat /\ AdmittedBy(k, t - 1) \in Nat /\ AdmittedBy(k, now) \in Nat
            BY <1>4, <3>4
        <3>7. QED
            BY <1>3, <2>2, <2>3, <2>4, <3>2, <3>3, <3>5, <3>6
    <2> HIDE DEF Enough
    <2>9. \A x \in Enough : wait <= x
        BY <1>6, <2>5, <2>8
    <2>10. LOG!E!Min(Enough) = wait
        BY <1>6, <2>7, <2>9, LeastIsMin
    <2>11. QED
        BY <1>1, <2>5, <2>6, <2>10 DEF LOG!E!Wait, Enough
<1>9. QED
    BY <1>3, <1>7, <1>8

(* A request that the trailing window has room for.                        *)
LEMMA DecideKeepsIntervals ==
    ASSUME History, NoIntervalExceeds(Limit),
           NEW k \in Keys, NEW cost \in Costs, NEW ok \in BOOLEAN, Decide(k, cost, ok),
           ok => AdmittedBy(k, now) - AdmittedBy(k, now - WindowMs) + cost <= Limit
    PROVE  NoIntervalExceeds(Limit)'
<1>1. /\ now' = now /\ cost \in Nat /\ now \in Nat
      /\ \A x \in Keys : \A s \in Int :
             AdmittedBy(x, s)' =
                IF ok /\ x = k /\ s >= now THEN AdmittedBy(x, s) + cost ELSE AdmittedBy(x, s)
    BY DecideKeepsHistory DEF History, HarnessTypeOK
<1>2. WindowMs \in Nat /\ WindowMs > 0 /\ Limit \in Nat
    BY WindowAssumption
<1>3. SUFFICES ASSUME NEW x \in Keys, NEW from \in 0..now
               PROVE  AdmittedBy(x, from + WindowMs - 1)' - AdmittedBy(x, from - 1)' <= Limit
    BY <1>1 DEF NoIntervalExceeds
<1>4. /\ from + WindowMs - 1 \in Int /\ from - 1 \in Int /\ ~ (from - 1 >= now)
      /\ now - WindowMs \in Int /\ from \in Nat
    BY <1>1, <1>2
<1>5. /\ AdmittedBy(x, from - 1)' = AdmittedBy(x, from - 1)
      /\ AdmittedBy(x, from + WindowMs - 1)' =
            IF ok /\ x = k /\ from + WindowMs - 1 >= now
            THEN AdmittedBy(x, from + WindowMs - 1) + cost
            ELSE AdmittedBy(x, from + WindowMs - 1)
    BY <1>1, <1>4
<1>6. CASE ok /\ x = k /\ from + WindowMs - 1 >= now
    <2>1. now - WindowMs <= from - 1
        BY <1>1, <1>2, <1>4, <1>6
    <2>2. /\ AdmittedBy(x, now - WindowMs) <= AdmittedBy(x, from - 1)
          /\ AdmittedBy(x, from + WindowMs - 1) = AdmittedBy(x, now)
          /\ AdmittedBy(x, now - WindowMs) \in Nat /\ AdmittedBy(x, from - 1) \in Nat
          /\ AdmittedBy(x, now) \in Nat
        BY <1>1, <1>4, <1>6, <2>1, HistoryIs
    <2>3. QED
        BY <1>1, <1>2, <1>5, <1>6, <2>2
<1>7. CASE ~ (ok /\ x = k /\ from + WindowMs - 1 >= now)
    BY <1>5, <1>7 DEF NoIntervalExceeds
<1>8. QED
    BY <1>6, <1>7

(* What the sliding log keeps.                                             *)
LogSound == History /\ LogsRecord /\ NoIntervalExceeds(Limit)

(* Every step of the sliding log keeps it, and is a step of the exact      *)
(* window or one that a window with no table would not take.               *)
LEMMA LogStep ==
    ASSUME LogSound, LOG!Next
    PROVE  LogSound' /\ LOG!ExactStep
<1> USE DEF LogSound
<1>1. ASSUME NEW t \in Later, LOG!Tick(t)
      PROVE  LogSound' /\ LOG!E!Tick(t)
    <2>1. Elapse(t) /\ UNCHANGED logs
        BY <1>1, Zenon DEF LOG!Tick, LOG!Elapse, LOG!AdvanceClock, Elapse, AdvanceClock
    <2>2. /\ History' /\ now' = t /\ t \in Nat /\ t > now
          /\ \A k \in Keys : \A s \in Int : AdmittedBy(k, s)' = AdmittedBy(k, s)
          /\ \A k \in Keys : AdmittedBy(k, now)' = AdmittedBy(k, now)
        BY <2>1, ElapseKeepsHistory
    <2>3. NoIntervalExceeds(Limit)'
        BY <2>1, ElapseKeepsIntervals, WindowAssumption
    <2>4. ASSUME NEW k \in DOMAIN logs
          PROVE  LogRecords(k, logs[k])'
        <3>1. PICK l : l = logs[k]
            OBVIOUS
        <3>2. k \in Keys /\ LogRecords(k, l) /\ logs'[k] = l
            BY <2>1, <3>1 DEF LogsRecord
        <3>3. t >= now
            BY <2>2 DEF History, HarnessTypeOK
        <3>4. LogRecords(k, l)'
            BY <2>2, <3>2, <3>3, RecordsLast
        <3>5. QED
            BY <3>2, <3>4
    <2>5. LogsRecord'
        BY <2>1, <2>2, <2>4 DEF LogsRecord
    <2>6. LOG!E!Tick(t)
        BY <2>1, Zenon DEF LOG!E!Tick, LOG!E!Elapse, LOG!E!AdvanceClock, Elapse, AdvanceClock
    <2>7. QED
        BY <2>2, <2>3, <2>5, <2>6
<1>2. ASSUME HarnessTypeOK', UNCHANGED <<now, admitted>>
      PROVE  /\ History' /\ NoIntervalExceeds(Limit)'
             /\ UNCHANGED logs => LogsRecord'
             /\ \A k \in Keys : LOG!Keep(k, LOG!LogFor(k)) => LogsRecord'
    <2>1. /\ History' /\ now' = now
          /\ \A k \in Keys : \A s \in Int : AdmittedBy(k, s)' = AdmittedBy(k, s)
        BY <1>2, OthersKeepHistory
    <2>2. NoIntervalExceeds(Limit)'
        BY <1>2 DEF NoIntervalExceeds, AdmittedBy
    <2>3. ASSUME UNCHANGED logs
          PROVE  LogsRecord'
        BY <1>2, <2>3 DEF LogsRecord, LogRecords, Forgotten, AdmittedBy
    <2>4. ASSUME NEW k \in Keys, LOG!Keep(k, LOG!LogFor(k))
          PROVE  LogsRecord'
        <3>1. PICK log : log = LOG!LogFor(k)
            OBVIOUS
        <3>2. LogRecords(k, log)
            BY <3>1, LogIsExact
        <3>3. LogRecords(k, log)'
            BY <1>2, <3>2 DEF LogRecords, Forgotten, AdmittedBy
        <3>4. QED
            BY <2>1, <2>4, <3>1, <3>3, WriteKeepsLogs
    <2>5. QED
        BY <2>1, <2>2, <2>3, <2>4
<1>3. CASE LOG!AnotherKey(DOMAIN logs) /\ UNCHANGED <<logs, admitted>>
    <2>1. AnotherKey(DOMAIN logs)
        BY <1>3, SameLog, Zenon DEF LOG!AnotherKey, AnotherKey
    <2>2. HarnessTypeOK' /\ now' = now
        BY <2>1, TableStepIsTyped DEF History, AtTheTable
    <2>3. LOG!ExactStep
        BY <1>3, Zenon DEF LOG!ExactStep, LOG!AtTheTable
    <2>4. QED
        BY <1>2, <1>3, <2>2, <2>3
<1>4. ASSUME NEW k \in Keys, NEW cost \in Costs, LOG!Admit(k, cost)
      PROVE  LogSound' /\ LOG!E!Admit(k, cost)
    <2>1. PICK log : log = LOG!LogFor(k)
        OBVIOUS
    <2>2. PICK new : new = LOG!Append(log, cost)
        OBVIOUS
    <2>3. Decide(k, cost, TRUE) /\ log.count + cost <= Limit /\ LOG!Keep(k, new)
        BY <1>4, <2>1, <2>2, Zenon
        DEF LOG!Admit, LOG!Fits, LOG!Decide, LOG!AnswerAllow, Decide, AnswerAllow
    <2>4. LogRecords(k, log) /\ log.count = AdmittedBy(k, now) - AdmittedBy(k, now - WindowMs)
        BY <2>1, LogIsExact
    <2>5. History' /\ NoIntervalExceeds(Limit)'
        BY <2>3, <2>4, DecideKeepsHistory, DecideKeepsIntervals
    <2>6. /\ now' = now /\ cost \in Nat
          /\ \A x \in Keys : \A s \in Int :
                 AdmittedBy(x, s)' =
                    IF x = k /\ s >= now THEN AdmittedBy(x, s) + cost ELSE AdmittedBy(x, s)
        <3>1. /\ now' = now /\ cost \in Nat
              /\ \A x \in Keys : \A s \in Int :
                    AdmittedBy(x, s)' =
                        IF TRUE /\ x = k /\ s >= now THEN AdmittedBy(x, s) + cost ELSE AdmittedBy(x, s)
            BY <2>3, DecideKeepsHistory, Zenon
        <3>2. QED
            BY <3>1
    <2>7. PICK n : n = now
        OBVIOUS
    <2>8. /\ \A s \in Int : AdmittedBy(k, s)' =
                IF s >= n THEN AdmittedBy(k, s) + cost ELSE AdmittedBy(k, s)
          /\ \A x \in Keys \ {k} : \A s \in Int : AdmittedBy(x, s)' = AdmittedBy(x, s)
        BY <2>6, <2>7
    <2>9. LogRecords(k, new)'
        BY <2>2, <2>3, <2>4, <2>6, <2>7, <2>8, AppendRecords
    <2>10. LogsRecord'
        BY <2>3, <2>6, <2>8, <2>9, WriteKeepsLogs
    <2>11. LOG!E!Admit(k, cost)
        <3>1. LOG!E!Fits(k, cost)
            BY <2>1, <2>3, LogDecides DEF LOG!Fits
        <3>2. QED
            BY <2>3, <3>1, Zenon DEF LOG!E!Admit, LOG!E!Decide, LOG!E!AnswerAllow, Decide, AnswerAllow
    <2>12. QED
        BY <2>5, <2>10, <2>11
<1>5. ASSUME NEW k \in Keys, NEW cost \in Costs, LOG!Refuse(k, cost)
      PROVE  LogSound' /\ LOG!E!Refuse(k, cost)
    <2>1. /\ Decide(k, cost, FALSE) /\ LOG!Keep(k, LOG!LogFor(k))
          /\ ~ LOG!Fits(LOG!LogFor(k), cost)
        BY <1>5, Zenon DEF LOG!Refuse, LOG!Decide, LOG!AnswerAllow, Decide, AnswerAllow
    <2>2. HarnessTypeOK' /\ UNCHANGED <<now, admitted>>
        BY <2>1, AllowKeepsType DEF Decide, AnswerAllow, History
    <2>3. ~ LOG!E!Fits(k, cost)
        BY <2>1, LogDecides
    <2>4. LOG!E!Refuse(k, cost)
        BY <2>1, <2>3, Zenon DEF LOG!E!Refuse, LOG!E!Decide, LOG!E!AnswerAllow, Decide, AnswerAllow
    <2>5. QED
        BY <1>2, <2>1, <2>2, <2>4
<1>6. ASSUME NEW k \in Keys, NEW cost \in Costs, LOG!RefuseNewKey(k, cost)
      PROVE  LogSound' /\ LOG!ExactStep
    <2>1. AnswerAllow(k, cost, FALSE) /\ UNCHANGED <<logs, admitted>>
        BY <1>6, Zenon DEF LOG!RefuseNewKey, LOG!TurnAway, LOG!AnswerAllow, AnswerAllow
    <2>2. HarnessTypeOK' /\ now' = now
        BY <2>1, AllowKeepsType DEF History, AnswerAllow
    <2>3. LOG!TurnAway(k, cost, DOMAIN logs) /\ UNCHANGED admitted
        BY <1>6, Zenon DEF LOG!RefuseNewKey
    <2>4. k \notin DOMAIN logs /\ LOG!TableFull(DOMAIN logs)
        BY <2>3, Zenon DEF LOG!TurnAway, LOG!HasRoom
    <2>5. LOG!ExactStep
        BY <2>3, <2>4, Zenon DEF LOG!ExactStep, LOG!AtTheTable
    <2>6. QED
        BY <1>2, <2>1, <2>2, <2>5
<1>7. ASSUME NEW k \in Keys, LOG!RetryAfterUntracked(k)
      PROVE  LogSound' /\ LOG!ExactStep
    <2>1. /\ Answer("retryAfter", k, WaitUntracked(DOMAIN logs)) /\ k \notin DOMAIN logs
          /\ UNCHANGED <<logs, admitted>>
        BY <1>7, SameLog, Zenon
        DEF LOG!RetryAfterUntracked, LOG!AnswerUntracked, LOG!Answer, Answer
    <2>2. WaitUntracked(DOMAIN logs) \in Nat /\ "retryAfter" \in Readings
        BY DEF WaitUntracked, Unknown, Readings
    <2>3. HarnessTypeOK' /\ now' = now
        BY <2>1, <2>2, AnswerKeepsType DEF History, Answer
    <2>4. CASE LOG!TableFull(DOMAIN logs)
        <3>1. LOG!ExactStep
            BY <1>7, <2>1, <2>4, Zenon DEF LOG!ExactStep, LOG!AtTheTable, LOG!RetryAfterUntracked
        <3>2. QED
            BY <1>2, <2>1, <2>3, <3>1
    <2>5. CASE ~ LOG!TableFull(DOMAIN logs)
        <3>1. WaitUntracked(DOMAIN logs) = 0
            BY <2>5, SameLog DEF WaitUntracked
        <3>2. LOG!LogFor(k).count = 0
            <4>1. AdmittedBy(k, now) = 0 /\ AdmittedBy(k, now - WindowMs) = 0
                <5>1. /\ AdmittedBy(k, now) \in Nat /\ AdmittedBy(k, now - WindowMs) \in Nat
                      /\ AdmittedBy(k, now - WindowMs) <= AdmittedBy(k, now)
                    BY HistoryIs, WindowAssumption
                <5>2. AdmittedBy(k, now) = 0
                    BY <2>1 DEF LogsRecord
                <5>3. QED
                    BY <5>1, <5>2
            <4>2. QED
                BY <4>1, LogIsExact
        <3>3. LOG!E!Wait(k) = 0
            BY <3>2, LogWaits, WindowAssumption DEF LOG!WaitFor
        <3>4. LOG!E!RetryAfter(k)
            BY <2>1, <3>1, <3>3, Zenon DEF LOG!E!RetryAfter, LOG!E!Read, LOG!E!Answer, Answer
        <3>5. QED
            BY <1>2, <2>1, <2>3, <3>4 DEF LOG!ExactStep, LOG!E!Next
    <2>6. QED
        BY <2>4, <2>5
<1>8. ASSUME NEW k \in Keys, LOG!RetryAfterTracked(k)
      PROVE  LogSound' /\ LOG!E!RetryAfter(k)
    <2>1. /\ Answer("retryAfter", k, LOG!WaitFor(LOG!LogFor(k)))
          /\ UNCHANGED admitted /\ LOG!Keep(k, LOG!LogFor(k))
        BY <1>8, Zenon DEF LOG!RetryAfterTracked, LOG!Read, LOG!Answer, Answer
    <2>2. LOG!WaitFor(LOG!LogFor(k)) = LOG!E!Wait(k) /\ LOG!E!Wait(k) \in Nat
        BY LogWaits
    <2>3. HarnessTypeOK' /\ now' = now
        BY <2>1, <2>2, AnswerKeepsType DEF History, Answer, Readings
    <2>4. LOG!E!RetryAfter(k)
        BY <2>1, <2>2, Zenon DEF LOG!E!RetryAfter, LOG!E!Read, LOG!E!Answer, Answer
    <2>5. QED
        BY <1>2, <2>1, <2>3, <2>4
<1>9. LOG!Later = Later /\ LOG!E!Later = Later
    BY DEF LOG!Later, LOG!E!Later, Later
<1>10. CASE \E t \in LOG!Later : LOG!Tick(t)
    BY <1>1, <1>9, <1>10, Zenon DEF LOG!ExactStep, LOG!E!Next
<1>11. CASE \E k \in Keys : \E cost \in Costs :
                LOG!Admit(k, cost) \/ LOG!Refuse(k, cost) \/ LOG!RefuseNewKey(k, cost)
    BY <1>4, <1>5, <1>6, <1>11, Zenon DEF LOG!ExactStep, LOG!E!Next
<1>12. CASE \E k \in Keys : LOG!RetryAfterUntracked(k) \/ LOG!RetryAfterTracked(k)
    BY <1>7, <1>8, <1>12, Zenon DEF LOG!ExactStep, LOG!E!Next
<1>13. QED
    BY <1>3, <1>10, <1>11, <1>12, Zenon DEF LOG!Next

(* It claims at most one slot.                                             *)
LEMMA LogClaim ==
    ASSUME LOG!Next
    PROVE  \/ Claims(DOMAIN logs, DOMAIN logs')
           \/ AtTheTable(DOMAIN logs) /\ UNCHANGED logs
<1>1. ASSUME NEW k \in Keys, HasRoom(k, DOMAIN logs), NEW b, LOG!Keep(k, b), UNCHANGED taken
      PROVE  Claims(DOMAIN logs, DOMAIN logs')
    BY <1>1 DEF LOG!Keep, Claims
<1>2. ASSUME UNCHANGED <<logs, taken>>
      PROVE  Claims(DOMAIN logs, DOMAIN logs')
    BY <1>2 DEF Claims
<1>3. \A k : LOG!HasRoom(k, DOMAIN logs) <=> HasRoom(k, DOMAIN logs)
    BY SameLog
<1>4. CASE LOG!AnotherKey(DOMAIN logs) /\ UNCHANGED <<logs, admitted>>
    BY <1>4, SameLog, Zenon DEF LOG!AnotherKey, AnotherKey, AtTheTable
<1>5. CASE \E t \in LOG!Later : LOG!Tick(t)
    BY <1>2, <1>5, Zenon DEF LOG!Tick
<1> SUFFICES ASSUME NEW k \in Keys,
                    \/ \E cost \in Costs :
                           LOG!Admit(k, cost) \/ LOG!Refuse(k, cost) \/ LOG!RefuseNewKey(k, cost)
                    \/ LOG!RetryAfterUntracked(k) \/ LOG!RetryAfterTracked(k)
             PROVE  Claims(DOMAIN logs, DOMAIN logs')
    BY <1>4, <1>5, Zenon DEF LOG!Next
<1>6. ASSUME NEW cost \in Costs, LOG!Admit(k, cost) \/ LOG!Refuse(k, cost)
      PROVE  Claims(DOMAIN logs, DOMAIN logs')
    BY <1>1, <1>3, <1>6, Zenon DEF LOG!Admit, LOG!Refuse
<1>7. ASSUME NEW cost \in Costs, LOG!RefuseNewKey(k, cost)
      PROVE  Claims(DOMAIN logs, DOMAIN logs')
    BY <1>2, <1>7, Zenon DEF LOG!RefuseNewKey, LOG!TurnAway
<1>8. CASE LOG!RetryAfterUntracked(k)
    BY <1>2, <1>8, Zenon DEF LOG!RetryAfterUntracked, LOG!AnswerUntracked
<1>9. CASE LOG!RetryAfterTracked(k)
    BY <1>1, <1>9, Zenon DEF LOG!RetryAfterTracked, HasRoom
<1>10. QED
    BY <1>6, <1>7, <1>8, <1>9, Zenon

(* No window is ever over the limit, and every ring is in order of time.   *)
LEMMA LogPromises ==
    ASSUME LogSound, Slots(DOMAIN logs, taken)
    PROVE  LOG!WindowCeiling /\ LOG!TypeOK
<1> USE DEF LogSound
<1>1. LOG!WindowCeiling
    <2> SUFFICES ASSUME NEW k \in Keys, NEW from \in 0..now
                 PROVE  AdmittedIn(k, from, from + WindowMs - 1) <= Limit
        BY SameLog DEF LOG!WindowCeiling
    <2>1. QED
        BY DEF NoIntervalExceeds, AdmittedIn
<1>2. LOG!WindowTypeOK
    BY DEF LOG!WindowTypeOK, LOG!HarnessTypeOK, LOG!Replies, LOG!Readings,
           History, HarnessTypeOK, Replies, Readings
<1>3. LOG!TableOK(DOMAIN logs)
    <2>1. LOG!Cardinality(DOMAIN logs) = Cardinality(DOMAIN logs)
        BY Zenon DEF LOG!Cardinality, Cardinality
    <2>2. QED
        BY <2>1 DEF LOG!TableOK, Slots
<1>4. ASSUME NEW k \in DOMAIN logs
      PROVE  /\ logs[k] \in LOG!Log
             /\ \A i, j \in 0..(logs[k].count - 1) :
                   i <= j => logs[k].times[LOG!SlotOf(logs[k], i)]
                                 <= logs[k].times[LOG!SlotOf(logs[k], j)]
    <2>1. k \in Keys /\ LogRecords(k, logs[k])
        BY DEF LogsRecord
    <2>2. QED
        BY <2>1, LogIsInOrder DEF LogRecords
<1>5. QED
    BY <1>1, <1>2, <1>3, <1>4, Zenon DEF LOG!TypeOK

-----------------------------------------------------------------------------
(* The dual bucket.                                                        *)

NoLess(x) == IF x > 0 THEN x ELSE 0

(* One dimension: the fraction is a proper one, and a full ledger carries  *)
(* none.                                                                   *)
Carries(ledger, limit) ==
    /\ ledger \in DUAL!Ledger(limit)
    /\ ledger.left = limit => ledger.credit = 0

(* What it is short of its limit.                                          *)
Lacks(ledger, limit) == (limit - ledger.left) * PeriodMs - ledger.credit

(* Never more than the limit, and a permit is there when no more than the  *)
(* rest is missing.                                                        *)
LEMMA LacksIs ==
    ASSUME NEW limit \in Nat \ {0}, NEW ledger, Carries(ledger, limit)
    PROVE  /\ PeriodMs \in Nat /\ PeriodMs > 0 /\ limit * PeriodMs \in Nat
           /\ ledger.left \in Nat /\ ledger.left <= limit
           /\ ledger.credit \in Nat /\ ledger.credit < PeriodMs
           /\ Lacks(ledger, limit) \in Nat /\ Lacks(ledger, limit) <= limit * PeriodMs
           /\ \A n \in Nat :
                 /\ n * PeriodMs \in Nat
                 /\ ledger.left >= n <=> Lacks(ledger, limit) + n * PeriodMs <= limit * PeriodMs
<1>1. PICK p \in Nat : p = PeriodMs /\ p > 0
    BY Built DEF DUAL!DualAssumption
<1>2. PICK a \in Nat : a = ledger.left /\ a <= limit
    BY DEF Carries, DUAL!Ledger
<1>3. PICK c \in Nat : c = ledger.credit /\ c < p /\ (a = limit => c = 0)
    BY <1>1, <1>2 DEF Carries, DUAL!Ledger
<1>4. PICK m \in Nat : m = limit - a
    BY <1>2
<1>5. Lacks(ledger, limit) = m * p - c
    BY <1>1, <1>2, <1>3, <1>4 DEF Lacks
<1>6. limit * p = a * p + m * p /\ a * p \in Nat /\ m * p \in Nat /\ limit * p \in Nat
    BY <1>1, <1>2, <1>4
<1>7. m * p - c \in Nat
    <2>1. CASE m = 0
        BY <1>1, <1>2, <1>3, <1>4, <2>1
    <2>2. CASE m > 0
        <3>1. m * p = p + (m - 1) * p /\ (m - 1) * p \in Nat
            BY <1>1, <1>4, <2>2
        <3>2. QED
            BY <1>1, <1>3, <1>6, <3>1
    <2>3. QED
        BY <1>4, <2>1, <2>2
<1>8. ASSUME NEW n \in Nat
      PROVE  n * p \in Nat /\ (a >= n <=> (m * p - c) + n * p <= limit * p)
    <2>1. n * p \in Nat
        BY <1>1
    <2>2. CASE a >= n
        <3>1. a * p = n * p + (a - n) * p /\ (a - n) * p \in Nat
            BY <1>1, <1>2, <2>2
        <3>2. QED
            BY <1>3, <1>6, <2>1, <2>2, <3>1
    <2>3. CASE a < n
        <3>1. n * p = a * p + p + (n - a - 1) * p /\ (n - a - 1) * p \in Nat
            BY <1>1, <1>2, <2>3
        <3>2. ~ ((m * p - c) + n * p <= limit * p)
            BY <1>1, <1>3, <1>6, <2>1, <3>1
        <3>3. QED
            BY <1>2, <2>1, <2>3, <3>2
    <2>4. QED
        BY <1>2, <2>2, <2>3
<1>9. QED
    BY <1>1, <1>2, <1>3, <1>5, <1>6, <1>7, <1>8

(* The carry loses nothing: what is missing is what was, less what accrued. *)
LEMMA ReplenishIsExact ==
    ASSUME NEW limit \in Nat \ {0}, NEW ledger, Carries(ledger, limit), NEW e \in Nat
    PROVE  /\ Carries(DUAL!Replenish(ledger, limit, e), limit)
           /\ Lacks(DUAL!Replenish(ledger, limit, e), limit) = NoLess(Lacks(ledger, limit) - limit * e)
<1>1. PICK p \in Nat : p = PeriodMs /\ p > 0
    BY LacksIs
<1>2. PICK a \in Nat : a = ledger.left /\ a <= limit
    BY LacksIs
<1>3. PICK c \in Nat : c = ledger.credit
    BY LacksIs
<1>4. PICK s \in Nat : s = limit * e
    OBVIOUS
<1>5. PICK q \in Nat : q = (c + s) \div p
    BY <1>1, <1>3, <1>4
<1>6. PICK r \in Nat : r = (c + s) % p /\ r < p
    BY <1>1, <1>3, <1>4
<1>7. p * q + r = c + s /\ p * q \in Nat
    BY <1>1, <1>3, <1>4, <1>5, <1>6
<1>8. DUAL!Replenish(ledger, limit, e) =
        IF a + q >= limit THEN [left |-> limit, credit |-> 0] ELSE [left |-> a + q, credit |-> r]
    BY <1>1, <1>2, <1>3, <1>4, <1>5, <1>6 DEF DUAL!Replenish, DUAL!Brimful
<1>9. Lacks(ledger, limit) = (limit - a) * p - c /\ (limit - a) * p \in Nat
    BY <1>1, <1>2, <1>3 DEF Lacks
<1>10. CASE a + q >= limit
    <2>1. PICK new : new = [left |-> limit, credit |-> 0]
        OBVIOUS
    <2>2. Carries(new, limit)
        BY <1>1, <2>1 DEF Carries, DUAL!Ledger
    <2>3. Lacks(new, limit) = 0
        BY <1>1, <2>1 DEF Lacks
    <2>4. p * q = (limit - a) * p + (q - (limit - a)) * p /\ (q - (limit - a)) * p \in Nat
        BY <1>1, <1>2, <1>5, <1>10
    <2>5. Lacks(ledger, limit) - s <= 0
        BY <1>3, <1>4, <1>6, <1>7, <1>9, <2>4
    <2>6. NoLess(Lacks(ledger, limit) - limit * e) = 0
        BY <1>3, <1>4, <1>9, <2>5 DEF NoLess
    <2>7. QED
        BY <1>8, <1>10, <2>1, <2>2, <2>3, <2>6
<1>11. CASE ~ (a + q >= limit)
    <2>1. PICK new : new = [left |-> a + q, credit |-> r]
        OBVIOUS
    <2>2. Carries(new, limit)
        BY <1>1, <1>2, <1>5, <1>6, <1>11, <2>1 DEF Carries, DUAL!Ledger
    <2>3. Lacks(new, limit) = (limit - (a + q)) * p - r
        BY <1>1, <2>1 DEF Lacks
    <2>4. (limit - (a + q)) * p = (limit - a) * p - p * q
        <3>1. PICK m \in Int : m = limit - a
            BY <1>2
        <3>2. (m - q) * p = m * p - p * q
            BY <1>1, <1>5, <3>1
        <3>3. limit - (a + q) = m - q
            BY <1>2, <1>5, <3>1
        <3>4. QED
            BY <3>1, <3>2, <3>3
    <2>5. (limit - (a + q)) * p = p + (limit - (a + q) - 1) * p /\ (limit - (a + q) - 1) * p \in Nat
        BY <1>1, <1>2, <1>5, <1>11
    <2>6. Lacks(new, limit) = Lacks(ledger, limit) - s
        BY <1>3, <1>4, <1>6, <1>7, <1>9, <2>3, <2>4
    <2>7. Lacks(new, limit) > 0
        BY <1>1, <1>6, <2>3, <2>5
    <2>8. NoLess(Lacks(ledger, limit) - limit * e) = Lacks(new, limit)
        BY <1>4, <2>6, <2>7 DEF NoLess
    <2>9. QED
        BY <1>8, <1>11, <2>1, <2>2, <2>8
<1>12. QED
    BY <1>10, <1>11

(* Nor does the clamp: a period refills a drained ledger.                  *)
LEMMA PeriodRefills ==
    ASSUME NEW limit \in Nat \ {0}, NEW ledger, Carries(ledger, limit), NEW d \in Nat
    PROVE  NoLess(Lacks(ledger, limit) - limit * (IF d > PeriodMs THEN PeriodMs ELSE d))
              = NoLess(Lacks(ledger, limit) - limit * d)
<1>1. PICK p \in Nat : p = PeriodMs
    BY LacksIs
<1>2. PICK o \in Nat : o = Lacks(ledger, limit) /\ o <= limit * p
    BY <1>1, LacksIs
<1>3. limit * p \in Nat /\ limit * d \in Nat
    BY <1>1
<1>4. CASE d > p
    <2>1. limit * d = limit * p + limit * (d - p) /\ limit * (d - p) \in Nat
        BY <1>1, <1>4
    <2>2. o - limit * d <= 0 /\ o - limit * p <= 0
        BY <1>2, <1>3, <2>1
    <2>3. NoLess(o - limit * d) = 0 /\ NoLess(o - limit * p) = 0
        BY <1>2, <1>3, <2>2 DEF NoLess
    <2>4. QED
        BY <1>1, <1>2, <1>4, <2>3
<1>5. CASE ~ (d > p)
    BY <1>1, <1>2, <1>5
<1>6. QED
    BY <1>4, <1>5

(* Both ledgers of a key.                                                  *)
PairOK(b, t) ==
    /\ b \in DUAL!Buckets /\ b.last <= t
    /\ Carries(b.requests, RequestsPerMin) /\ Carries(b.tokens, TokensPerMin)

(* What one dimension owes at an instant.                                  *)
OwedAt(b, d, t) ==
    NoLess(Lacks(b[d], DUAL!LimitOf[d]) - DUAL!LimitOf[d] * (t - b.last))

(* Bringing both up to date leaves exactly what is owed by then.           *)
LEMMA RefillOwes ==
    ASSUME NEW b, NEW t \in Nat, PairOK(b, t)
    PROVE  LET r == DUAL!Refill(b, t)
           IN  /\ Carries(r.requests, RequestsPerMin) /\ Carries(r.tokens, TokensPerMin)
               /\ r = [requests |-> r.requests, tokens |-> r.tokens, last |-> t]
               /\ Lacks(r.requests, RequestsPerMin) = OwedAt(b, "requests", t)
               /\ Lacks(r.tokens, TokensPerMin) = OwedAt(b, "tokens", t)
<1>1. /\ RequestsPerMin \in Nat \ {0} /\ TokensPerMin \in Nat \ {0}
      /\ PeriodMs \in Nat
    BY Built DEF DUAL!DualAssumption
<1>2. /\ b = [requests |-> b.requests, tokens |-> b.tokens, last |-> b.last]
      /\ b.last \in Nat /\ b.last <= t
      /\ Carries(b.requests, RequestsPerMin) /\ Carries(b.tokens, TokensPerMin)
    BY HarnessAssumption DEF PairOK, DUAL!Buckets
<1>3. PICK d \in Nat : d = t - b.last
    BY <1>2
<1>4. /\ OwedAt(b, "requests", t) = NoLess(Lacks(b.requests, RequestsPerMin) - RequestsPerMin * d)
      /\ OwedAt(b, "tokens", t) = NoLess(Lacks(b.tokens, TokensPerMin) - TokensPerMin * d)
    BY <1>3 DEF OwedAt, DUAL!LimitOf
<1>5. PICK r : r = DUAL!Refill(b, t)
    OBVIOUS
<1>6. CASE t <= b.last
    <2>1. r = b /\ d = 0 /\ b.last = t
        BY <1>2, <1>3, <1>5, <1>6 DEF DUAL!Refill
    <2>2. ASSUME NEW limit \in Nat \ {0}, NEW ledger, Carries(ledger, limit)
          PROVE  NoLess(Lacks(ledger, limit) - limit * 0) = Lacks(ledger, limit)
        <3>1. Lacks(ledger, limit) \in Nat
            BY <2>2, LacksIs
        <3>2. QED
            BY <3>1 DEF NoLess
    <2>3. QED
        BY <1>1, <1>2, <1>4, <1>5, <2>1, <2>2
<1>7. CASE ~ (t <= b.last)
    <2>1. PICK e \in Nat : e = IF d > PeriodMs THEN PeriodMs ELSE d
        BY <1>1
    <2>2. r = [requests |-> DUAL!Replenish(b.requests, RequestsPerMin, e),
               tokens   |-> DUAL!Replenish(b.tokens, TokensPerMin, e),
               last     |-> t]
        BY <1>3, <1>5, <1>7, <2>1 DEF DUAL!Refill
    <2>3. ASSUME NEW limit \in Nat \ {0}, NEW ledger, Carries(ledger, limit)
          PROVE  /\ Carries(DUAL!Replenish(ledger, limit, e), limit)
                 /\ Lacks(DUAL!Replenish(ledger, limit, e), limit)
                       = NoLess(Lacks(ledger, limit) - limit * d)
        BY <2>1, <2>3, ReplenishIsExact, PeriodRefills
    <2>4. QED
        BY <1>1, <1>2, <1>4, <1>5, <2>2, <2>3
<1>8. QED
    BY <1>6, <1>7

(* What the dual bucket keeps in its table.                                *)
DualSound ==
    /\ HarnessTypeOK
    /\ calls \in [Keys -> Nat]
    /\ DOMAIN buckets \subseteq Keys
    /\ \A k \in DOMAIN buckets : PairOK(buckets[k], now)

(* The two limits, and what is asked of each.                              *)
LEMMA DualDims ==
    /\ DUAL!Dims = {"requests", "tokens"} /\ DUAL!D!Dims = {"requests", "tokens"}
    /\ DUAL!LimitOf["requests"] = RequestsPerMin /\ DUAL!LimitOf["tokens"] = TokensPerMin
    /\ DUAL!D!LimitOf["requests"] = RequestsPerMin /\ DUAL!D!LimitOf["tokens"] = TokensPerMin
    /\ \A cost : DUAL!D!Charge(cost)["requests"] = 1 /\ DUAL!D!Charge(cost)["tokens"] = cost
    /\ RequestsPerMin \in Nat \ {0} /\ TokensPerMin \in Nat \ {0}
    /\ PeriodMs \in Nat /\ PeriodMs > 0
BY Built DEF DUAL!DualAssumption, DUAL!Dims, DUAL!D!Dims, DUAL!LimitOf, DUAL!D!LimitOf, DUAL!D!Charge

(* The debt one dimension of a key shows.                                  *)
DebtOf(k, d) == IF k \in DOMAIN buckets THEN OwedAt(buckets[k], d, now) ELSE 0

(* It is the debt the dual meter is shown.                                 *)
LEMMA DebtsShown ==
    /\ DUAL!DebtsMap = [k \in Keys |-> [d \in DUAL!Dims |-> DebtOf(k, d)]]
    /\ \A k \in Keys : /\ DUAL!DebtsMap[k]["requests"] = DebtOf(k, "requests")
                       /\ DUAL!DebtsMap[k]["tokens"] = DebtOf(k, "tokens")
<1>1. \A b, d : DUAL!Owed(b, d) = OwedAt(b, d, now)
    BY Zenon DEF DUAL!Owed, OwedAt, NoLess, Lacks
<1>2. DUAL!DebtsMap = [k \in Keys |-> [d \in DUAL!Dims |-> DebtOf(k, d)]]
    BY <1>1, Zenon DEF DUAL!DebtsMap, DebtOf
<1>3. QED
    BY <1>2, DualDims

(* What a call sees: both ledgers up to date, short of what is owed.       *)
LEMMA PairForOwes ==
    ASSUME DualSound, NEW k \in Keys
    PROVE  /\ PairOK(DUAL!BucketFor(k), now) /\ DUAL!BucketFor(k).last = now
           /\ Lacks(DUAL!BucketFor(k).requests, RequestsPerMin) = DebtOf(k, "requests")
           /\ Lacks(DUAL!BucketFor(k).tokens, TokensPerMin) = DebtOf(k, "tokens")
<1>1. now \in Nat /\ now \in 0..MaxTime
    BY HarnessAssumption DEF DualSound, HarnessTypeOK
<1>2. PICK b : b = DUAL!BucketFor(k)
    OBVIOUS
<1>3. ASSUME Carries(b.requests, RequestsPerMin), Carries(b.tokens, TokensPerMin),
             b = [requests |-> b.requests, tokens |-> b.tokens, last |-> now]
      PROVE  PairOK(b, now)
    BY <1>1, <1>3 DEF PairOK, DUAL!Buckets, Carries
<1>4. CASE k \in DOMAIN buckets
    <2>1. PICK c : c = buckets[k]
        OBVIOUS
    <2>2. PairOK(c, now) /\ b = DUAL!Refill(c, now)
        BY <1>2, <1>4, <2>1 DEF DualSound, DUAL!BucketFor
    <2>3. /\ Carries(b.requests, RequestsPerMin) /\ Carries(b.tokens, TokensPerMin)
          /\ b = [requests |-> b.requests, tokens |-> b.tokens, last |-> now]
          /\ Lacks(b.requests, RequestsPerMin) = OwedAt(c, "requests", now)
          /\ Lacks(b.tokens, TokensPerMin) = OwedAt(c, "tokens", now)
        BY <1>1, <2>2, RefillOwes
    <2>4. QED
        BY <1>2, <1>3, <1>4, <2>1, <2>3 DEF DebtOf
<1>5. CASE k \notin DOMAIN buckets
    <2>1. b = [requests |-> [left |-> RequestsPerMin, credit |-> 0],
               tokens |-> [left |-> TokensPerMin, credit |-> 0], last |-> now]
        BY <1>2, <1>5 DEF DUAL!BucketFor, DUAL!Full, DUAL!Brimful
    <2>2. ASSUME NEW limit \in Nat \ {0}
          PROVE  /\ Carries([left |-> limit, credit |-> 0], limit)
                 /\ Lacks([left |-> limit, credit |-> 0], limit) = 0
        BY DualDims DEF Carries, DUAL!Ledger, Lacks
    <2>3. QED
        BY <1>2, <1>3, <1>5, <2>1, <2>2, DualDims DEF DebtOf
<1>6. QED
    BY <1>4, <1>5

(* So no debt is ever more than the limit.                                 *)
LEMMA DebtsAreBounded ==
    ASSUME DualSound, NEW k \in Keys
    PROVE  /\ DebtOf(k, "requests") \in Nat /\ DebtOf(k, "requests") <= RequestsPerMin * PeriodMs
           /\ DebtOf(k, "tokens") \in Nat /\ DebtOf(k, "tokens") <= TokensPerMin * PeriodMs
<1>1. PICK b : b = DUAL!BucketFor(k)
    OBVIOUS
<1>2. /\ Carries(b.requests, RequestsPerMin) /\ Carries(b.tokens, TokensPerMin)
      /\ Lacks(b.requests, RequestsPerMin) = DebtOf(k, "requests")
      /\ Lacks(b.tokens, TokensPerMin) = DebtOf(k, "tokens")
    BY <1>1, PairForOwes DEF PairOK
<1>3. QED
    BY <1>2, LacksIs, DualDims

(* An up-to-date pair is written back.                                     *)
LEMMA KeepSetsDebts ==
    ASSUME DualSound, NEW k \in Keys, NEW b, PairOK(b, now), b.last = now, DUAL!Keep(k, b), now' = now
    PROVE  /\ DOMAIN buckets' \subseteq Keys
           /\ \A x \in DOMAIN buckets' : PairOK(buckets'[x], now')
           /\ DUAL!DebtsMap' =
                 [DUAL!DebtsMap EXCEPT ![k] =
                    [d \in DUAL!Dims |-> Lacks(b[d], DUAL!LimitOf[d])]]
<1>1. /\ DOMAIN buckets' = DOMAIN buckets \cup {k} /\ buckets'[k] = b
      /\ \A x \in DOMAIN buckets : x # k => buckets'[x] = buckets[x]
    BY DEF DUAL!Keep
<1>2. now \in Nat
    BY HarnessAssumption DEF DualSound, HarnessTypeOK
<1>3. DOMAIN buckets' \subseteq Keys /\ \A x \in DOMAIN buckets' : PairOK(buckets'[x], now')
    BY <1>1 DEF DualSound
<1>4. ASSUME NEW x \in Keys, x # k, NEW d \in DUAL!Dims
      PROVE  DebtOf(x, d)' = DebtOf(x, d)
    BY <1>1, <1>4 DEF DebtOf, OwedAt
<1>5. ASSUME NEW d \in DUAL!Dims
      PROVE  DebtOf(k, d)' = Lacks(b[d], DUAL!LimitOf[d])
    <2>1. DebtOf(k, d)' = OwedAt(b, d, now)
        BY <1>1 DEF DebtOf, OwedAt
    <2>2. DUAL!LimitOf[d] \in Nat \ {0} /\ Carries(b[d], DUAL!LimitOf[d])
        BY <1>5, DualDims DEF PairOK
    <2>3. Lacks(b[d], DUAL!LimitOf[d]) \in Nat
        BY <2>2, LacksIs
    <2>4. DUAL!LimitOf[d] * (now - b.last) = 0
        BY <1>2, <2>2
    <2>5. QED
        BY <2>1, <2>3, <2>4 DEF OwedAt, NoLess
<1>6. DUAL!DebtsMap' = [x \in Keys |-> [d \in DUAL!Dims |-> DebtOf(x, d)']]
    BY DebtsShown, DualDims DEF DUAL!DebtsMap, DebtOf, DUAL!Owed, OwedAt, NoLess, Lacks
<1>7. DUAL!DebtsMap = [x \in Keys |-> [d \in DUAL!Dims |-> DebtOf(x, d)]]
    BY DebtsShown
<1> DEFINE Set == [DUAL!DebtsMap EXCEPT ![k] = [d \in DUAL!Dims |-> Lacks(b[d], DUAL!LimitOf[d])]]
<1>8. Set = [x \in Keys |-> IF x = k THEN [d \in DUAL!Dims |-> Lacks(b[d], DUAL!LimitOf[d])]
                            ELSE [d \in DUAL!Dims |-> DebtOf(x, d)]]
    BY <1>7
<1>9. ASSUME NEW x \in Keys
      PROVE  DUAL!DebtsMap'[x] = Set[x]
    <2>1. DUAL!DebtsMap'[x] = [d \in DUAL!Dims |-> DebtOf(x, d)']
        BY <1>6
    <2> HIDE DEF Set
    <2>2. QED
        BY <1>4, <1>5, <1>8, <2>1
<1>10. DUAL!DebtsMap' = Set
    <2>1. Set = [x \in Keys |-> Set[x]]
        BY <1>8
    <2>2. DUAL!DebtsMap' = [x \in Keys |-> DUAL!DebtsMap'[x]]
        BY <1>6
    <2> HIDE DEF Set
    <2>3. QED
        BY <1>9, <2>1, <2>2, Zenon
<1>11. QED
    BY <1>3, <1>10

(* The table of an instance is the table, and its clock the clock.         *)
LEMMA SameDual ==
    /\ \A S : DUAL!TableFull(S) = TableFull(S) /\ DUAL!WaitUntracked(S) = WaitUntracked(S)
    /\ \A k, S : DUAL!HasRoom(k, S) = HasRoom(k, S)
    /\ DUAL!Later = Later /\ DUAL!D!Later = Later
<1>1. \A S : DUAL!Cardinality(S) = Cardinality(S)
    BY Zenon DEF DUAL!Cardinality, Cardinality
<1>2. \A S : DUAL!TableFull(S) = TableFull(S)
    BY <1>1 DEF DUAL!TableFull, TableFull
<1>3. \A S : DUAL!WaitUntracked(S) = WaitUntracked(S)
    BY <1>2, SMT DEF DUAL!WaitUntracked, WaitUntracked, DUAL!Unknown, Unknown
<1>4. \A k, S : DUAL!HasRoom(k, S) = HasRoom(k, S)
    BY <1>2 DEF DUAL!HasRoom, HasRoom
<1>5. DUAL!Later = Later /\ DUAL!D!Later = Later
    BY DEF DUAL!Later, DUAL!D!Later, Later
<1>6. QED
    BY <1>2, <1>3, <1>4, <1>5

(* Time pays a debt down, at its limit and to nothing.                     *)
LEMMA DebtFades ==
    ASSUME NEW s \in Nat, NEW w \in Nat, NEW b, PairOK(b, s), NEW d \in {"requests", "tokens"}
    PROVE  /\ OwedAt(b, d, s) \in Nat
           /\ OwedAt(b, d, s + w) = NoLess(OwedAt(b, d, s) - DUAL!LimitOf[d] * w)
<1>1. PICK limit \in Nat \ {0} : limit = DUAL!LimitOf[d]
    BY DualDims
<1>2. PICK o \in Nat : o = Lacks(b[d], limit)
    <2>1. Carries(b[d], limit)
        BY <1>1, DualDims DEF PairOK
    <2>2. QED
        BY <2>1, LacksIs
<1>3. PICK e \in Nat : e = s - b.last
    BY HarnessAssumption DEF PairOK, DUAL!Buckets
<1>4. (s + w) - b.last = e + w
    BY <1>3, HarnessAssumption DEF PairOK, DUAL!Buckets
<1>5. PICK x \in Nat : x = limit * e
    OBVIOUS
<1>6. PICK y \in Nat : y = limit * w
    OBVIOUS
<1>7. limit * (e + w) = x + y
    BY <1>5, <1>6
<1>8. OwedAt(b, d, s) = NoLess(o - x) /\ OwedAt(b, d, s + w) = NoLess(o - (x + y))
    BY <1>1, <1>2, <1>3, <1>4, <1>5, <1>7 DEF OwedAt
<1>9. NoLess(o - (x + y)) = NoLess(NoLess(o - x) - y) /\ NoLess(o - x) \in Nat
    BY DEF NoLess
<1>10. QED
    BY <1>1, <1>6, <1>8, <1>9

(* So a tick of the clock is a tick of the dual meter.                     *)
LEMMA TickPays ==
    ASSUME DualSound, NEW t \in Later, now' = t, UNCHANGED buckets
    PROVE  /\ \A k \in DOMAIN buckets' : PairOK(buckets'[k], now')
           /\ DUAL!DebtsMap' =
                 [k \in Keys |-> [d \in DUAL!D!Dims |->
                    DUAL!D!PaidDown(DUAL!DebtsMap[k][d], DUAL!D!LimitOf[d], t - now)]]
<1>1. PICK n \in Nat : n = now
    BY HarnessAssumption DEF DualSound, HarnessTypeOK
<1>2. PICK w \in Nat : w = t - n /\ t = n + w
    BY <1>1, LaterIsLater DEF DualSound
<1>3. ASSUME NEW k \in DOMAIN buckets
      PROVE  PairOK(buckets[k], n) /\ PairOK(buckets[k], t) /\ k \in Keys
    <2>1. PairOK(buckets[k], n) /\ k \in Keys
        BY <1>1 DEF DualSound
    <2>2. QED
        BY <1>1, <1>2, <2>1, HarnessAssumption DEF PairOK, DUAL!Buckets
<1>4. ASSUME NEW k \in Keys, NEW d \in DUAL!D!Dims
      PROVE  DebtOf(k, d)' = DUAL!D!PaidDown(DebtOf(k, d), DUAL!D!LimitOf[d], t - now)
    <2>1. PICK limit \in Nat \ {0} : limit = DUAL!LimitOf[d] /\ limit = DUAL!D!LimitOf[d]
        BY DualDims
    <2>2. PICK y \in Nat : y = limit * w
        OBVIOUS
    <2>3. ASSUME NEW o \in Nat
          PROVE  DUAL!D!PaidDown(o, limit, w) = NoLess(o - y)
        BY <2>2 DEF DUAL!D!PaidDown, NoLess
    <2>4. CASE k \in DOMAIN buckets
        <3>1. PICK b : b = buckets[k]
            OBVIOUS
        <3>2. /\ OwedAt(b, d, n) \in Nat
              /\ OwedAt(b, d, n + w) = NoLess(OwedAt(b, d, n) - limit * w)
            BY <1>3, <2>1, <2>4, <3>1, DebtFades, DualDims
        <3>3. DebtOf(k, d) = OwedAt(b, d, n)
            BY <1>1, <2>4, <3>1 DEF DebtOf
        <3>4. DebtOf(k, d)' = OwedAt(b, d, n + w)
            BY <1>2, <2>4, <3>1 DEF DebtOf, OwedAt
        <3>5. QED
            BY <1>1, <1>2, <2>1, <2>2, <2>3, <3>2, <3>3, <3>4
    <2>5. CASE k \notin DOMAIN buckets
        <3>1. DebtOf(k, d) = 0 /\ DebtOf(k, d)' = 0
            BY <2>5 DEF DebtOf
        <3>2. NoLess(0 - y) = 0
            BY DEF NoLess
        <3>3. QED
            BY <1>1, <1>2, <2>1, <2>3, <3>1, <3>2
    <2>6. QED
        BY <2>4, <2>5
<1>5. DUAL!DebtsMap' = [k \in Keys |-> [d \in DUAL!Dims |-> DebtOf(k, d)']]
    BY DebtsShown, DualDims DEF DUAL!DebtsMap, DebtOf, DUAL!Owed, OwedAt, NoLess, Lacks
<1>6. \A k \in Keys : \A d \in DUAL!D!Dims : DUAL!DebtsMap[k][d] = DebtOf(k, d)
    BY DebtsShown, DualDims
<1>7. DUAL!D!Dims = DUAL!Dims
    BY DualDims
<1>8. DUAL!DebtsMap' =
        [k \in Keys |-> [d \in DUAL!D!Dims |->
            DUAL!D!PaidDown(DUAL!DebtsMap[k][d], DUAL!D!LimitOf[d], t - now)]]
    <2>1. \A k \in Keys : \A d \in DUAL!D!Dims :
            DebtOf(k, d)' = DUAL!D!PaidDown(DUAL!DebtsMap[k][d], DUAL!D!LimitOf[d], t - now)
        BY <1>4, <1>6, Zenon
    <2>2. QED
        BY <1>5, <1>7, <2>1, Zenon
<1>9. QED
    BY <1>3, <1>8

(* What a ledger has left decides what fits, and when one permit will.     *)
LEMMA LedgerAnswers ==
    ASSUME NEW limit \in Nat \ {0}, NEW ledger, Carries(ledger, limit)
    PROVE  LET over == Lacks(ledger, limit) - (limit - 1) * PeriodMs
           IN  /\ DUAL!WaitFor(ledger, limit) =
                     IF over <= 0 THEN 0 ELSE DUAL!D!MsToAccrue(over, limit)
               /\ DUAL!WaitFor(ledger, limit) \in Nat
               /\ \A n \in Nat : NoLess(Lacks(ledger, limit) - limit * n) + PeriodMs <= limit * PeriodMs
                                    <=> n >= DUAL!WaitFor(ledger, limit)
<1>1. PICK p \in Nat : p = PeriodMs /\ p > 0
    BY LacksIs
<1>2. PICK a \in Nat : a = ledger.left /\ a <= limit
    BY LacksIs
<1>3. PICK c \in Nat : c = ledger.credit /\ c < p
    BY <1>1, LacksIs
<1>4. PICK o \in Nat : o = Lacks(ledger, limit) /\ o <= limit * p
    BY <1>1, LacksIs
<1>5. PICK full \in Nat : full = limit * p
    BY <1>1
<1>6. (limit - 1) * p = full - p
    BY <1>1, <1>5
<1>7. PICK over \in Int : over = o - (full - p)
    OBVIOUS
<1>8. a >= 1 <=> over <= 0
    <2>1. 1 * p = p
        BY <1>1
    <2>2. a >= 1 <=> o + 1 * p <= limit * p
        BY <1>1, <1>2, <1>4, LacksIs
    <2>3. QED
        BY <1>1, <1>4, <1>5, <1>7, <2>1, <2>2
<1>9. CASE a >= 1
    <2>1. DUAL!WaitFor(ledger, limit) = 0
        BY <1>2, <1>9 DEF DUAL!WaitFor
    <2>2. ASSUME NEW n \in Nat
          PROVE  NoLess(o - limit * n) + p <= full
        <3>1. limit * n \in Nat
            OBVIOUS
        <3>2. p <= full
            BY <1>4, <1>7, <1>8, <1>9
        <3>3. QED
            BY <1>1, <1>4, <1>5, <1>7, <1>8, <1>9, <3>1, <3>2 DEF NoLess
    <2>3. \A n \in Nat : n >= DUAL!WaitFor(ledger, limit)
        BY <2>1
    <2>4. \A n \in Nat : NoLess(Lacks(ledger, limit) - limit * n) + PeriodMs <= limit * PeriodMs
        BY <1>1, <1>4, <1>5, <2>2
    <2>5. Lacks(ledger, limit) - (limit - 1) * PeriodMs <= 0
        BY <1>1, <1>4, <1>6, <1>7, <1>8, <1>9
    <2>6. QED
        BY <2>1, <2>3, <2>4, <2>5
<1>10. CASE ~ (a >= 1)
    <2>1. o = full - c
        BY <1>1, <1>2, <1>3, <1>4, <1>5, <1>10 DEF Lacks
    <2>2. over = p - c /\ over > 0
        BY <1>1, <1>3, <1>5, <1>7, <2>1
    <2>3. PICK wait \in Nat : wait = (over + limit - 1) \div limit
        BY <2>2
    <2>4. PICK rest \in Nat : rest = (over + limit - 1) % limit /\ rest < limit
        BY <2>2
    <2>5. over + limit - 1 = limit * wait + rest /\ limit * wait \in Nat
        BY <2>2, <2>3, <2>4
    <2>6. DUAL!WaitFor(ledger, limit) = wait
        <3>1. PeriodMs - ledger.credit + limit - 1 = over + limit - 1
            BY <1>1, <1>3, <2>2
        <3>2. QED
            BY <1>2, <1>10, <2>3, <3>1 DEF DUAL!WaitFor
    <2>7. DUAL!D!MsToAccrue(over, limit) = wait
        BY <2>3 DEF DUAL!D!MsToAccrue
    <2>8. ASSUME NEW n \in Nat
          PROVE  NoLess(o - limit * n) + p <= full <=> n >= wait
        <3>1. limit * n \in Nat /\ full >= p
            <4>1. full = p + (limit - 1) * p /\ (limit - 1) * p \in Nat
                BY <1>1, <1>5
            <4>2. QED
                BY <1>1, <4>1
        <3>2. NoLess(o - limit * n) + p <= full <=> over <= limit * n
            BY <1>1, <1>3, <1>4, <1>5, <2>1, <2>2, <3>1 DEF NoLess
        <3>3. CASE n >= wait
            <4>1. limit * n = limit * wait + limit * (n - wait) /\ limit * (n - wait) \in Nat
                BY <2>3, <3>3
            <4>2. over <= limit * n
                BY <2>2, <2>4, <2>5, <3>1, <4>1
            <4>3. QED
                BY <3>2, <3>3, <4>2
        <3>4. CASE n < wait
            <4>1. limit * wait = limit * n + limit + limit * (wait - n - 1)
                  /\ limit * (wait - n - 1) \in Nat
                BY <2>3, <3>4
            <4>2. over > limit * n
                BY <2>2, <2>4, <2>5, <3>1, <4>1
            <4>3. QED
                BY <2>2, <2>3, <3>1, <3>2, <3>4, <4>2
        <3>5. QED
            BY <2>3, <3>3, <3>4
    <2>9. QED
        BY <1>1, <1>4, <1>5, <1>6, <1>7, <2>2, <2>3, <2>6, <2>7, <2>8
<1>11. QED
    BY <1>9, <1>10

(* What is charged is owed.                                                *)
LEMMA ChargeOwes ==
    ASSUME NEW limit \in Nat \ {0}, NEW ledger, Carries(ledger, limit),
           NEW n \in Nat, ledger.left >= n
    PROVE  LET new == [ledger EXCEPT !.left = @ - n]
           IN  Carries(new, limit) /\ Lacks(new, limit) = Lacks(ledger, limit) + n * PeriodMs
<1>1. PICK p \in Nat : p = PeriodMs /\ p > 0
    BY LacksIs
<1>2. PICK a \in Nat : a = ledger.left /\ a <= limit
    BY LacksIs
<1>3. PICK c \in Nat : c = ledger.credit /\ c < p /\ (a = limit => c = 0)
    BY <1>1, <1>2, LacksIs DEF Carries
<1>4. PICK new : new = [ledger EXCEPT !.left = @ - n]
    OBVIOUS
<1>5. new = [left |-> a - n, credit |-> c] /\ a - n \in 0..limit
    BY <1>2, <1>3, <1>4 DEF Carries, DUAL!Ledger
<1>6. Carries(new, limit)
    BY <1>1, <1>2, <1>3, <1>5 DEF Carries, DUAL!Ledger
<1>7. Lacks(new, limit) = (limit - (a - n)) * p - c
    BY <1>1, <1>5 DEF Lacks
<1>8. (limit - (a - n)) * p = (limit - a) * p + n * p
    <2>1. PICK m \in Nat : m = limit - a
        BY <1>2
    <2>2. limit - (a - n) = m + n /\ (m + n) * p = m * p + n * p
        BY <1>1, <1>2, <2>1
    <2>3. QED
        BY <2>1, <2>2
<1>9. Lacks(ledger, limit) = (limit - a) * p - c
    BY <1>1, <1>2, <1>3 DEF Lacks
<1>10. (limit - a) * p \in Nat /\ n * p \in Nat
    BY <1>1, <1>2
<1>11. QED
    BY <1>1, <1>3, <1>4, <1>6, <1>7, <1>8, <1>9, <1>10

(* Up to date, both ledgers give the dual meter's answers.                 *)
LEMMA DualAnswers ==
    ASSUME DualSound, NEW k \in Keys, NEW b, b = DUAL!BucketFor(k)
    PROVE  /\ \A cost \in Nat : DUAL!D!Fits(k, cost) <=> DUAL!Affordable(b, cost)
           /\ DUAL!WaitBoth(b) = DUAL!D!WaitBoth(k) /\ DUAL!WaitBoth(b) \in Nat
           /\ k \notin DOMAIN buckets => DUAL!WaitBoth(b) = 0
<1>1. PICK r \in Nat \ {0} : r = RequestsPerMin
    BY DualDims
<1>2. PICK w \in Nat \ {0} : w = TokensPerMin
    BY DualDims
<1>3. /\ PairOK(b, now)
      /\ Lacks(b.requests, r) = DebtOf(k, "requests")
      /\ Lacks(b.tokens, w) = DebtOf(k, "tokens")
    BY <1>1, <1>2, PairForOwes
<1>4. Carries(b.requests, r) /\ Carries(b.tokens, w)
    BY <1>1, <1>2, <1>3 DEF PairOK
<1>5. /\ DUAL!DebtsMap[k]["requests"] = Lacks(b.requests, r)
      /\ DUAL!DebtsMap[k]["tokens"] = Lacks(b.tokens, w)
    BY <1>3, DebtsShown
<1>6. ASSUME NEW cost \in Nat
      PROVE  DUAL!D!Fits(k, cost) <=> DUAL!Affordable(b, cost)
    <2>1. DUAL!D!Fits(k, cost) <=>
            /\ Lacks(b.requests, r) + 1 * PeriodMs <= r * PeriodMs
            /\ Lacks(b.tokens, w) + cost * PeriodMs <= w * PeriodMs
        BY <1>1, <1>2, <1>5, DualDims DEF DUAL!D!Fits
    <2>2. /\ b.requests.left >= 1 <=> Lacks(b.requests, r) + 1 * PeriodMs <= r * PeriodMs
          /\ b.tokens.left >= cost <=> Lacks(b.tokens, w) + cost * PeriodMs <= w * PeriodMs
        BY <1>4, LacksIs
    <2>3. QED
        BY <2>1, <2>2, Zenon DEF DUAL!Affordable
<1>7. /\ DUAL!WaitFor(b.requests, r) = DUAL!D!Wait(k, "requests")
      /\ DUAL!WaitFor(b.tokens, w) = DUAL!D!Wait(k, "tokens")
      /\ DUAL!WaitFor(b.requests, r) \in Nat /\ DUAL!WaitFor(b.tokens, w) \in Nat
    BY <1>1, <1>2, <1>4, <1>5, LedgerAnswers, DualDims DEF DUAL!D!Wait
<1>8. DUAL!WaitBoth(b) = DUAL!D!WaitBoth(k) /\ DUAL!WaitBoth(b) \in Nat
    BY <1>1, <1>2, <1>7 DEF DUAL!WaitBoth, DUAL!D!WaitBoth
<1>9. ASSUME k \notin DOMAIN buckets
      PROVE  DUAL!WaitBoth(b) = 0
    <2>1. b.requests.left = r /\ b.tokens.left = w
        BY <1>1, <1>2, <1>9 DEF DUAL!BucketFor, DUAL!Full, DUAL!Brimful
    <2>2. DUAL!WaitFor(b.requests, r) = 0 /\ DUAL!WaitFor(b.tokens, w) = 0
        BY <2>1 DEF DUAL!WaitFor
    <2>3. QED
        BY <1>1, <1>2, <2>2 DEF DUAL!WaitBoth
<1>10. QED
    BY <1>6, <1>8, <1>9

(* A pair that both have been charged.                                     *)
Charged(b, cost) == [b EXCEPT !.requests.left = @ - 1, !.tokens.left = @ - cost]

(* Both now owe it.                                                        *)
LEMMA ChargePair ==
    ASSUME DualSound, NEW k \in Keys, NEW b, b = DUAL!BucketFor(k),
           NEW cost \in Nat, DUAL!Affordable(b, cost),
           NEW new, new = Charged(b, cost)
    PROVE  /\ PairOK(new, now) /\ new.last = now
           /\ Lacks(new.requests, RequestsPerMin) = DebtOf(k, "requests") + PeriodMs
           /\ Lacks(new.tokens, TokensPerMin) = DebtOf(k, "tokens") + cost * PeriodMs
<1>1. PICK r \in Nat \ {0} : r = RequestsPerMin
    BY DualDims
<1>2. PICK w \in Nat \ {0} : w = TokensPerMin
    BY DualDims
<1>3. /\ PairOK(b, now) /\ b.last = now
      /\ Lacks(b.requests, r) = DebtOf(k, "requests")
      /\ Lacks(b.tokens, w) = DebtOf(k, "tokens")
    BY <1>1, <1>2, PairForOwes
<1>4. Carries(b.requests, r) /\ Carries(b.tokens, w)
    BY <1>1, <1>2, <1>3 DEF PairOK
<1>5. b.requests.left >= 1 /\ b.tokens.left >= cost
    BY DEF DUAL!Affordable
<1>6. PICK calls1 : calls1 = [b.requests EXCEPT !.left = @ - 1]
    OBVIOUS
<1>7. PICK work : work = [b.tokens EXCEPT !.left = @ - cost]
    OBVIOUS
<1>8. Carries(calls1, r) /\ Lacks(calls1, r) = Lacks(b.requests, r) + 1 * PeriodMs
    BY <1>4, <1>5, <1>6, ChargeOwes
<1>9. Carries(work, w) /\ Lacks(work, w) = Lacks(b.tokens, w) + cost * PeriodMs
    BY <1>4, <1>5, <1>7, ChargeOwes
<1>10. b = [requests |-> b.requests, tokens |-> b.tokens, last |-> b.last]
    BY <1>3 DEF PairOK, DUAL!Buckets
<1>11. new = [requests |-> calls1, tokens |-> work, last |-> b.last]
    BY <1>6, <1>7, <1>10 DEF Charged
<1>12. PairOK(new, now) /\ new.last = now
    BY <1>1, <1>2, <1>3, <1>8, <1>9, <1>11 DEF PairOK, DUAL!Buckets, Carries
<1>13. 1 * PeriodMs = PeriodMs
    BY DualDims
<1>14. /\ Lacks(new.requests, RequestsPerMin) = DebtOf(k, "requests") + PeriodMs
       /\ Lacks(new.tokens, TokensPerMin) = DebtOf(k, "tokens") + cost * PeriodMs
    <2>1. new.requests = calls1 /\ new.tokens = work
        BY <1>11
    <2>2. QED
        BY <1>1, <1>2, <1>3, <1>8, <1>9, <1>13, <2>1, Zenon
<1>15. QED
    BY <1>12, <1>14

(* Every step of the dual bucket keeps its ledgers, and is a step of the   *)
(* dual meter or one that a meter with no table would not take.            *)
LEMMA DualBucketStep ==
    ASSUME DualSound, DUAL!Next
    PROVE  DualSound' /\ DUAL!DualStep
<1>1. ASSUME NEW t \in Later, DUAL!Tick(t)
      PROVE  DualSound' /\ DUAL!D!Tick(t)
    <2>1. AdvanceClock(t) /\ UNCHANGED <<buckets, calls>>
        BY <1>1, Zenon DEF DUAL!Tick, DUAL!AdvanceClock, AdvanceClock
    <2>2. HarnessTypeOK'
        BY <2>1, ClockAdvances DEF DualSound
    <2>3. now' = t
        BY <2>1 DEF AdvanceClock
    <2>4. /\ \A k \in DOMAIN buckets' : PairOK(buckets'[k], now')
          /\ DUAL!DebtsMap' =
                [k \in Keys |-> [d \in DUAL!D!Dims |->
                    DUAL!D!PaidDown(DUAL!DebtsMap[k][d], DUAL!D!LimitOf[d], t - now)]]
        BY <2>1, <2>3, TickPays
    <2>5. DualSound'
        BY <2>1, <2>2, <2>4 DEF DualSound
    <2>6. DUAL!D!Tick(t)
        BY <2>1, <2>4, Zenon DEF DUAL!D!Tick, DUAL!D!AdvanceClock, AdvanceClock
    <2>7. QED
        BY <2>5, <2>6
<1>2. ASSUME HarnessTypeOK', calls' \in [Keys -> Nat], UNCHANGED <<now, buckets>>
      PROVE  DualSound' /\ DUAL!DebtsMap' = DUAL!DebtsMap
    BY <1>2 DEF DualSound, DUAL!DebtsMap, DUAL!Owed
<1>3. ASSUME DUAL!OpenWindow
      PROVE  DualSound' /\ DUAL!D!OpenWindow
    <2>1. MeasureFromNow /\ calls' = [k \in Keys |-> 0] /\ UNCHANGED buckets
        BY <1>3, Zenon DEF DUAL!OpenWindow, DUAL!MeasureFromNow, MeasureFromNow
    <2>2. HarnessTypeOK' /\ now' = now /\ calls' \in [Keys -> Nat]
        BY <2>1, MeasureKeepsType DEF DualSound, MeasureFromNow
    <2>3. DualSound' /\ DUAL!DebtsMap' = DUAL!DebtsMap
        BY <1>2, <2>1, <2>2
    <2>4. DUAL!D!OpenWindow
        BY <2>1, <2>3, Zenon DEF DUAL!D!OpenWindow, DUAL!D!MeasureFromNow, MeasureFromNow
    <2>5. QED
        BY <2>3, <2>4
<1>4. ASSUME DUAL!AnotherKey(DOMAIN buckets), UNCHANGED <<buckets, calls>>
      PROVE  DualSound' /\ DUAL!DualStep
    <2>1. AnotherKey(DOMAIN buckets)
        BY <1>4, SameDual, Zenon DEF DUAL!AnotherKey, AnotherKey
    <2>2. HarnessTypeOK' /\ now' = now
        BY <2>1, TableStepIsTyped DEF DualSound, AtTheTable
    <2>3. DualSound' /\ DUAL!DebtsMap' = DUAL!DebtsMap
        BY <1>2, <1>4, <2>2 DEF DualSound
    <2>4. DUAL!DualStep
        BY <1>4, <2>3, Zenon DEF DUAL!DualStep, DUAL!AtTheTable
    <2>5. QED
        BY <2>3, <2>4
<1>5. ASSUME NEW k \in Keys, NEW b, PairOK(b, now), b.last = now, DUAL!Keep(k, b),
             HarnessTypeOK', calls' \in [Keys -> Nat], now' = now
      PROVE  /\ DualSound'
             /\ DUAL!DebtsMap' = [DUAL!DebtsMap EXCEPT ![k] =
                   [d \in DUAL!Dims |-> Lacks(b[d], DUAL!LimitOf[d])]]
    BY <1>5, KeepSetsDebts DEF DualSound
<1>6. ASSUME NEW k \in Keys, DUAL!Keep(k, DUAL!BucketFor(k)),
             HarnessTypeOK', UNCHANGED calls, now' = now
      PROVE  DualSound' /\ DUAL!DebtsMap' = DUAL!DebtsMap
    <2>1. PICK b : b = DUAL!BucketFor(k)
        OBVIOUS
    <2>2. /\ PairOK(b, now) /\ b.last = now
          /\ Lacks(b.requests, RequestsPerMin) = DebtOf(k, "requests")
          /\ Lacks(b.tokens, TokensPerMin) = DebtOf(k, "tokens")
        BY <2>1, PairForOwes
    <2>3. /\ DualSound'
          /\ DUAL!DebtsMap' = [DUAL!DebtsMap EXCEPT ![k] =
                [d \in DUAL!Dims |-> Lacks(b[d], DUAL!LimitOf[d])]]
        BY <1>5, <1>6, <2>1, <2>2 DEF DualSound
    <2>4. \A d \in DUAL!Dims : Lacks(b[d], DUAL!LimitOf[d]) = DebtOf(k, d)
        BY <2>2, DualDims
    <2>5. [d \in DUAL!Dims |-> Lacks(b[d], DUAL!LimitOf[d])] = [d \in DUAL!Dims |-> DebtOf(k, d)]
        BY <2>4, Zenon
    <2>6. DUAL!DebtsMap[k] = [d \in DUAL!Dims |-> DebtOf(k, d)]
        BY DebtsShown
    <2>7. [DUAL!DebtsMap EXCEPT ![k] = DUAL!DebtsMap[k]] = DUAL!DebtsMap
        BY Zenon DEF DUAL!DebtsMap
    <2>8. QED
        BY <2>3, <2>5, <2>6, <2>7, Zenon
<1>7. ASSUME NEW k \in Keys, NEW cost \in Costs, DUAL!Admit(k, cost)
      PROVE  DualSound' /\ DUAL!D!Admit(k, cost)
    <2>1. PICK b : b = DUAL!BucketFor(k)
        OBVIOUS
    <2>2. PICK new : new = Charged(b, cost)
        OBVIOUS
    <2>3. /\ DUAL!Affordable(b, cost) /\ DUAL!Keep(k, new)
          /\ calls' = [calls EXCEPT ![k] = @ + 1]
          /\ AnswerAllow(k, cost, TRUE)
        BY <1>7, <2>1, <2>2, Zenon DEF DUAL!Admit, DUAL!AnswerAllow, AnswerAllow, Charged
    <2>4. cost \in Nat
        BY HarnessAssumption
    <2>5. DUAL!D!Fits(k, cost)
        BY <2>1, <2>3, <2>4, DualAnswers
    <2>6. /\ PairOK(new, now) /\ new.last = now
          /\ Lacks(new.requests, RequestsPerMin) = DebtOf(k, "requests") + PeriodMs
          /\ Lacks(new.tokens, TokensPerMin) = DebtOf(k, "tokens") + cost * PeriodMs
        BY <2>1, <2>2, <2>3, <2>4, ChargePair, Zenon
    <2>7. HarnessTypeOK' /\ now' = now
        BY <2>3, AllowKeepsType DEF DualSound, AnswerAllow
    <2>8. calls' \in [Keys -> Nat]
        BY <2>3 DEF DualSound
    <2>9. /\ DualSound'
          /\ DUAL!DebtsMap' = [DUAL!DebtsMap EXCEPT ![k] =
                [d \in DUAL!Dims |-> Lacks(new[d], DUAL!LimitOf[d])]]
        BY <1>5, <2>3, <2>6, <2>7, <2>8
    <2>10. 1 * PeriodMs = PeriodMs
        BY DualDims
    <2>11. \A d \in DUAL!D!Dims :
             Lacks(new[d], DUAL!LimitOf[d])
                = DUAL!DebtsMap[k][d] + DUAL!D!Charge(cost)[d] * PeriodMs
        BY <2>6, <2>10, DualDims, DebtsShown
    <2>12. [d \in DUAL!Dims |-> Lacks(new[d], DUAL!LimitOf[d])] =
             [d \in DUAL!D!Dims |-> DUAL!DebtsMap[k][d] + DUAL!D!Charge(cost)[d] * PeriodMs]
        <3>1. DUAL!Dims = DUAL!D!Dims
            BY DualDims
        <3>2. QED
            BY <2>11, <3>1, Zenon
    <2>13. DUAL!DebtsMap' =
             [DUAL!DebtsMap EXCEPT ![k] =
                [d \in DUAL!D!Dims |-> @[d] + DUAL!D!Charge(cost)[d] * PeriodMs]]
        BY <2>9, <2>12, Zenon
    <2>14. DUAL!D!Admit(k, cost)
        BY <2>3, <2>5, <2>13, Zenon DEF DUAL!D!Admit, DUAL!D!AnswerAllow, AnswerAllow
    <2>15. QED
        BY <2>9, <2>14
<1>8. ASSUME NEW k \in Keys, NEW cost \in Costs, DUAL!Refuse(k, cost)
      PROVE  DualSound' /\ DUAL!D!Refuse(k, cost)
    <2>1. /\ ~ DUAL!Affordable(DUAL!BucketFor(k), cost) /\ DUAL!Keep(k, DUAL!BucketFor(k))
          /\ AnswerAllow(k, cost, FALSE) /\ UNCHANGED calls
        BY <1>8, Zenon DEF DUAL!Refuse, DUAL!AnswerAllow, AnswerAllow
    <2>2. HarnessTypeOK' /\ now' = now
        BY <2>1, AllowKeepsType DEF DualSound, AnswerAllow
    <2>3. DualSound' /\ DUAL!DebtsMap' = DUAL!DebtsMap
        BY <1>6, <2>1, <2>2
    <2>4. ~ DUAL!D!Fits(k, cost)
        BY <2>1, DualAnswers, HarnessAssumption
    <2>5. DUAL!D!Refuse(k, cost)
        BY <2>1, <2>3, <2>4, Zenon DEF DUAL!D!Refuse, DUAL!D!AnswerAllow, AnswerAllow
    <2>6. QED
        BY <2>3, <2>5
<1>9. ASSUME NEW k \in Keys, NEW cost \in Costs, DUAL!RefuseNewKey(k, cost)
      PROVE  DualSound' /\ DUAL!DualStep
    <2>1. AnswerAllow(k, cost, FALSE) /\ UNCHANGED <<buckets, calls>>
        BY <1>9, Zenon DEF DUAL!RefuseNewKey, DUAL!TurnAway, DUAL!AnswerAllow, AnswerAllow
    <2>2. HarnessTypeOK' /\ now' = now
        BY <2>1, AllowKeepsType DEF DualSound, AnswerAllow
    <2>3. DualSound' /\ DUAL!DebtsMap' = DUAL!DebtsMap
        BY <1>2, <2>1, <2>2 DEF DualSound
    <2>4. DUAL!TurnAway(k, cost, DOMAIN buckets)
        BY <1>9, Zenon DEF DUAL!RefuseNewKey
    <2>5. k \notin DOMAIN buckets /\ DUAL!TableFull(DOMAIN buckets)
        BY <2>4, Zenon DEF DUAL!TurnAway, DUAL!HasRoom
    <2>6. DUAL!DualStep
        BY <2>1, <2>3, <2>4, <2>5, Zenon DEF DUAL!DualStep, DUAL!AtTheTable
    <2>7. QED
        BY <2>3, <2>6
<1>10. ASSUME NEW k \in Keys, DUAL!RetryAfterUntracked(k)
       PROVE  DualSound' /\ DUAL!DualStep
    <2>1. /\ Answer("retryAfter", k, WaitUntracked(DOMAIN buckets)) /\ k \notin DOMAIN buckets
          /\ UNCHANGED <<buckets, calls>>
        BY <1>10, SameDual, Zenon
        DEF DUAL!RetryAfterUntracked, DUAL!AnswerUntracked, DUAL!Answer, Answer
    <2>2. WaitUntracked(DOMAIN buckets) \in Nat /\ "retryAfter" \in Readings
        BY DEF WaitUntracked, Unknown, Readings
    <2>3. HarnessTypeOK' /\ now' = now
        BY <2>1, <2>2, AnswerKeepsType DEF DualSound, Answer
    <2>4. DualSound' /\ DUAL!DebtsMap' = DUAL!DebtsMap
        BY <1>2, <2>1, <2>3 DEF DualSound
    <2>5. CASE DUAL!TableFull(DOMAIN buckets)
        <3>1. DUAL!DualStep
            BY <1>10, <2>1, <2>4, <2>5, Zenon
            DEF DUAL!DualStep, DUAL!AtTheTable, DUAL!RetryAfterUntracked
        <3>2. QED
            BY <2>4, <3>1
    <2>6. CASE ~ DUAL!TableFull(DOMAIN buckets)
        <3>1. WaitUntracked(DOMAIN buckets) = 0
            BY <2>6, SameDual DEF WaitUntracked
        <3>2. DUAL!D!WaitBoth(k) = 0
            BY <2>1, DualAnswers
        <3>3. DUAL!D!RetryAfter(k)
            BY <2>1, <2>4, <3>1, <3>2, Zenon DEF DUAL!D!RetryAfter, DUAL!D!Answer, Answer
        <3>4. QED
            BY <2>4, <3>3 DEF DUAL!DualStep, DUAL!D!Next
    <2>7. QED
        BY <2>5, <2>6
<1>11. ASSUME NEW k \in Keys, DUAL!RetryAfterTracked(k)
       PROVE  DualSound' /\ DUAL!D!RetryAfter(k)
    <2>1. PICK b : b = DUAL!BucketFor(k)
        OBVIOUS
    <2>2. /\ Answer("retryAfter", k, DUAL!WaitBoth(b)) /\ UNCHANGED calls
          /\ DUAL!Keep(k, DUAL!BucketFor(k))
        BY <1>11, <2>1, Zenon DEF DUAL!RetryAfterTracked, DUAL!Answer, Answer
    <2>3. DUAL!WaitBoth(b) = DUAL!D!WaitBoth(k) /\ DUAL!WaitBoth(b) \in Nat
        BY <2>1, DualAnswers
    <2>4. HarnessTypeOK' /\ now' = now
        BY <2>2, <2>3, AnswerKeepsType DEF DualSound, Answer, Readings
    <2>5. DualSound' /\ DUAL!DebtsMap' = DUAL!DebtsMap
        BY <1>6, <2>2, <2>4
    <2>6. DUAL!D!RetryAfter(k)
        BY <2>2, <2>3, <2>5, Zenon DEF DUAL!D!RetryAfter, DUAL!D!Answer, Answer
    <2>7. QED
        BY <2>5, <2>6
<1>12. CASE \E t \in DUAL!Later : DUAL!Tick(t)
    BY <1>1, <1>12, SameDual, Zenon DEF DUAL!DualStep, DUAL!D!Next
<1>13. CASE DUAL!OpenWindow
    BY <1>3, <1>13, Zenon DEF DUAL!DualStep, DUAL!D!Next
<1>14. CASE \E k \in Keys : \E cost \in Costs :
                DUAL!Admit(k, cost) \/ DUAL!Refuse(k, cost) \/ DUAL!RefuseNewKey(k, cost)
    BY <1>7, <1>8, <1>9, <1>14, Zenon DEF DUAL!DualStep, DUAL!D!Next
<1>15. CASE \E k \in Keys : DUAL!RetryAfterUntracked(k) \/ DUAL!RetryAfterTracked(k)
    BY <1>10, <1>11, <1>15, Zenon DEF DUAL!DualStep, DUAL!D!Next
<1>16. QED
    BY <1>4, <1>12, <1>13, <1>14, <1>15, Zenon DEF DUAL!Next

(* What was admitted is still owed, or was paid back since.                *)
DualCovered ==
    \A k \in Keys :
        /\ calls[k] * PeriodMs <= DUAL!DebtsMap[k]["requests"] + RequestsPerMin * (now - since)
        /\ spent[k] * PeriodMs <= DUAL!DebtsMap[k]["tokens"] + TokensPerMin * (now - since)

(* A step of the dual meter keeps it so.                                   *)
LEMMA DualStepCovers ==
    ASSUME DualSound, DualSound', DualCovered, DUAL!DualStep
    PROVE  DualCovered'
<1>1. PICK n \in Nat : n = now
    BY HarnessAssumption DEF DualSound, HarnessTypeOK
<1>2. PICK s \in Nat : s = since /\ n - s \in Nat
    BY <1>1 DEF DualSound, HarnessTypeOK
<1>3. ASSUME NEW k \in Keys
      PROVE  /\ calls[k] \in Nat /\ spent[k] \in Nat
             /\ DUAL!DebtsMap[k]["requests"] \in Nat /\ DUAL!DebtsMap[k]["tokens"] \in Nat
    BY DebtsAreBounded, DebtsShown DEF DualSound, HarnessTypeOK
<1>4. PICK p \in Nat : p = PeriodMs
    BY DualDims
<1>5. RequestsPerMin \in Nat /\ TokensPerMin \in Nat
    BY DualDims
<1>6. ASSUME UNCHANGED <<now, since, spent, calls, DUAL!DebtsMap>>
      PROVE  DualCovered'
    BY <1>6 DEF DualCovered
<1>7. ASSUME NEW t \in Later, DUAL!D!Tick(t)
      PROVE  DualCovered'
    <2>1. PICK w \in Nat : w = t - n
        BY <1>1, LaterIsLater DEF DualSound
    <2>2. now' = t /\ since' = since /\ spent' = spent /\ calls' = calls /\ t \in Nat
        BY <1>7, LaterIsLater DEF DUAL!D!Tick, DUAL!D!AdvanceClock, DualSound
    <2>3. ASSUME NEW limit \in Nat, NEW x \in Nat, NEW c \in Nat,
                 c * p <= x + limit * (n - s)
          PROVE  c * p <= DUAL!D!PaidDown(x, limit, w) + limit * (t - s)
        <3>1. limit * (t - s) = limit * (n - s) + limit * w
            <4>1. PICK e \in Nat : e = n - s
                BY <1>2
            <4>2. t - s = e + w /\ limit * (e + w) = limit * e + limit * w
                BY <1>1, <1>2, <2>1, <2>2, <4>1
            <4>3. QED
                BY <4>1, <4>2
        <3>2. limit * (n - s) \in Nat /\ limit * w \in Nat /\ c * p \in Nat
            BY <1>2
        <3>3. QED
            BY <2>3, <3>1, <3>2 DEF DUAL!D!PaidDown
    <2>4. ASSUME NEW k \in Keys
          PROVE  /\ DUAL!DebtsMap'[k]["requests"]
                        = DUAL!D!PaidDown(DUAL!DebtsMap[k]["requests"], RequestsPerMin, w)
                 /\ DUAL!DebtsMap'[k]["tokens"]
                        = DUAL!D!PaidDown(DUAL!DebtsMap[k]["tokens"], TokensPerMin, w)
        <3>1. DUAL!DebtsMap' = [x \in Keys |-> [d \in DUAL!D!Dims |->
                    DUAL!D!PaidDown(DUAL!DebtsMap[x][d], DUAL!D!LimitOf[d], w)]]
            BY <1>1, <1>7, <2>1 DEF DUAL!D!Tick
        <3>2. QED
            BY <3>1, DualDims
    <2>5. ASSUME NEW k \in Keys
          PROVE  /\ calls[k] * p <= DUAL!DebtsMap[k]["requests"] + RequestsPerMin * (n - s)
                 /\ spent[k] * p <= DUAL!DebtsMap[k]["tokens"] + TokensPerMin * (n - s)
        BY <1>1, <1>2, <1>4 DEF DualCovered
    <2>6. ASSUME NEW k \in Keys
          PROVE  /\ calls[k] * p <= DUAL!DebtsMap'[k]["requests"] + RequestsPerMin * (t - s)
                 /\ spent[k] * p <= DUAL!DebtsMap'[k]["tokens"] + TokensPerMin * (t - s)
        <3>1. calls[k] * p <= DUAL!D!PaidDown(DUAL!DebtsMap[k]["requests"], RequestsPerMin, w)
                                + RequestsPerMin * (t - s)
            BY <1>3, <1>5, <2>3, <2>5, Zenon
        <3>2. spent[k] * p <= DUAL!D!PaidDown(DUAL!DebtsMap[k]["tokens"], TokensPerMin, w)
                                + TokensPerMin * (t - s)
            BY <1>3, <1>5, <2>3, <2>5, Zenon
        <3>3. QED
            BY <2>4, <3>1, <3>2, Zenon
    <2>7. QED
        BY <1>2, <1>4, <2>2, <2>6, Zenon DEF DualCovered
<1>8. ASSUME DUAL!D!OpenWindow
      PROVE  DualCovered'
    <2>1. /\ now' = n /\ since' = n /\ DUAL!DebtsMap' = DUAL!DebtsMap
          /\ \A k \in Keys : calls'[k] = 0 /\ spent'[k] = 0
        BY <1>1, <1>8 DEF DUAL!D!OpenWindow, DUAL!D!MeasureFromNow
    <2>2. RequestsPerMin * (n - n) = 0 /\ TokensPerMin * (n - n) = 0 /\ 0 * p = 0
        BY <1>4, <1>5
    <2>3. ASSUME NEW k \in Keys
          PROVE  /\ 0 <= DUAL!DebtsMap[k]["requests"] + 0
                 /\ 0 <= DUAL!DebtsMap[k]["tokens"] + 0
        BY <1>3
    <2>4. QED
        BY <1>4, <2>1, <2>2, <2>3, Zenon DEF DualCovered
<1>9. ASSUME NEW k \in Keys, NEW cost \in Costs, DUAL!D!Admit(k, cost)
      PROVE  DualCovered'
    <2>1. cost \in Nat
        BY HarnessAssumption
    <2>2. /\ now' = now /\ since' = since
          /\ spent' = [spent EXCEPT ![k] = @ + cost] /\ calls' = [calls EXCEPT ![k] = @ + 1]
        BY <1>9 DEF DUAL!D!Admit, DUAL!D!AnswerAllow
    <2>3. DUAL!DebtsMap' =
             [DUAL!DebtsMap EXCEPT ![k] =
                [d \in DUAL!D!Dims |-> @[d] + DUAL!D!Charge(cost)[d] * PeriodMs]]
        BY <1>9 DEF DUAL!D!Admit
    <2>4. DUAL!DebtsMap = [x \in Keys |-> DUAL!DebtsMap[x]]
        BY Zenon DEF DUAL!DebtsMap
    <2>5. /\ DUAL!DebtsMap'[k]["requests"] = DUAL!DebtsMap[k]["requests"] + 1 * p
          /\ DUAL!DebtsMap'[k]["tokens"] = DUAL!DebtsMap[k]["tokens"] + cost * p
          /\ \A x \in Keys \ {k} : DUAL!DebtsMap'[x] = DUAL!DebtsMap[x]
        BY <1>4, <2>3, <2>4, DualDims
    <2>6. /\ calls'[k] = calls[k] + 1 /\ spent'[k] = spent[k] + cost
          /\ \A x \in Keys \ {k} : calls'[x] = calls[x] /\ spent'[x] = spent[x]
        BY <2>2 DEF DualSound, HarnessTypeOK
    <2>7. ASSUME NEW a \in Nat, NEW b \in Nat, NEW c \in Nat, NEW e \in Nat, a * p <= b + e
          PROVE  (a + c) * p <= (b + c * p) + e
        <3>1. (a + c) * p = a * p + c * p /\ a * p \in Nat /\ c * p \in Nat
            OBVIOUS
        <3>2. QED
            BY <2>7, <3>1
    <2>8. RequestsPerMin * (n - s) \in Nat /\ TokensPerMin * (n - s) \in Nat /\ 1 \in Nat
        BY <1>2, <1>5
    <2>9. ASSUME NEW x \in Keys
          PROVE  /\ calls[x] * p <= DUAL!DebtsMap[x]["requests"] + RequestsPerMin * (n - s)
                 /\ spent[x] * p <= DUAL!DebtsMap[x]["tokens"] + TokensPerMin * (n - s)
        BY <1>1, <1>2, <1>4 DEF DualCovered
    <2>10. /\ (calls[k] + 1) * p <= (DUAL!DebtsMap[k]["requests"] + 1 * p) + RequestsPerMin * (n - s)
           /\ (spent[k] + cost) * p <= (DUAL!DebtsMap[k]["tokens"] + cost * p) + TokensPerMin * (n - s)
        BY <1>3, <2>1, <2>7, <2>8, <2>9, Zenon
    <2>11. ASSUME NEW x \in Keys
           PROVE  /\ calls'[x] * p <= DUAL!DebtsMap'[x]["requests"] + RequestsPerMin * (n - s)
                  /\ spent'[x] * p <= DUAL!DebtsMap'[x]["tokens"] + TokensPerMin * (n - s)
        <3>1. CASE x = k
            BY <2>5, <2>6, <2>10, <3>1, Zenon
        <3>2. CASE x # k
            BY <2>5, <2>6, <2>9, <3>2, Zenon
        <3>3. QED
            BY <3>1, <3>2
    <2>12. QED
        BY <1>1, <1>2, <1>4, <2>2, <2>11, Zenon DEF DualCovered
<1>10. ASSUME NEW k \in Keys, NEW cost \in Costs, DUAL!D!Refuse(k, cost)
       PROVE  DualCovered'
    BY <1>6, <1>10, Zenon DEF DUAL!D!Refuse, DUAL!D!AnswerAllow
<1>11. ASSUME NEW k \in Keys, DUAL!D!RetryAfter(k)
       PROVE  DualCovered'
    BY <1>6, <1>11, Zenon DEF DUAL!D!RetryAfter, DUAL!D!Answer
<1>12. ASSUME DUAL!AtTheTable(DOMAIN buckets), UNCHANGED <<DUAL!DebtsMap, calls>>
       PROVE  DualCovered'
    <2>1. UNCHANGED <<now, since, spent>>
        BY <1>12 DEF DUAL!AtTheTable, DUAL!AnotherKey, DUAL!AnswerUntracked, DUAL!Answer,
                DUAL!TurnAway, DUAL!AnswerAllow
    <2>2. QED
        BY <1>6, <1>12, <2>1
<1>13. QED
    BY <1>7, <1>8, <1>9, <1>10, <1>11, <1>12, SameDual, Zenon DEF DUAL!DualStep, DUAL!D!Next

(* The dual bucket claims at most one slot.                                *)
LEMMA DualClaim ==
    ASSUME DUAL!Next
    PROVE  \/ Claims(DOMAIN buckets, DOMAIN buckets')
           \/ AtTheTable(DOMAIN buckets) /\ UNCHANGED buckets
<1>1. ASSUME NEW k \in Keys, HasRoom(k, DOMAIN buckets), NEW b, DUAL!Keep(k, b), UNCHANGED taken
      PROVE  Claims(DOMAIN buckets, DOMAIN buckets')
    BY <1>1 DEF DUAL!Keep, Claims
<1>2. ASSUME UNCHANGED <<buckets, taken>>
      PROVE  Claims(DOMAIN buckets, DOMAIN buckets')
    BY <1>2 DEF Claims
<1>3. \A k : DUAL!HasRoom(k, DOMAIN buckets) <=> HasRoom(k, DOMAIN buckets)
    BY SameDual
<1>4. CASE DUAL!AnotherKey(DOMAIN buckets) /\ UNCHANGED <<buckets, calls>>
    BY <1>4, SameDual, Zenon DEF DUAL!AnotherKey, AnotherKey, AtTheTable
<1>5. CASE (\E t \in DUAL!Later : DUAL!Tick(t)) \/ DUAL!OpenWindow
    BY <1>2, <1>5, Zenon DEF DUAL!Tick, DUAL!OpenWindow
<1> SUFFICES ASSUME NEW k \in Keys,
                    \/ \E cost \in Costs :
                           DUAL!Admit(k, cost) \/ DUAL!Refuse(k, cost) \/ DUAL!RefuseNewKey(k, cost)
                    \/ DUAL!RetryAfterUntracked(k) \/ DUAL!RetryAfterTracked(k)
             PROVE  Claims(DOMAIN buckets, DOMAIN buckets')
    BY <1>4, <1>5, Zenon DEF DUAL!Next
<1>6. ASSUME NEW cost \in Costs, DUAL!Admit(k, cost) \/ DUAL!Refuse(k, cost)
      PROVE  Claims(DOMAIN buckets, DOMAIN buckets')
    BY <1>1, <1>3, <1>6, Zenon DEF DUAL!Admit, DUAL!Refuse
<1>7. ASSUME NEW cost \in Costs, DUAL!RefuseNewKey(k, cost)
      PROVE  Claims(DOMAIN buckets, DOMAIN buckets')
    BY <1>2, <1>7, Zenon DEF DUAL!RefuseNewKey, DUAL!TurnAway
<1>8. CASE DUAL!RetryAfterUntracked(k)
    BY <1>2, <1>8, Zenon DEF DUAL!RetryAfterUntracked, DUAL!AnswerUntracked
<1>9. CASE DUAL!RetryAfterTracked(k)
    BY <1>1, <1>9, Zenon DEF DUAL!RetryAfterTracked, HasRoom
<1>10. QED
    BY <1>6, <1>7, <1>8, <1>9, Zenon

(* A tracked key can afford the smallest call from its wait on, and not    *)
(* before.                                                                 *)
LEMMA DualWaits ==
    ASSUME DualSound, NEW k \in DOMAIN buckets, NEW n \in Nat
    PROVE  DUAL!Affordable(DUAL!Refill(buckets[k], now + n), 1)
              <=> n >= DUAL!WaitBoth(DUAL!BucketFor(k))
<1>1. PICK s \in Nat : s = now
    BY HarnessAssumption DEF DualSound, HarnessTypeOK
<1>2. PICK b : b = buckets[k]
    OBVIOUS
<1>3. k \in Keys /\ PairOK(b, s)
    BY <1>1, <1>2 DEF DualSound
<1>4. PairOK(b, s + n)
    BY <1>3, HarnessAssumption DEF PairOK, DUAL!Buckets
<1>5. PICK r \in Nat \ {0} : r = RequestsPerMin
    BY DualDims
<1>6. PICK w \in Nat \ {0} : w = TokensPerMin
    BY DualDims
<1>7. PICK pair : pair = DUAL!BucketFor(k)
    OBVIOUS
<1>8. /\ Carries(pair.requests, r) /\ Carries(pair.tokens, w)
      /\ Lacks(pair.requests, r) = OwedAt(b, "requests", s)
      /\ Lacks(pair.tokens, w) = OwedAt(b, "tokens", s)
    BY <1>1, <1>2, <1>3, <1>5, <1>6, <1>7, PairForOwes DEF PairOK, DebtOf
<1>9. PICK later : later = DUAL!Refill(b, s + n)
    OBVIOUS
<1>10. s + n \in Nat
    OBVIOUS
<1>11. /\ Carries(later.requests, r) /\ Carries(later.tokens, w)
       /\ Lacks(later.requests, r) = OwedAt(b, "requests", s + n)
       /\ Lacks(later.tokens, w) = OwedAt(b, "tokens", s + n)
    BY <1>4, <1>5, <1>6, <1>9, <1>10, RefillOwes
<1>12. /\ OwedAt(b, "requests", s + n) = NoLess(OwedAt(b, "requests", s) - r * n)
       /\ OwedAt(b, "tokens", s + n) = NoLess(OwedAt(b, "tokens", s) - w * n)
    <2>1. \A d \in {"requests", "tokens"} :
             OwedAt(b, d, s + n) = NoLess(OwedAt(b, d, s) - DUAL!LimitOf[d] * n)
        BY <1>3, DebtFades, Zenon
    <2>2. QED
        BY <1>5, <1>6, <2>1, DualDims
<1>13. 1 * PeriodMs = PeriodMs
    BY DualDims
<1>14. /\ later.requests.left >= 1 <=> Lacks(later.requests, r) + PeriodMs <= r * PeriodMs
       /\ later.tokens.left >= 1 <=> Lacks(later.tokens, w) + PeriodMs <= w * PeriodMs
    <2>1. /\ later.requests.left >= 1 <=> Lacks(later.requests, r) + 1 * PeriodMs <= r * PeriodMs
          /\ later.tokens.left >= 1 <=> Lacks(later.tokens, w) + 1 * PeriodMs <= w * PeriodMs
        BY <1>11, LacksIs
    <2>2. QED
        BY <1>13, <2>1
<1>15. PICK x \in Nat : x = DUAL!WaitFor(pair.requests, r)
    BY <1>8, LedgerAnswers
<1>16. PICK y \in Nat : y = DUAL!WaitFor(pair.tokens, w)
    BY <1>8, LedgerAnswers
<1>17. /\ NoLess(Lacks(pair.requests, r) - r * n) + PeriodMs <= r * PeriodMs <=> n >= x
       /\ NoLess(Lacks(pair.tokens, w) - w * n) + PeriodMs <= w * PeriodMs <=> n >= y
    BY <1>8, <1>15, <1>16, LedgerAnswers
<1>18. later.requests.left >= 1 <=> n >= x
    BY <1>8, <1>11, <1>12, <1>14, <1>17, Zenon
<1>19. later.tokens.left >= 1 <=> n >= y
    BY <1>8, <1>11, <1>12, <1>14, <1>17, Zenon
<1>20. DUAL!Affordable(later, 1) <=> n >= x /\ n >= y
    BY <1>18, <1>19, Zenon DEF DUAL!Affordable
<1>21. DUAL!WaitBoth(pair) = IF x > y THEN x ELSE y
    BY <1>5, <1>6, <1>15, <1>16 DEF DUAL!WaitBoth
<1>22. n >= x /\ n >= y <=> n >= DUAL!WaitBoth(pair)
    BY <1>21
<1>23. QED
    BY <1>1, <1>2, <1>7, <1>9, <1>20, <1>22

(* So both ceilings hold and every wait is exact.                          *)
LEMMA DualPromises ==
    ASSUME DualSound, DualCovered, Slots(DOMAIN buckets, taken)
    PROVE  DUAL!BothCeilings /\ DUAL!TypeOK /\ DUAL!WaitIsExact
<1>1. PICK n \in Nat : n = now
    BY HarnessAssumption DEF DualSound, HarnessTypeOK
<1>2. PICK s \in Nat : s = since /\ n - s \in Nat
    BY <1>1 DEF DualSound, HarnessTypeOK
<1>3. PICK p \in Nat : p = PeriodMs
    BY DualDims
<1>4. DUAL!BothCeilings
    <2> SUFFICES ASSUME NEW k \in Keys
                 PROVE  /\ calls[k] * PeriodMs <= RequestsPerMin * (PeriodMs + now - since)
                        /\ spent[k] * PeriodMs <= TokensPerMin * (PeriodMs + now - since)
        BY Zenon DEF DUAL!BothCeilings
    <2>1. /\ DUAL!DebtsMap[k]["requests"] \in Nat
          /\ DUAL!DebtsMap[k]["requests"] <= RequestsPerMin * p
          /\ DUAL!DebtsMap[k]["tokens"] \in Nat
          /\ DUAL!DebtsMap[k]["tokens"] <= TokensPerMin * p
        BY <1>3, DebtsAreBounded, DebtsShown
    <2>2. /\ calls[k] * p <= DUAL!DebtsMap[k]["requests"] + RequestsPerMin * (n - s)
          /\ spent[k] * p <= DUAL!DebtsMap[k]["tokens"] + TokensPerMin * (n - s)
        BY <1>1, <1>2, <1>3 DEF DualCovered
    <2>3. calls[k] * p \in Nat /\ spent[k] * p \in Nat
        <3>1. calls[k] \in Nat /\ spent[k] \in Nat
            BY DEF DualSound, HarnessTypeOK
        <3>2. QED
            BY <1>3, <3>1
    <2>4. ASSUME NEW limit \in Nat
          PROVE  /\ limit * (p + n - s) = limit * p + limit * (n - s)
                 /\ limit * p \in Nat /\ limit * (n - s) \in Nat
        <3>1. PICK e \in Nat : e = n - s
            BY <1>2
        <3>2. p + n - s = p + e /\ limit * (p + e) = limit * p + limit * e
            BY <1>1, <1>2, <1>3, <3>1
        <3>3. QED
            BY <3>1, <3>2
    <2>5. RequestsPerMin \in Nat /\ TokensPerMin \in Nat
        BY DualDims
    <2>6. /\ calls[k] * p <= RequestsPerMin * (p + n - s)
          /\ spent[k] * p <= TokensPerMin * (p + n - s)
        BY <2>1, <2>2, <2>3, <2>4, <2>5
    <2>7. QED
        BY <1>1, <1>2, <1>3, <2>6
<1>5. DUAL!TypeOK
    <2>1. DUAL!HarnessTypeOK
        BY DEF DUAL!HarnessTypeOK, DUAL!Replies, DUAL!Readings,
               DualSound, HarnessTypeOK, Replies, Readings
    <2>2. DUAL!TableOK(DOMAIN buckets)
        <3>1. DUAL!Cardinality(DOMAIN buckets) = Cardinality(DOMAIN buckets)
            BY Zenon DEF DUAL!Cardinality, Cardinality
        <3>2. QED
            BY <3>1 DEF DUAL!TableOK, Slots
    <2>3. QED
        BY <2>1, <2>2 DEF DUAL!TypeOK, DualSound, PairOK
<1>6. DUAL!WaitIsExact
    <2> SUFFICES ASSUME NEW k \in DOMAIN buckets, NEW wait, wait = DUAL!WaitBoth(DUAL!BucketFor(k))
                 PROVE  /\ DUAL!Affordable(DUAL!Refill(buckets[k], now + wait), 1)
                        /\ wait > 0 =>
                              ~ DUAL!Affordable(DUAL!Refill(buckets[k], now + wait - 1), 1)
        BY Zenon DEF DUAL!WaitIsExact
    <2>1. wait \in Nat
        BY DualAnswers DEF DualSound
    <2>2. DUAL!Affordable(DUAL!Refill(buckets[k], now + wait), 1)
        BY <2>1, DualWaits
    <2>3. ASSUME wait > 0
          PROVE  ~ DUAL!Affordable(DUAL!Refill(buckets[k], now + wait - 1), 1)
        <3>1. PICK m \in Nat : m = wait - 1 /\ ~ (m >= wait)
            BY <2>1, <2>3
        <3>2. now + wait - 1 = now + m
            BY <1>1, <2>1, <3>1
        <3>3. ~ DUAL!Affordable(DUAL!Refill(buckets[k], now + m), 1)
            BY <3>1, DualWaits
        <3>4. QED
            BY <3>2, <3>3
    <2>4. QED
        BY <2>2, <2>3
<1>7. QED
    BY <1>4, <1>5, <1>6

-----------------------------------------------------------------------------
(* Whichever window policy the factory built.                              *)

(* What it keeps.                                                          *)
WindowsSound ==
    /\ policy = "fixed_window" => FixedSound /\ Slots(DOMAIN buckets, taken)
    /\ policy = "sliding_log" => LogSound /\ Slots(DOMAIN logs, taken)
    /\ policy = "sliding_counter" => CounterSound /\ Slots(DOMAIN counters, taken)
    /\ policy = "dual_bucket" => DualSound /\ DualCovered /\ Slots(DOMAIN buckets, taken)

(* Nothing was admitted yet, and nothing is owed.                          *)
LEMMA WindowsStartSound ==
    ASSUME Init
    PROVE  WindowsSound /\ LOG!E!Init /\ DUAL!D!Init
<1>1. /\ HarnessInit /\ taken = 0
      /\ admitted = [k \in Keys |-> [t \in 0..MaxTime |-> 0]]
      /\ DOMAIN buckets = {} /\ DOMAIN logs = {} /\ DOMAIN counters = {}
      /\ calls = [k \in Keys |-> 0]
    BY DEF Init, FIXED!Init, FIXED!WindowInit, FIXED!HarnessInit, HarnessInit,
           FIXED!TableInit, LOG!Init, COUNTER!Init, DUAL!Init
<1>2. HarnessTypeOK /\ now = 0 /\ since = 0 /\ \A k \in Keys : spent[k] = 0
    BY <1>1, InitHasType DEF HarnessInit
<1>3. \A k \in Keys : \A t \in Int : AdmittedBy(k, t) = 0
    BY <1>1, HarnessAssumption DEF AdmittedBy
<1>4. Slots({}, 0)
    BY FS_EmptySet, TableAssumption DEF Slots
<1>5. History
    BY <1>1, <1>2, HarnessAssumption DEF History
<1>6. ASSUME NEW bound \in Nat
      PROVE  NoIntervalExceeds(bound)
    <2> SUFFICES ASSUME NEW k \in Keys, NEW from \in 0..now
                 PROVE  AdmittedBy(k, from + WindowMs - 1) - AdmittedBy(k, from - 1) <= bound
        BY DEF NoIntervalExceeds
    <2>1. from \in Int /\ WindowMs \in Int
        BY <1>2, WindowAssumption
    <2>2. QED
        BY <1>3, <2>1
<1>7. FixedSound
    <2>1. FixedCounts
        BY <1>1, <1>2, <1>3 DEF FixedCounts
    <2>2. SeamHolds
        <3> SUFFICES ASSUME NEW k \in Keys, NEW from \in 0..now, NEW to \in from..now
                     PROVE  AdmittedBy(k, to) - AdmittedBy(k, from - 1)
                                <= Share((to \div WindowMs) - (from \div WindowMs) + 1)
            BY DEF SeamHolds
        <3>1. from = 0 /\ to = 0
            BY <1>2
        <3>2. AdmittedBy(k, to) = 0 /\ AdmittedBy(k, from - 1) = 0
            BY <1>3, <3>1
        <3>3. PICK q \in Int : q = 0 \div WindowMs
            BY WindowAssumption
        <3>4. (to \div WindowMs) - (from \div WindowMs) + 1 = 1
            BY <3>1, <3>3
        <3>5. Share(1) \in Nat
            BY WindowAssumption DEF Share
        <3>6. QED
            BY <3>2, <3>4, <3>5
    <2>3. QED
        BY <1>5, <2>1, <2>2 DEF FixedSound
<1>8. LogSound
    BY <1>1, <1>2, <1>3, <1>5, <1>6, WindowAssumption DEF LogSound, LogsRecord
<1>9. CounterSound
    BY <1>1, <1>2, <1>3, <1>5, <1>6, FadingMisses DEF CounterSound, SlidingCounts
<1>10. DualSound
    BY <1>1, <1>2 DEF DualSound
<1>11. \A k \in Keys : /\ DUAL!DebtsMap[k]["requests"] = 0 /\ DUAL!DebtsMap[k]["tokens"] = 0
    BY <1>1, DualDims DEF DUAL!DebtsMap
<1>12. DualCovered
    <2>1. \A k \in Keys : calls[k] = 0 /\ spent[k] = 0
        BY <1>1, <1>2
    <2>2. 0 * PeriodMs = 0 /\ RequestsPerMin * (0 - 0) = 0 /\ TokensPerMin * (0 - 0) = 0
        BY DualDims
    <2>3. now = 0 /\ since = 0
        BY <1>2
    <2>4. \A k \in Keys :
             /\ calls[k] * PeriodMs = 0 /\ spent[k] * PeriodMs = 0
             /\ DUAL!DebtsMap[k]["requests"] + RequestsPerMin * (now - since) = 0
             /\ DUAL!DebtsMap[k]["tokens"] + TokensPerMin * (now - since) = 0
        <3> SUFFICES ASSUME NEW k \in Keys
                     PROVE  /\ calls[k] * PeriodMs = 0 /\ spent[k] * PeriodMs = 0
                            /\ DUAL!DebtsMap[k]["requests"] + RequestsPerMin * (now - since) = 0
                            /\ DUAL!DebtsMap[k]["tokens"] + TokensPerMin * (now - since) = 0
            OBVIOUS
        <3>1. calls[k] = 0 /\ spent[k] = 0
            BY <2>1
        <3>2. DUAL!DebtsMap[k]["requests"] = 0 /\ DUAL!DebtsMap[k]["tokens"] = 0
            BY <1>11
        <3>3. QED
            BY <3>1, <3>2, <2>2, <2>3
    <2>5. 0 <= 0
        OBVIOUS
    <2>6. QED
        BY <2>4, <2>5, Zenon DEF DualCovered
<1>13. WindowsSound
    BY <1>1, <1>4, <1>7, <1>8, <1>9, <1>10, <1>12 DEF WindowsSound
<1>14. LOG!E!Init
    BY <1>1 DEF LOG!E!Init, LOG!E!WindowInit, LOG!E!HarnessInit, HarnessInit
<1>15. DUAL!D!Init
    <2>1. DUAL!DebtsMap = [k \in Keys |-> [d \in DUAL!D!Dims |-> 0]]
        <3>1. \A k \in Keys : k \notin DOMAIN buckets
            BY <1>1
        <3>2. QED
            BY <3>1, DualDims DEF DUAL!DebtsMap
    <2>2. QED
        BY <1>1, <2>1 DEF DUAL!D!Init, DUAL!D!HarnessInit, HarnessInit
<1>16. QED
    BY <1>13, <1>14, <1>15

(* A step that claims no more than a slot that is left.                    *)
LEMMA SlotsStay ==
    ASSUME NEW tracked, NEW tracked2, Slots(tracked, taken),
           \/ Claims(tracked, tracked2)
           \/ AtTheTable(tracked) /\ tracked2 = tracked
    PROVE  Slots(tracked2, taken')
BY ClaimsKeepTable, TableStepKeepsTable

(* A step of whichever window policy is in use.                            *)
LEMMA WindowsStep ==
    ASSUME WindowsSound, [Next]_vars
    PROVE  /\ WindowsSound'
           /\ policy = "sliding_log" => [LOG!ExactStep]_(LOG!E!windowVars)
           /\ policy = "dual_bucket" => [DUAL!DualStep]_(DUAL!D!dualVars)
<1>1. CASE FixedWindowMoves
    <2>1. policy = "fixed_window" /\ policy' = policy /\ FIXED!Next
        BY <1>1 DEF FixedWindowMoves
    <2>2. FixedSound /\ Slots(DOMAIN buckets, taken)
        BY <2>1 DEF WindowsSound
    <2>3. FixedSound'
        BY <2>1, <2>2, FixedStep
    <2>4. Slots(DOMAIN buckets', taken')
        BY <2>1, <2>2, FixedClaim, SlotsStay
    <2>5. QED
        BY <2>1, <2>3, <2>4 DEF WindowsSound
<1>2. CASE SlidingLogMoves
    <2>1. policy = "sliding_log" /\ policy' = policy /\ LOG!Next
        BY <1>2 DEF SlidingLogMoves
    <2>2. LogSound /\ Slots(DOMAIN logs, taken)
        BY <2>1 DEF WindowsSound
    <2>3. LogSound' /\ LOG!ExactStep
        BY <2>1, <2>2, LogStep
    <2>4. Slots(DOMAIN logs', taken')
        BY <2>1, <2>2, LogClaim, SlotsStay
    <2>5. QED
        BY <2>1, <2>3, <2>4 DEF WindowsSound
<1>3. CASE SlidingCounterMoves
    <2>1. policy = "sliding_counter" /\ policy' = policy /\ COUNTER!Next
        BY <1>3 DEF SlidingCounterMoves
    <2>2. CounterSound /\ Slots(DOMAIN counters, taken)
        BY <2>1 DEF WindowsSound
    <2>3. CounterSound'
        BY <2>1, <2>2, CounterStep
    <2>4. Slots(DOMAIN counters', taken')
        BY <2>1, <2>2, CounterClaim, SlotsStay
    <2>5. QED
        BY <2>1, <2>3, <2>4 DEF WindowsSound
<1>4. CASE DualBucketMoves
    <2>1. policy = "dual_bucket" /\ policy' = policy /\ DUAL!Next
        BY <1>4 DEF DualBucketMoves
    <2>2. DualSound /\ DualCovered /\ Slots(DOMAIN buckets, taken)
        BY <2>1 DEF WindowsSound
    <2>3. DualSound' /\ DUAL!DualStep
        BY <2>1, <2>2, DualBucketStep
    <2>4. DualCovered'
        BY <2>2, <2>3, DualStepCovers
    <2>5. Slots(DOMAIN buckets', taken')
        BY <2>1, <2>2, DualClaim, SlotsStay
    <2>6. QED
        BY <2>1, <2>3, <2>4, <2>5 DEF WindowsSound
<1>5. CASE TokenBucketMoves \/ CTokenBucketMoves \/ LeakyBucketMoves \/ GcraMoves \/ CGcraMoves
    <2>1. policy \in Meters /\ policy' = policy
        BY <1>5 DEF TokenBucketMoves, CTokenBucketMoves, LeakyBucketMoves, GcraMoves, CGcraMoves,
                Meters
    <2>2. QED
        BY <2>1 DEF WindowsSound, Meters
<1>6. CASE UNCHANGED vars
    <2>1. /\ UNCHANGED <<policy, now, reply, since, spent, admitted, taken>>
          /\ UNCHANGED <<buckets, logs, counters, calls>>
        BY <1>6 DEF vars, windowVars, harnessVars
    <2>2. (HarnessTypeOK' <=> HarnessTypeOK) /\ (History' <=> History)
        BY <2>1 DEF HarnessTypeOK, History
    <2>3. FixedSound' <=> FixedSound
        BY <2>1, <2>2 DEF FixedSound, FixedCounts, SeamHolds, CountsItsWindow, AdmittedBy
    <2>4. \A bound : NoIntervalExceeds(bound)' <=> NoIntervalExceeds(bound)
        BY <2>1 DEF NoIntervalExceeds, AdmittedBy
    <2>5. LogSound' <=> LogSound
        <3>1. LogsRecord' <=> LogsRecord
            BY <2>1 DEF LogsRecord, LogRecords, Forgotten, AdmittedBy
        <3>2. QED
            BY <2>2, <2>4, <3>1 DEF LogSound
    <2>6. CounterSound' <=> CounterSound
        <3>1. SlidingCounts' <=> SlidingCounts
            BY <2>1 DEF SlidingCounts, CountsTwoWindows, AdmittedBy
        <3>2. QED
            BY <2>2, <2>4, <3>1 DEF CounterSound, Missed
    <2>7. DUAL!DebtsMap' = DUAL!DebtsMap
        BY <2>1 DEF DUAL!DebtsMap, DUAL!Owed
    <2>8. (DualSound' <=> DualSound) /\ (DualCovered' <=> DualCovered)
        BY <2>1, <2>2, <2>7 DEF DualSound, DualCovered
    <2>9. WindowsSound'
        BY <2>1, <2>3, <2>5, <2>6, <2>8 DEF WindowsSound
    <2>10. UNCHANGED LOG!E!windowVars /\ UNCHANGED DUAL!D!dualVars
        BY <2>1, <2>7 DEF LOG!E!windowVars, LOG!E!harnessVars, DUAL!D!dualVars, DUAL!D!harnessVars
    <2>11. QED
        BY <2>9, <2>10
<1>7. QED
    BY <1>1, <1>2, <1>3, <1>4, <1>5, <1>6 DEF Next

(* What is kept is what was promised.                                      *)
LEMMA WindowsPromise ==
    ASSUME WindowsSound
    PROVE  /\ CeilingsHold /\ CountsAreTrue
           /\ policy = "fixed_window" => FIXED!TypeOK
           /\ policy = "sliding_log" => LOG!TypeOK
           /\ policy = "sliding_counter" => COUNTER!TypeOK
           /\ policy = "dual_bucket" => DUAL!TypeOK
<1>1. policy = "fixed_window" => FIXED!SeamCeiling /\ FIXED!CountsOnlyItsWindow /\ FIXED!TypeOK
    BY FixedPromises DEF WindowsSound
<1>2. policy = "sliding_log" => LOG!WindowCeiling /\ LOG!TypeOK
    BY LogPromises DEF WindowsSound
<1>3. policy = "sliding_counter" =>
        COUNTER!TrailingCeiling /\ COUNTER!CountsAreTrue /\ COUNTER!TypeOK
    BY CounterPromises DEF WindowsSound
<1>4. policy = "dual_bucket" => DUAL!BothCeilings /\ DUAL!TypeOK
    BY DualPromises DEF WindowsSound
<1>5. QED
    BY <1>1, <1>2, <1>3, <1>4 DEF CeilingsHold, CountsAreTrue

(* What every window policy keeps, it keeps for good.                      *)
THEOREM WindowsStaySound == Spec => []WindowsSound
<1>1. WindowsSound /\ [Next]_vars => WindowsSound'
    BY WindowsStep
<1>2. QED
    BY <1>1, WindowsStartSound, PTL DEF Spec

(* However lazily it is rolled forward, and over whatever gap, a counter   *)
(* holds what was really admitted in the window it claims to count.        *)
THEOREM CountsStayTrue == Spec => []CountsAreTrue
BY WindowsStaySound, WindowsPromise, PTL

(* No window policy ever exceeds what it promises, over any interval: the  *)
(* fixed window, the sliding log, the sliding counter, and both dimensions *)
(* of the dual bucket.                                                     *)
THEOREM WindowsKeepCeilings == Spec => []CeilingsHold
BY WindowsStaySound, WindowsPromise, PTL

(* A ring of timestamps, expired lazily, decides and waits exactly as the  *)
(* trailing window that keeps none.                                        *)
THEOREM LogImplementsExactWindow == Spec => ImplementsExactWindow
<1>1. Init => LOG!E!Init
    BY WindowsStartSound
<1>2. WindowsSound /\ [Next]_vars => (policy = "sliding_log" => [LOG!ExactStep]_(LOG!E!windowVars))
    BY WindowsStep
<1>3. QED
    BY <1>1, <1>2, WindowsStaySound, PTL DEF Spec, ImplementsExactWindow

(* Two ledgers refilled lazily and charged together decide and wait        *)
(* exactly as a meter whose refusals charge neither.                       *)
THEOREM DualImplementsMeter == Spec => ImplementsDualMeter
<1>1. Init => DUAL!D!Init
    BY WindowsStartSound
<1>2. WindowsSound /\ [Next]_vars => (policy = "dual_bucket" => [DUAL!DualStep]_(DUAL!D!dualVars))
    BY WindowsStep
<1>3. QED
    BY <1>1, <1>2, WindowsStaySound, PTL DEF Spec, ImplementsDualMeter

-----------------------------------------------------------------------------
(* Whichever policy the factory built: its own state.                      *)

(* What a meter keeps has the type its module gives it.                    *)
LEMMA LedgersAreTyped ==
    ASSUME LedgerSound
    PROVE  /\ policy = "token_bucket"   => TB!TypeOK
           /\ policy = "c_token_bucket" => CTB!TypeOK
           /\ policy = "leaky_bucket"   => LB!TypeOK
           /\ policy = "gcra"           => GCRA!TypeOK
           /\ policy = "c_gcra"         => GCRA!PortTypeOK
<1>1. policy \in {"token_bucket", "gcra"} => /\ policy = "token_bucket" => TB!TypeOK
                                             /\ policy = "gcra" => GCRA!TypeOK
    BY DEF LedgerSound
<1>2. ASSUME policy = "c_token_bucket"
      PROVE  CTB!TypeOK
    <2>1. TB!TypeOK /\ Slots(DOMAIN buckets, taken)
        BY <1>2, WhoseDebt DEF LedgerSound
    <2>2. CTB!HarnessTypeOK
        BY <2>1 DEF TB!TypeOK, TB!HarnessTypeOK, TB!Replies, TB!Readings,
                    CTB!HarnessTypeOK, CTB!Replies, CTB!Readings
    <2>3. CTB!Cardinality(DOMAIN buckets) = Cardinality(DOMAIN buckets)
        BY Zenon DEF CTB!Cardinality, Cardinality
    <2>4. CTB!TableOK(DOMAIN buckets)
        BY <2>1, <2>3 DEF CTB!TableOK, Slots
    <2>5. \A k \in DOMAIN buckets : buckets[k] \in CTB!Bucket /\ buckets[k].last <= now
        BY <2>1 DEF TB!TypeOK, TB!BucketsOK, TB!Ledger, TB!Bucket, TB!Unit, CTB!Bucket, CTB!Unit
    <2>6. QED
        BY <2>2, <2>4, <2>5 DEF CTB!TypeOK
<1>3. ASSUME policy = "leaky_bucket"
      PROVE  LB!TypeOK
    <2>1. HarnessTypeOK /\ LeakyLedgers /\ Slots(DOMAIN buckets, taken)
        BY <1>3, WhoseDebt DEF LedgerSound
    <2>2. LB!Cardinality(DOMAIN buckets) = Cardinality(DOMAIN buckets)
        BY Zenon DEF LB!Cardinality, Cardinality
    <2>3. LB!TableOK(DOMAIN buckets)
        BY <2>1, <2>2 DEF LB!TableOK, Slots
    <2>4. QED
        BY <2>1, <2>3, SameHarness, Zenon DEF LB!TypeOK, LB!BucketsOK, LeakyLedgers
<1>4. ASSUME policy = "c_gcra"
      PROVE  GCRA!PortTypeOK
    <2>1. GCRA!TypeOK /\ Slots(DOMAIN tat, taken)
        BY <1>4, WhoseDebt DEF LedgerSound
    <2>2. GCRA!Cardinality(DOMAIN tat) = Cardinality(DOMAIN tat)
        BY Zenon DEF GCRA!Cardinality, Cardinality
    <2>3. GCRA!TableOK(DOMAIN tat)
        BY <2>1, <2>2 DEF GCRA!TableOK, Slots
    <2>4. QED
        BY <2>1, <2>3 DEF GCRA!PortTypeOK
<1>5. QED
    BY <1>1, <1>2, <1>3, <1>4

(* Every policy's own state is well formed, for good.                      *)
THEOREM LimitersAreTyped == FillTimeFits => (Spec => []TypeOK)
<1> SUFFICES ASSUME FillTimeFits
             PROVE  Spec => []TypeOK
    OBVIOUS
<1> DEFINE Known == policy \in Meters \cup Windows
<1>1. Init => Known
    BY DEF Init
<1>2. LedgerSound /\ Known /\ [Next]_vars => Known'
    BY LedgerStep
<1>3. LedgerSound /\ WindowsSound /\ Known => TypeOK
    BY LedgersAreTyped, WindowsPromise DEF TypeOK, Meters, Windows
<1> HIDE DEF Known
<1>4. QED
    BY <1>1, <1>2, <1>3, LedgersStaySound, WindowsStaySound, PTL DEF Spec

-----------------------------------------------------------------------------
(* Waits.                                                                  *)

(* From an instant to the end of its aligned window the window stays the   *)
(* same; the next instant starts the next.                                 *)
LEMMA UntilTheEdge ==
    ASSUME NEW s \in Nat
    PROVE  /\ \A t \in Nat : s <= t /\ t < WindowOf(s) + WindowMs => WindowOf(t) = WindowOf(s)
           /\ WindowOf(WindowOf(s) + WindowMs) = WindowOf(s) + WindowMs
<1>1. /\ WindowMs \in Nat /\ WindowMs > 0
      /\ WindowOf(s) \in Nat /\ WindowOf(s) <= s
    BY WindowIs
<1>2. PICK n \in Nat : n = s \div WindowMs /\ WindowOf(s) = WindowMs * n
    BY WindowIs
<1>3. ASSUME NEW t \in Nat, s <= t, t < WindowOf(s) + WindowMs
      PROVE  WindowOf(t) = WindowOf(s)
    <2>1. t \div WindowMs = n
        BY <1>1, <1>2, <1>3, WindowNumber
    <2>2. QED
        BY <1>2, <2>1, WindowIs
<1>4. WindowOf(WindowOf(s) + WindowMs) = WindowOf(s) + WindowMs
    <2>1. PICK e \in Nat : e = WindowOf(s) + WindowMs
        BY <1>1
    <2>2. WindowMs * (n + 1) = WindowMs * n + WindowMs
        BY <1>1
    <2>3. WindowMs * (n + 1) = e
        BY <1>2, <2>1, <2>2
    <2>4. e \div WindowMs = n + 1
        BY <1>1, <2>1, <2>3, WindowNumber
    <2>5. WindowOf(e) = WindowMs * (n + 1)
        BY <2>4, WindowIs
    <2>6. QED
        BY <2>1, <2>3, <2>5
<1>5. QED
    BY <1>3, <1>4

(* A full window refuses until its edge, and the edge empties it.          *)
LEMMA FixedWaits ==
    ASSUME FixedSound
    PROVE  FIXED!WaitIsExact
<1> SUFFICES ASSUME NEW k \in DOMAIN buckets, NEW wait, wait = FIXED!WaitFor(k)
             PROVE  /\ FIXED!Fits(k, 1, now + wait)
                    /\ \A t \in now..(now + wait - 1) : ~ FIXED!Fits(k, 1, t)
    BY Zenon DEF FIXED!WaitIsExact
<1>1. PICK b : b = buckets[k]
    OBVIOUS
<1>2. /\ b.windowStart \in Nat /\ b.count \in 0..Limit /\ b.windowStart <= now
    BY <1>1 DEF FixedSound, FixedCounts, CountsItsWindow
<1>3. PICK s \in Nat : s = now
    BY DEF FixedSound, History, HarnessTypeOK
<1>4. PICK w \in Nat : w = WindowOf(s) /\ w <= s /\ s < w + WindowMs
    BY WindowIs
<1>5. WindowMs \in Nat /\ WindowMs > 0 /\ Limit \in Nat /\ Limit > 0
    BY WindowAssumption
<1>6. \A t : FIXED!Fits(k, 1, t) <=>
                (IF b.windowStart = WindowOf(t) THEN b.count ELSE 0) + 1 <= Limit
    BY <1>1, SameFixed DEF FIXED!Fits, FIXED!BucketAt
<1>7. CASE b.windowStart # w \/ b.count < Limit
    <2>1. wait = 0
        BY <1>1, <1>3, <1>4, <1>7, SameFixed DEF FIXED!WaitFor
    <2>2. FIXED!Fits(k, 1, s)
        BY <1>2, <1>4, <1>5, <1>6, <1>7
    <2>3. QED
        BY <1>3, <2>1, <2>2
<1>8. CASE ~ (b.windowStart # w \/ b.count < Limit)
    <2>1. wait = w + WindowMs - s
        BY <1>1, <1>3, <1>4, <1>8, SameFixed DEF FIXED!WaitFor
    <2>2. now + wait = w + WindowMs
        BY <1>3, <1>4, <1>5, <2>1
    <2>3. WindowOf(w + WindowMs) = w + WindowMs
        BY <1>4, UntilTheEdge
    <2>4. FIXED!Fits(k, 1, w + WindowMs)
        BY <1>4, <1>5, <1>6, <1>8, <2>3
    <2>5. ASSUME NEW t \in now..(now + wait - 1)
          PROVE  ~ FIXED!Fits(k, 1, t)
        <3>1. t \in Nat /\ s <= t /\ t < w + WindowMs
            BY <1>3, <1>4, <1>5, <2>1
        <3>2. WindowOf(t) = w
            BY <1>4, <3>1, UntilTheEdge
        <3>3. b.count = Limit
            BY <1>2, <1>5, <1>8
        <3>4. QED
            BY <1>5, <1>6, <1>8, <3>2, <3>3
    <2>6. QED
        BY <2>2, <2>4, <2>5
<1>9. QED
    BY <1>7, <1>8

(* A whole number below a bound times the divisor divides below the bound. *)
LEMMA DivBelow ==
    ASSUME NEW x \in Nat, NEW d \in Nat, d > 0, NEW m \in Int
    PROVE  x \div d < m <=> x < d * m
<1>1. PICK q \in Nat : q = x \div d
    OBVIOUS
<1>2. PICK r \in Nat : r = x % d /\ r < d
    OBVIOUS
<1>3. x = d * q + r
    BY <1>1, <1>2
<1>4. ASSUME q < m PROVE x < d * m
    <2>1. PICK i \in Nat : i = m - q - 1
        BY <1>4
    <2>2. m = q + 1 + i
        BY <2>1
    <2>3. d * (q + 1 + i) = d * q + d + d * i /\ d * i \in Nat /\ d * q \in Nat
        OBVIOUS
    <2>4. QED
        BY <1>2, <1>3, <2>2, <2>3
<1>5. ASSUME ~ (q < m) PROVE ~ (x < d * m)
    <2>1. PICK i \in Nat : i = q - m
        BY <1>5
    <2>2. q = m + i
        BY <2>1
    <2>3. d * (m + i) = d * m + d * i /\ d * i \in Nat /\ d * m \in Int
        OBVIOUS
    <2>4. QED
        BY <1>2, <1>3, <2>2, <2>3
<1>6. QED
    BY <1>1, <1>4, <1>5

(* A counter rolled forward now and again later is the counter rolled      *)
(* forward later.                                                          *)
LEMMA RolledOn ==
    ASSUME CounterSound, NEW k \in DOMAIN counters, NEW t \in Nat, t >= now,
           NEW c, c = COUNTER!CounterAt(k, now)
    PROVE  /\ WindowOf(t) = WindowOf(now) => COUNTER!CounterAt(k, t) = c
           /\ WindowOf(t) > WindowOf(now) =>
                COUNTER!CounterAt(k, t) =
                    [windowStart |-> WindowOf(t), current |-> 0,
                     previous |-> IF WindowOf(t) = WindowOf(now) + WindowMs THEN c.current ELSE 0]
<1>1. PICK x : x = counters[k]
    OBVIOUS
<1>2. PICK s \in Nat : s = now
    BY DEF CounterSound, History, HarnessTypeOK
<1>3. PICK y \in Nat : y = x.windowStart /\ y <= s /\ WindowOf(y) = y
    BY <1>1, <1>2 DEF CounterSound, SlidingCounts, CountsTwoWindows
<1>4. PICK w \in Nat : w = WindowOf(s)
    BY WindowIs
<1>5. WindowMs \in Nat /\ WindowMs > 0
    BY WindowAssumption
<1>6. y = w \/ y + WindowMs <= w
    BY <1>3, <1>4, <1>5, WindowsInOrder
<1>7. \A a : COUNTER!CounterAt(k, a) = COUNTER!Advance(x, WindowOf(a))
    BY <1>1, SameCounter DEF COUNTER!CounterAt
<1>8. c = COUNTER!Advance(x, w)
    BY <1>2, <1>4, <1>7
<1>9. PICK v \in Nat : v = WindowOf(t)
    BY WindowIs
<1>10. COUNTER!CounterAt(k, t) = COUNTER!Advance(x, v)
    BY <1>7, <1>9
<1>11. ASSUME v > w
       PROVE  COUNTER!Advance(x, v) =
                [windowStart |-> v, current |-> 0,
                 previous |-> IF v = w + WindowMs THEN c.current ELSE 0]
    <2>1. CASE y = w
        BY <1>3, <1>5, <1>8, <1>11, <2>1 DEF COUNTER!Advance
    <2>2. CASE y + WindowMs <= w
        <3>1. c.current = 0
            BY <1>3, <1>5, <1>8, <2>2 DEF COUNTER!Advance
        <3>2. v # y /\ v # y + WindowMs
            BY <1>5, <1>11, <2>2
        <3>3. COUNTER!Advance(x, v) = [windowStart |-> v, current |-> 0, previous |-> 0]
            BY <1>3, <3>2 DEF COUNTER!Advance
        <3>4. QED
            BY <3>1, <3>3
    <2>3. QED
        BY <1>6, <2>1, <2>2
<1>12. QED
    BY <1>2, <1>4, <1>8, <1>9, <1>10, <1>11

(* When a count that has faded for a while leaves room for one more.       *)
LEMMA FadedFits ==
    ASSUME NEW p \in Nat, NEW u \in Nat, NEW e \in 0..WindowMs
    PROVE  ((p * (WindowMs - e)) \div WindowMs) + u + 1 <= Limit
              <=> WindowMs * (p - (Limit - u)) < p * e
<1>1. PICK d \in Nat : d = WindowMs /\ d > 0
    BY WindowAssumption
<1>2. PICK m \in Int : m = Limit - u /\ Limit \in Nat
    BY WindowAssumption
<1>3. PICK x \in Nat : x = p * (d - e)
    <2>1. PICK f \in Nat : f = d - e
        BY <1>1
    <2>2. p * f \in Nat
        OBVIOUS
    <2>3. QED
        BY <2>1, <2>2
<1>4. x = d * p - p * e /\ d * p \in Nat /\ p * e \in Nat
    <2>1. p * (d - e) = p * d - p * e /\ p * d = d * p
        OBVIOUS
    <2>2. QED
        BY <1>3, <2>1
<1>5. d * (p - m) = d * p - d * m /\ d * m \in Int
    OBVIOUS
<1>6. x \div d < m <=> x < d * m
    BY <1>1, DivBelow
<1>7. PICK q \in Nat : q = x \div d
    BY <1>1
<1>8. (q + u + 1 <= Limit) <=> q < m
    BY <1>2
<1>9. x < d * m <=> d * (p - m) < p * e
    BY <1>4, <1>5
<1>10. QED
    BY <1>1, <1>2, <1>3, <1>6, <1>7, <1>8, <1>9

(* What a rolled-forward counter refuses until it names, and admits there: *)
(* past the edge when this window is full on its own, otherwise where the  *)
(* previous count has faded enough, which is at the edge at the latest.    *)
LEMMA CounterWaits ==
    ASSUME CounterSound
    PROVE  /\ COUNTER!WaitIsExact
           /\ \A k \in DOMAIN counters :
                 COUNTER!WaitFor(COUNTER!CounterAt(k, now)) \in 0..(WindowMs + 1)
<1> SUFFICES ASSUME NEW k \in DOMAIN counters,
                    NEW wait, wait = COUNTER!WaitFor(COUNTER!CounterAt(k, now))
             PROVE  /\ COUNTER!Fits(k, 1, now + wait)
                    /\ \A t \in now..(now + wait - 1) : ~ COUNTER!Fits(k, 1, t)
                    /\ wait \in 0..(WindowMs + 1)
    BY Zenon DEF COUNTER!WaitIsExact
<1>1. PICK s \in Nat : s = now
    BY DEF CounterSound, History, HarnessTypeOK
<1>2. PICK w \in Nat : w = WindowOf(s) /\ w <= s /\ s < w + WindowMs
    BY WindowIs
<1>3. PICK d \in Nat : d = WindowMs /\ d > 0
    BY WindowAssumption
<1>4. PICK l \in Nat : l = Limit /\ l > 0
    BY WindowAssumption
<1>5. PICK c : c = COUNTER!CounterAt(k, now)
    OBVIOUS
<1>6. /\ k \in Keys /\ c.windowStart = w
      /\ c \in [windowStart : Nat, current : 0..Limit, previous : 0..Limit]
    BY <1>1, <1>2, <1>5, RolledForward DEF CounterSound, SlidingCounts, CountsTwoWindows
<1>7. PICK p \in Nat : p = c.previous
    BY <1>4, <1>6
<1>8. PICK u \in Nat : u = c.current /\ u <= l
    BY <1>4, <1>6
<1>9. PICK over \in Int : over = p - (l - u)
    OBVIOUS
<1>10. ASSUME NEW e \in 0..d
       PROVE  ((p * (d - e)) \div d) + u + 1 <= l <=> d * over < p * e
    BY <1>3, <1>4, <1>9, FadedFits
<1>11. ASSUME NEW f \in Nat, s <= w + f, f < d
       PROVE  COUNTER!Fits(k, 1, w + f) <=> d * over < p * f
    <2>1. PICK t \in Nat : t = w + f /\ t >= now /\ t - w = f /\ t < w + d
        BY <1>1, <1>11
    <2>2. WindowOf(t) = WindowOf(now)
        BY <1>1, <1>2, <1>3, <2>1, UntilTheEdge
    <2>3. COUNTER!CounterAt(k, t) = c
        BY <1>5, <2>1, <2>2, RolledOn
    <2>4. COUNTER!Fits(k, 1, t) <=> ((p * (d - f)) \div d) + u + 1 <= l
        BY <1>3, <1>4, <1>6, <1>7, <1>8, <2>1, <2>3 DEF COUNTER!Fits, COUNTER!Estimate
    <2>5. f \in 0..d
        BY <1>11
    <2>6. QED
        BY <1>10, <2>1, <2>4, <2>5
<1>12. PICK e \in Nat : e = s - w /\ e < d /\ s = w + e
    BY <1>2, <1>3
<1>13. COUNTER!WaitFor(c) =
         IF      d * over < p * e            THEN 0
         ELSE IF l - u - 1 < 0               THEN d - e + 1
         ELSE IF p = 0 \/ over < 0           THEN 0
         ELSE IF ((d * over) \div p) + 1 > e THEN ((d * over) \div p) + 1 - e
         ELSE 0
    <2>1. COUNTER!Estimate(c, now) = ((p * (d - e)) \div d) + u
        BY <1>1, <1>3, <1>6, <1>7, <1>8, <1>12 DEF COUNTER!Estimate
    <2>2. PICK q \in Nat : q = (p * (d - e)) \div d
        <3>1. PICK g \in Nat : g = d - e
            BY <1>12
        <3>2. PICK h \in Nat : h = p * g
            OBVIOUS
        <3>3. h \div d \in Nat
            BY <1>3
        <3>4. QED
            BY <3>1, <3>2, <3>3
    <2>3. COUNTER!Estimate(c, now) < Limit <=> d * over < p * e
        <3>1. e \in 0..d
            BY <1>12
        <3>2. q + u + 1 <= l <=> d * over < p * e
            BY <1>10, <2>2, <3>1
        <3>3. QED
            BY <1>4, <2>1, <2>2, <3>2
    <2>4. c.previous - (Limit - c.current - 1) - 1 = over
        BY <1>4, <1>7, <1>8, <1>9
    <2>5. now - c.windowStart = e
        BY <1>1, <1>6, <1>12
    <2>6. QED
        <3>1. PICK faded : faded = (d * over) \div p
            OBVIOUS
        <3>2. (WindowMs * (c.previous - (Limit - c.current - 1) - 1)) \div c.previous = faded
            BY <1>3, <1>7, <2>4, <3>1, Zenon
        <3>3. Limit - c.current - 1 = l - u - 1
            BY <1>4, <1>8
        <3>4. CASE d * over < p * e
            <4>1. COUNTER!WaitFor(c) = 0
                BY <2>3, <3>4 DEF COUNTER!WaitFor
            <4>2. QED
                BY <3>4, <4>1, Zenon
        <3>5. CASE ~ (d * over < p * e) /\ l - u - 1 < 0
            <4>1. COUNTER!WaitFor(c) = WindowMs - (now - c.windowStart) + 1
                BY <2>3, <3>3, <3>5 DEF COUNTER!WaitFor
            <4>2. QED
                BY <1>3, <2>5, <3>5, <4>1, Zenon
        <3>6. CASE /\ ~ (d * over < p * e) /\ ~ (l - u - 1 < 0)
                   /\ p = 0 \/ over < 0
            <4>1. COUNTER!WaitFor(c) = 0
                BY <1>7, <2>3, <2>4, <3>3, <3>6 DEF COUNTER!WaitFor
            <4>2. QED
                BY <3>6, <4>1, Zenon
        <3>7. CASE /\ ~ (d * over < p * e) /\ ~ (l - u - 1 < 0)
                   /\ ~ (p = 0 \/ over < 0)
            <4>1. PICK target : target = faded + 1
                OBVIOUS
            <4>2. COUNTER!WaitFor(c) = IF target > now - c.windowStart
                                       THEN target - (now - c.windowStart) ELSE 0
                BY <1>7, <2>3, <2>4, <3>2, <3>3, <3>7, <4>1 DEF COUNTER!WaitFor
            <4>3. QED
                <5>1. target = ((d * over) \div p) + 1
                    BY <3>1, <4>1, Zenon
                <5>2. COUNTER!WaitFor(c) = IF target > e THEN target - e ELSE 0
                    BY <2>5, <4>2, Zenon
                <5>3. CASE target > e
                    BY <3>7, <5>1, <5>2, <5>3
                <5>4. CASE ~ (target > e)
                    BY <3>7, <5>1, <5>2, <5>4
                <5>5. QED
                    BY <5>3, <5>4
        <3>8. QED
            BY <3>4, <3>5, <3>6, <3>7, Zenon
<1>14. CASE d * over < p * e
    <2>1. wait = 0
        BY <1>5, <1>13, <1>14
    <2>2. COUNTER!Fits(k, 1, w + e)
        BY <1>11, <1>12, <1>14
    <2>3. QED
        BY <1>1, <1>3, <1>12, <2>1, <2>2
<1>15. CASE ~ (d * over < p * e) /\ u = l
    <2>1. wait = d - e + 1
        BY <1>5, <1>13, <1>15
    <2>2. now + wait = w + d + 1 /\ now + wait - 1 = w + d
        BY <1>1, <1>12, <2>1
    <2>3. over = p /\ d * over = p * d
        BY <1>9, <1>15
    <2>4. ASSUME NEW f \in Nat, s <= w + f, f < d
          PROVE  ~ COUNTER!Fits(k, 1, w + f)
        <3>1. PICK g \in Nat : g = d - f
            BY <2>4
        <3>2. p * (f + g) = p * f + p * g /\ p * g \in Nat /\ p * f \in Nat
            OBVIOUS
        <3>3. ~ (d * over < p * f)
            BY <2>3, <3>1, <3>2
        <3>4. QED
            BY <1>11, <2>4, <3>3
    <2>5. WindowOf(w + d) = w + d
        BY <1>2, <1>3, UntilTheEdge
    <2>6. ~ COUNTER!Fits(k, 1, w + d)
        <3>1. PICK t \in Nat : t = w + d /\ t >= now
            BY <1>1, <1>12
        <3>2. COUNTER!CounterAt(k, t) = [windowStart |-> t, current |-> 0, previous |-> u]
            BY <1>1, <1>2, <1>3, <1>5, <1>8, <2>5, <3>1, RolledOn
        <3>3. COUNTER!Estimate(COUNTER!CounterAt(k, t), t) = (u * (d - (t - t))) \div d
            <4>1. PICK a \in Nat : a = (u * (d - (t - t))) \div d
                BY <1>3
            <4>2. QED
                BY <1>3, <3>2, <4>1 DEF COUNTER!Estimate
        <3>4. (u * (d - (t - t))) \div d = u
            <4>1. u * (d - (t - t)) = d * u /\ d * u \in Nat
                BY <3>1
            <4>2. PICK a \in Nat : a = (d * u) \div d
                BY <1>3, <4>1
            <4>3. a < u + 1 /\ ~ (a < u)
                <5>1. d * (u + 1) = d * u + d
                    OBVIOUS
                <5>2. d * u < d * (u + 1) /\ ~ (d * u < d * u)
                    BY <1>3, <4>1, <5>1
                <5>3. QED
                    BY <1>3, <4>1, <4>2, <5>2, DivBelow
            <4>4. QED
                BY <4>1, <4>2, <4>3
        <3>5. QED
            BY <1>4, <1>15, <3>1, <3>3, <3>4 DEF COUNTER!Fits
    <2>7. COUNTER!Fits(k, 1, w + d + 1)
        <3>1. PICK t \in Nat : t = w + d + 1 /\ t >= now
            BY <1>1, <1>12
        <3>2. CASE d = 1
            <4>1. PICK v \in Nat : v = w + d /\ WindowOf(v) = v
                BY <2>5
            <4>2. WindowOf(v + d) = v + d
                BY <1>3, <4>1, UntilTheEdge
            <4>3. t = v + d /\ t = w + d + 1 /\ t # w + d
                BY <3>1, <3>2, <4>1
            <4>4. WindowOf(t) = t /\ WindowOf(now) = w /\ t > w /\ t # w + d
                BY <1>1, <1>2, <3>1, <4>2, <4>3
            <4>5. COUNTER!CounterAt(k, t) = [windowStart |-> t, current |-> 0, previous |-> 0]
                BY <1>3, <1>5, <3>1, <4>4, RolledOn
            <4>6. COUNTER!Estimate(COUNTER!CounterAt(k, t), t) = 0
                <5>1. 0 * (d - (t - t)) = 0 /\ 0 \div d = 0
                    BY <1>3
                <5>2. QED
                    BY <1>3, <4>5, <5>1 DEF COUNTER!Estimate
            <4>7. QED
                BY <1>4, <3>1, <4>6 DEF COUNTER!Fits
        <3>3. CASE d # 1
            <4>1. WindowOf(t) = w + d
                <5>1. PICK v \in Nat : v = w + d /\ WindowOf(v) = v
                    BY <2>5
                <5>2. v <= t /\ t < v + d
                    BY <1>3, <3>1, <3>3, <5>1
                <5>3. QED
                    BY <1>3, <5>1, <5>2, UntilTheEdge
            <4>2. COUNTER!CounterAt(k, t) = [windowStart |-> w + d, current |-> 0, previous |-> u]
                BY <1>1, <1>2, <1>3, <1>5, <1>8, <3>1, <4>1, RolledOn
            <4>3. t - (w + d) = 1
                BY <3>1
            <4>4. PICK a \in Nat : a = d - 1
                BY <1>3
            <4>5. PICK x \in Nat : x = u * a
                OBVIOUS
            <4>6. PICK q \in Nat : q = x \div d
                BY <1>3
            <4>7. COUNTER!Estimate(COUNTER!CounterAt(k, t), t) = q
                BY <1>3, <4>2, <4>3, <4>4, <4>5, <4>6 DEF COUNTER!Estimate
            <4>8. q < u
                <5>1. d = a + 1
                    BY <4>4
                <5>2. (a + 1) * u = u * a + u
                    OBVIOUS
                <5>3. x < d * u
                    BY <1>4, <1>15, <4>5, <5>1, <5>2
                <5>4. QED
                    BY <1>3, <4>6, <5>3, DivBelow
            <4>9. QED
                BY <1>4, <1>15, <3>1, <4>7, <4>8 DEF COUNTER!Fits
        <3>4. QED
            BY <3>2, <3>3
    <2>8. ASSUME NEW t \in now..(now + wait - 1)
          PROVE  ~ COUNTER!Fits(k, 1, t)
        <3>1. PICK f \in Nat : f = t - w /\ t = w + f /\ s <= w + f /\ f <= d
            BY <1>1, <1>2, <1>12, <2>2
        <3>2. CASE f < d
            BY <2>4, <3>1, <3>2
        <3>3. CASE f = d
            BY <2>6, <3>1, <3>3
        <3>4. QED
            BY <3>1, <3>2, <3>3
    <2>9. wait \in 0..(WindowMs + 1)
        BY <1>3, <1>12, <2>1
    <2>10. QED
        BY <2>2, <2>7, <2>8, <2>9
<1>16. CASE ~ (d * over < p * e) /\ u < l
    <2>1. PICK x \in Int : x = d * over
        OBVIOUS
    <2>2. p * e \in Nat /\ x >= p * e
        BY <1>16, <2>1
    <2>3. over >= 0
        <3>1. ASSUME over < 0 PROVE FALSE
            <4>1. PICK a \in Nat : over = -1 - a
                BY <3>1
            <4>2. d * (-1 - a) = -d - d * a /\ d * a \in Nat
                OBVIOUS
            <4>3. QED
                BY <1>3, <2>1, <2>2, <4>1, <4>2
        <3>2. QED
            BY <3>1
    <2>4. p > 0 /\ over < p
        BY <1>8, <1>9, <1>16, <2>3
    <2>5. x \in Nat
        BY <2>1, <2>2
    <2>6. PICK g \in Nat : g = (x \div p) + 1
        BY <2>4, <2>5
    <2>7. ASSUME NEW m \in Nat
          PROVE  x < p * m <=> m >= g
        <3>1. x \div p < m <=> x < p * m
            BY <2>4, <2>5, DivBelow
        <3>2. PICK q \in Nat : q = x \div p
            BY <2>4, <2>5
        <3>3. QED
            BY <2>6, <3>1, <3>2
    <2>8. e < g
        BY <2>2, <2>7
    <2>9. g <= d
        <3>1. PICK a \in Nat : p = over + 1 + a
            BY <2>3, <2>4
        <3>2. (over + 1 + a) * d = d * over + d + a * d /\ a * d \in Nat
            OBVIOUS
        <3>3. x < p * d
            BY <1>3, <2>1, <2>5, <3>1, <3>2
        <3>4. QED
            BY <2>7, <3>3
    <2>10. wait = g - e
        <3>1. ~ (l - u - 1 < 0) /\ ~ (p = 0 \/ over < 0)
            BY <1>16, <2>3, <2>4
        <3>2. PICK q \in Nat : q = x \div p
            BY <2>4, <2>5
        <3>3. QED
            BY <1>5, <1>13, <1>16, <2>1, <2>6, <2>8, <3>1, <3>2
    <2>11. now + wait = w + g
        BY <1>1, <1>12, <2>10
    <2>12. COUNTER!Fits(k, 1, w + g)
        <3>1. CASE g < d
            <4>1. s <= w + g
                BY <1>12, <2>8
            <4>2. d * over < p * g
                BY <2>1, <2>7
            <4>3. QED
                BY <1>11, <3>1, <4>1, <4>2
        <3>2. CASE g = d
            <4>1. PICK t \in Nat : t = w + d /\ t >= now
                BY <1>1, <1>12
            <4>2. WindowOf(t) = t
                BY <1>2, <1>3, <4>1, UntilTheEdge
            <4>3. COUNTER!CounterAt(k, t) = [windowStart |-> t, current |-> 0, previous |-> u]
                BY <1>1, <1>2, <1>3, <1>5, <1>8, <4>1, <4>2, RolledOn
            <4>4. PICK a \in Nat : a = (u * d) \div d
                BY <1>3
            <4>5. COUNTER!Estimate(COUNTER!CounterAt(k, t), t) = a
                <5>1. d - (t - t) = d
                    OBVIOUS
                <5>2. QED
                    BY <1>3, <4>3, <4>4, <5>1 DEF COUNTER!Estimate
            <4>6. a < u + 1
                <5>1. d * (u + 1) = u * d + d /\ u * d \in Nat
                    OBVIOUS
                <5>2. QED
                    BY <1>3, <4>4, <5>1, DivBelow
            <4>7. QED
                BY <1>4, <1>16, <3>2, <4>1, <4>5, <4>6 DEF COUNTER!Fits
        <3>3. QED
            BY <2>9, <3>1, <3>2
    <2>13. ASSUME NEW t \in now..(now + wait - 1)
           PROVE  ~ COUNTER!Fits(k, 1, t)
        <3>1. PICK f \in Nat : f = t - w /\ t = w + f /\ s <= w + f /\ f < g
            BY <1>1, <1>2, <1>12, <2>10, <2>11
        <3>2. f < d /\ ~ (x < p * f)
            BY <2>7, <2>9, <3>1
        <3>3. QED
            BY <1>11, <2>1, <3>1, <3>2
    <2>14. wait \in 0..(WindowMs + 1)
        BY <1>3, <1>12, <2>8, <2>9, <2>10
    <2>15. QED
        BY <2>11, <2>12, <2>13, <2>14
<1>17. QED
    BY <1>8, <1>14, <1>15, <1>16

-----------------------------------------------------------------------------
(* What a caller is told.                                                  *)

(* No wait that is the truth is as long as the one that means "never": in  *)
(* the code a window and a period are 32 bits wide, and what stands for    *)
(* never is the largest number of 64.                                      *)
WaitsAreShort == WindowMs + 1 < Unknown /\ PeriodMs < Unknown

Short(wait) == wait \in Nat /\ wait < Unknown

(* The last answer, if it was a wait, does not lie about the table.        *)
Truthful(answer, tracked, others) ==
    answer.op = "retryAfter" =>
        LET room == answer.key \in tracked \/ ~ (Cardinality(tracked) + others >= MaxKeys)
        IN  /\ answer.value = 0 => room
            /\ answer.value = Unknown => ~ room

(* What a step may tell a caller: nothing new, no wait, what a key with no *)
(* slot is told, or a wait that ends.                                      *)
Told(tracked, tracked2) ==
    \/ UNCHANGED <<reply, taken>> /\ tracked2 = tracked
    \/ reply'.op # "retryAfter"
    \/ tracked2 = tracked /\ \E k \in Keys : AnswerUntracked(k, tracked)
    \/ \E k \in tracked2 : reply'.key = k /\ Short(reply'.value)

(* None of which is a lie.                                                 *)
LEMMA NoStepLies ==
    ASSUME NEW tracked, NEW tracked2, Truthful(reply, tracked, taken), Told(tracked, tracked2)
    PROVE  Truthful(reply', tracked2, taken')
<1>1. CASE UNCHANGED <<reply, taken>> /\ tracked2 = tracked
    <2>1. reply' = reply /\ taken' = taken /\ tracked2 = tracked
        BY <1>1
    <2>2. QED
        BY <2>1
<1>2. CASE reply'.op # "retryAfter"
    BY <1>2 DEF Truthful
<1>3. CASE tracked2 = tracked /\ \E k \in Keys : AnswerUntracked(k, tracked)
    <2>1. PICK k \in Keys : AnswerUntracked(k, tracked)
        BY <1>3
    <2>2. /\ k \notin tracked /\ taken' = taken
          /\ reply' = [op |-> "retryAfter", key |-> k, value |-> WaitUntracked(tracked)]
        BY <2>1 DEF AnswerUntracked, Answer
    <2>3. reply'.key = k /\ reply'.value = WaitUntracked(tracked)
        BY <2>2
    <2>4. WaitUntracked(tracked) = IF Cardinality(tracked) + taken >= MaxKeys THEN Unknown ELSE 0
        BY Zenon DEF WaitUntracked, TableFull
    <2>5. Unknown # 0
        BY DEF Unknown
    <2>6. QED
        BY <1>3, <2>2, <2>3, <2>4, <2>5 DEF Truthful
<1>4. CASE \E k \in tracked2 : reply'.key = k /\ Short(reply'.value)
    <2>1. reply'.key \in tracked2 /\ reply'.value # Unknown
        BY <1>4 DEF Short, Unknown
    <2>2. QED
        BY <2>1 DEF Truthful
<1>5. QED
    BY <1>1, <1>2, <1>3, <1>4 DEF Told

(* It is what the run asks of every answer.                                *)
LEMMA TruthfulIs ==
    Truthful(reply, Tracked, taken) <=>
        (reply.op = "retryAfter" =>
            /\ reply.value = 0 => HasRoom(reply.key, Tracked)
            /\ reply.value = Unknown => ~ HasRoom(reply.key, Tracked))
BY Zenon DEF Truthful, HasRoom, TableFull

(* A request is not a wait.                                                *)
LEMMA AllowTells ==
    ASSUME NEW k, NEW cost, NEW yes, AnswerAllow(k, cost, yes), NEW tracked, NEW tracked2
    PROVE  Told(tracked, tracked2)
<1>1. reply'.op = "allow"
    BY DEF AnswerAllow
<1>2. QED
    BY <1>1 DEF Told

(* A wait told to a key that is then tracked.                              *)
LEMMA WaitTells ==
    ASSUME NEW k, NEW wait, Answer("retryAfter", k, wait), Short(wait),
           NEW tracked, NEW tracked2, k \in tracked2
    PROVE  Told(tracked, tracked2)
<1>1. reply'.key = k /\ reply'.value = wait
    BY DEF Answer
<1>2. QED
    BY <1>1 DEF Told

(* What a step of the C token bucket tells.                              *)
LEMMA PortedTells ==
    ASSUME CTB!Next, \A k \in DOMAIN buckets : Short(CTB!WaitFor(CTB!BucketFor(k)))
    PROVE  Told(DOMAIN buckets, DOMAIN buckets')
<1>1. CASE (\E t \in CTB!Later : CTB!Tick(t)) \/ CTB!OpenWindow
    <2>1. UNCHANGED <<reply, taken>> /\ DOMAIN buckets' = DOMAIN buckets
        BY <1>1, Zenon DEF CTB!Tick, CTB!OpenWindow, CTB!AdvanceClock, CTB!MeasureFromNow
    <2>2. QED
        BY <2>1, Zenon DEF Told
<1>2. CASE CTB!AnotherKey(DOMAIN buckets) /\ UNCHANGED buckets
    <2>1. reply'.op = "none"
        BY <1>2 DEF CTB!AnotherKey
    <2>2. QED
        BY <2>1 DEF Told
<1> SUFFICES ASSUME NEW k \in Keys,
                    \/ \E cost \in Costs :
                           CTB!Admit(k, cost) \/ CTB!Refuse(k, cost) \/ CTB!RefuseNewKey(k, cost)
                    \/ CTB!RetryAfterUntracked(k) \/ CTB!RetryAfterTracked(k)
             PROVE  Told(DOMAIN buckets, DOMAIN buckets')
    BY <1>1, <1>2, Zenon DEF CTB!Next
<1>3. ASSUME NEW cost \in Costs, CTB!Admit(k, cost) \/ CTB!Refuse(k, cost)
      PROVE  Told(DOMAIN buckets, DOMAIN buckets')
    <2>1. AnswerAllow(k, cost, TRUE) \/ AnswerAllow(k, cost, FALSE)
        BY <1>3, Zenon DEF CTB!Admit, CTB!Refuse, CTB!AnswerAllow, AnswerAllow
    <2>2. QED
        BY <2>1, AllowTells, Zenon
<1>4. ASSUME NEW cost \in Costs, CTB!RefuseNewKey(k, cost)
      PROVE  Told(DOMAIN buckets, DOMAIN buckets')
    <2>1. AnswerAllow(k, cost, FALSE)
        BY <1>4, Zenon DEF CTB!RefuseNewKey, CTB!TurnAway, CTB!AnswerAllow, AnswerAllow
    <2>2. QED
        BY <2>1, AllowTells, Zenon
<1>5. CASE CTB!RetryAfterUntracked(k)
    <2>1. AnswerUntracked(k, DOMAIN buckets) /\ DOMAIN buckets' = DOMAIN buckets
        BY <1>5, SameTable, Zenon
        DEF CTB!RetryAfterUntracked, CTB!AnswerUntracked, CTB!Answer, AnswerUntracked, Answer
    <2>2. QED
        BY <2>1, Zenon DEF Told
<1>6. CASE CTB!RetryAfterTracked(k)
    <2>1. /\ k \in DOMAIN buckets /\ CTB!Keep(k, CTB!BucketFor(k))
          /\ Answer("retryAfter", k, CTB!WaitFor(CTB!BucketFor(k)))
        BY <1>6, Zenon DEF CTB!RetryAfterTracked, CTB!Answer, Answer
    <2>2. k \in DOMAIN buckets'
        BY <2>1 DEF CTB!Keep
    <2>3. QED
        BY <2>1, <2>2, WaitTells, Zenon
<1>7. QED
    BY <1>3, <1>4, <1>5, <1>6, Zenon

(* What a step of the leaky bucket tells.                                *)
LEMMA LeakyTells ==
    ASSUME LB!Next, \A k \in DOMAIN buckets : Short(LB!WaitFor(LB!BucketFor(k)))
    PROVE  Told(DOMAIN buckets, DOMAIN buckets')
<1>1. CASE (\E t \in LB!Later : LB!Tick(t)) \/ LB!OpenWindow
    <2>1. UNCHANGED <<reply, taken>> /\ DOMAIN buckets' = DOMAIN buckets
        BY <1>1, Zenon DEF LB!Tick, LB!OpenWindow, LB!AdvanceClock, LB!MeasureFromNow
    <2>2. QED
        BY <2>1, Zenon DEF Told
<1>2. CASE LB!AnotherKey(DOMAIN buckets) /\ UNCHANGED buckets
    <2>1. reply'.op = "none"
        BY <1>2 DEF LB!AnotherKey
    <2>2. QED
        BY <2>1 DEF Told
<1> SUFFICES ASSUME NEW k \in Keys,
                    \/ \E cost \in Costs :
                           LB!Admit(k, cost) \/ LB!Refuse(k, cost) \/ LB!RefuseNewKey(k, cost)
                    \/ LB!RetryAfterUntracked(k) \/ LB!RetryAfterTracked(k)
             PROVE  Told(DOMAIN buckets, DOMAIN buckets')
    BY <1>1, <1>2, Zenon DEF LB!Next
<1>3. ASSUME NEW cost \in Costs, LB!Admit(k, cost) \/ LB!Refuse(k, cost)
      PROVE  Told(DOMAIN buckets, DOMAIN buckets')
    <2>1. AnswerAllow(k, cost, TRUE) \/ AnswerAllow(k, cost, FALSE)
        BY <1>3, Zenon DEF LB!Admit, LB!Refuse, LB!AnswerAllow, AnswerAllow
    <2>2. QED
        BY <2>1, AllowTells, Zenon
<1>4. ASSUME NEW cost \in Costs, LB!RefuseNewKey(k, cost)
      PROVE  Told(DOMAIN buckets, DOMAIN buckets')
    <2>1. AnswerAllow(k, cost, FALSE)
        BY <1>4, Zenon DEF LB!RefuseNewKey, LB!TurnAway, LB!AnswerAllow, AnswerAllow
    <2>2. QED
        BY <2>1, AllowTells, Zenon
<1>5. CASE LB!RetryAfterUntracked(k)
    <2>1. AnswerUntracked(k, DOMAIN buckets) /\ DOMAIN buckets' = DOMAIN buckets
        BY <1>5, SameLeakyTable, Zenon
        DEF LB!RetryAfterUntracked, LB!AnswerUntracked, LB!Answer, AnswerUntracked, Answer
    <2>2. QED
        BY <2>1, Zenon DEF Told
<1>6. CASE LB!RetryAfterTracked(k)
    <2>1. /\ k \in DOMAIN buckets /\ LB!Keep(k, LB!BucketFor(k))
          /\ Answer("retryAfter", k, LB!WaitFor(LB!BucketFor(k)))
        BY <1>6, Zenon DEF LB!RetryAfterTracked, LB!Answer, Answer
    <2>2. k \in DOMAIN buckets'
        BY <2>1 DEF LB!Keep
    <2>3. QED
        BY <2>1, <2>2, WaitTells, Zenon
<1>7. QED
    BY <1>3, <1>4, <1>5, <1>6, Zenon

(* What a step of the fixed window tells.                                *)
LEMMA FixedTells ==
    ASSUME FIXED!Next, \A k \in DOMAIN buckets : Short(FIXED!WaitFor(k))
    PROVE  Told(DOMAIN buckets, DOMAIN buckets')
<1>1. CASE \E t \in FIXED!Later : FIXED!Tick(t)
    <2>1. UNCHANGED <<reply, taken>> /\ DOMAIN buckets' = DOMAIN buckets
        BY <1>1, Zenon DEF FIXED!Tick, FIXED!Elapse, FIXED!AdvanceClock
    <2>2. QED
        BY <2>1, Zenon DEF Told
<1>2. CASE FIXED!AnotherKey(DOMAIN buckets) /\ UNCHANGED <<buckets, admitted>>
    <2>1. reply'.op = "none"
        BY <1>2 DEF FIXED!AnotherKey
    <2>2. QED
        BY <2>1 DEF Told
<1> SUFFICES ASSUME NEW k \in Keys,
                    \/ \E cost \in Costs :
                           FIXED!Admit(k, cost) \/ FIXED!Refuse(k, cost) \/ FIXED!RefuseNewKey(k, cost)
                    \/ FIXED!RetryAfterUntracked(k) \/ FIXED!RetryAfterTracked(k)
             PROVE  Told(DOMAIN buckets, DOMAIN buckets')
    BY <1>1, <1>2, Zenon DEF FIXED!Next
<1>3. ASSUME NEW cost \in Costs, FIXED!Admit(k, cost) \/ FIXED!Refuse(k, cost)
      PROVE  Told(DOMAIN buckets, DOMAIN buckets')
    <2>1. AnswerAllow(k, cost, TRUE) \/ AnswerAllow(k, cost, FALSE)
        BY <1>3, Zenon DEF FIXED!Admit, FIXED!Refuse, FIXED!Decide, FIXED!AnswerAllow, AnswerAllow
    <2>2. QED
        BY <2>1, AllowTells, Zenon
<1>4. ASSUME NEW cost \in Costs, FIXED!RefuseNewKey(k, cost)
      PROVE  Told(DOMAIN buckets, DOMAIN buckets')
    <2>1. AnswerAllow(k, cost, FALSE)
        BY <1>4, Zenon DEF FIXED!RefuseNewKey, FIXED!TurnAway, FIXED!AnswerAllow, AnswerAllow
    <2>2. QED
        BY <2>1, AllowTells, Zenon
<1>5. CASE FIXED!RetryAfterUntracked(k)
    <2>1. AnswerUntracked(k, DOMAIN buckets) /\ DOMAIN buckets' = DOMAIN buckets
        BY <1>5, SameFixed, Zenon
        DEF FIXED!RetryAfterUntracked, FIXED!AnswerUntracked, FIXED!Answer, AnswerUntracked, Answer
    <2>2. QED
        BY <2>1, Zenon DEF Told
<1>6. CASE FIXED!RetryAfterTracked(k)
    <2>1. k \in DOMAIN buckets /\ Answer("retryAfter", k, FIXED!WaitFor(k)) /\ DOMAIN buckets' = DOMAIN buckets
        BY <1>6, Zenon DEF FIXED!RetryAfterTracked, FIXED!Read, FIXED!Answer, Answer
    <2>2. k \in DOMAIN buckets'
        BY <2>1
    <2>3. QED
        BY <2>1, <2>2, WaitTells, Zenon
<1>7. QED
    BY <1>3, <1>4, <1>5, <1>6, Zenon

(* What a step of the sliding log tells.                                 *)
LEMMA LogTells ==
    ASSUME LOG!Next, \A k \in DOMAIN logs : Short(LOG!WaitFor(LOG!LogFor(k)))
    PROVE  Told(DOMAIN logs, DOMAIN logs')
<1>1. CASE \E t \in LOG!Later : LOG!Tick(t)
    <2>1. UNCHANGED <<reply, taken>> /\ DOMAIN logs' = DOMAIN logs
        BY <1>1, Zenon DEF LOG!Tick, LOG!Elapse, LOG!AdvanceClock
    <2>2. QED
        BY <2>1, Zenon DEF Told
<1>2. CASE LOG!AnotherKey(DOMAIN logs) /\ UNCHANGED <<logs, admitted>>
    <2>1. reply'.op = "none"
        BY <1>2 DEF LOG!AnotherKey
    <2>2. QED
        BY <2>1 DEF Told
<1> SUFFICES ASSUME NEW k \in Keys,
                    \/ \E cost \in Costs :
                           LOG!Admit(k, cost) \/ LOG!Refuse(k, cost) \/ LOG!RefuseNewKey(k, cost)
                    \/ LOG!RetryAfterUntracked(k) \/ LOG!RetryAfterTracked(k)
             PROVE  Told(DOMAIN logs, DOMAIN logs')
    BY <1>1, <1>2, Zenon DEF LOG!Next
<1>3. ASSUME NEW cost \in Costs, LOG!Admit(k, cost) \/ LOG!Refuse(k, cost)
      PROVE  Told(DOMAIN logs, DOMAIN logs')
    <2>1. AnswerAllow(k, cost, TRUE) \/ AnswerAllow(k, cost, FALSE)
        BY <1>3, Zenon DEF LOG!Admit, LOG!Refuse, LOG!Decide, LOG!AnswerAllow, AnswerAllow
    <2>2. QED
        BY <2>1, AllowTells, Zenon
<1>4. ASSUME NEW cost \in Costs, LOG!RefuseNewKey(k, cost)
      PROVE  Told(DOMAIN logs, DOMAIN logs')
    <2>1. AnswerAllow(k, cost, FALSE)
        BY <1>4, Zenon DEF LOG!RefuseNewKey, LOG!TurnAway, LOG!AnswerAllow, AnswerAllow
    <2>2. QED
        BY <2>1, AllowTells, Zenon
<1>5. CASE LOG!RetryAfterUntracked(k)
    <2>1. AnswerUntracked(k, DOMAIN logs) /\ DOMAIN logs' = DOMAIN logs
        BY <1>5, SameLog, Zenon
        DEF LOG!RetryAfterUntracked, LOG!AnswerUntracked, LOG!Answer, AnswerUntracked, Answer
    <2>2. QED
        BY <2>1, Zenon DEF Told
<1>6. CASE LOG!RetryAfterTracked(k)
    <2>1. /\ k \in DOMAIN logs /\ LOG!Keep(k, LOG!LogFor(k))
          /\ Answer("retryAfter", k, LOG!WaitFor(LOG!LogFor(k)))
        BY <1>6, Zenon DEF LOG!RetryAfterTracked, LOG!Read, LOG!Answer, Answer
    <2>2. k \in DOMAIN logs'
        BY <2>1 DEF LOG!Keep
    <2>3. QED
        BY <2>1, <2>2, WaitTells, Zenon
<1>7. QED
    BY <1>3, <1>4, <1>5, <1>6, Zenon

(* What a step of the sliding counter tells.                             *)
LEMMA CounterTells ==
    ASSUME COUNTER!Next, \A k \in DOMAIN counters : Short(COUNTER!WaitFor(COUNTER!CounterAt(k, now)))
    PROVE  Told(DOMAIN counters, DOMAIN counters')
<1>1. CASE \E t \in COUNTER!Later : COUNTER!Tick(t)
    <2>1. UNCHANGED <<reply, taken>> /\ DOMAIN counters' = DOMAIN counters
        BY <1>1, Zenon DEF COUNTER!Tick, COUNTER!Elapse, COUNTER!AdvanceClock
    <2>2. QED
        BY <2>1, Zenon DEF Told
<1>2. CASE COUNTER!AnotherKey(DOMAIN counters) /\ UNCHANGED <<counters, admitted>>
    <2>1. reply'.op = "none"
        BY <1>2 DEF COUNTER!AnotherKey
    <2>2. QED
        BY <2>1 DEF Told
<1> SUFFICES ASSUME NEW k \in Keys,
                    \/ \E cost \in Costs :
                           COUNTER!Admit(k, cost) \/ COUNTER!Refuse(k, cost) \/ COUNTER!RefuseNewKey(k, cost)
                    \/ COUNTER!RetryAfterUntracked(k) \/ COUNTER!RetryAfterTracked(k)
             PROVE  Told(DOMAIN counters, DOMAIN counters')
    BY <1>1, <1>2, Zenon DEF COUNTER!Next
<1>3. ASSUME NEW cost \in Costs, COUNTER!Admit(k, cost) \/ COUNTER!Refuse(k, cost)
      PROVE  Told(DOMAIN counters, DOMAIN counters')
    <2>1. AnswerAllow(k, cost, TRUE) \/ AnswerAllow(k, cost, FALSE)
        BY <1>3, Zenon DEF COUNTER!Admit, COUNTER!Refuse, COUNTER!Decide, COUNTER!AnswerAllow, AnswerAllow
    <2>2. QED
        BY <2>1, AllowTells, Zenon
<1>4. ASSUME NEW cost \in Costs, COUNTER!RefuseNewKey(k, cost)
      PROVE  Told(DOMAIN counters, DOMAIN counters')
    <2>1. AnswerAllow(k, cost, FALSE)
        BY <1>4, Zenon DEF COUNTER!RefuseNewKey, COUNTER!TurnAway, COUNTER!AnswerAllow, AnswerAllow
    <2>2. QED
        BY <2>1, AllowTells, Zenon
<1>5. CASE COUNTER!RetryAfterUntracked(k)
    <2>1. AnswerUntracked(k, DOMAIN counters) /\ DOMAIN counters' = DOMAIN counters
        BY <1>5, SameCounter, Zenon
        DEF COUNTER!RetryAfterUntracked, COUNTER!AnswerUntracked, COUNTER!Answer, AnswerUntracked, Answer
    <2>2. QED
        BY <2>1, Zenon DEF Told
<1>6. CASE COUNTER!RetryAfterTracked(k)
    <2>1. /\ k \in DOMAIN counters /\ COUNTER!Keep(k, COUNTER!CounterAt(k, now))
          /\ Answer("retryAfter", k, COUNTER!WaitFor(COUNTER!CounterAt(k, now)))
        BY <1>6, Zenon DEF COUNTER!RetryAfterTracked, COUNTER!Read, COUNTER!Answer, Answer
    <2>2. k \in DOMAIN counters'
        BY <2>1 DEF COUNTER!Keep
    <2>3. QED
        BY <2>1, <2>2, WaitTells, Zenon
<1>7. QED
    BY <1>3, <1>4, <1>5, <1>6, Zenon

(* What a step of the dual bucket tells.                                 *)
LEMMA DualTells ==
    ASSUME DUAL!Next, \A k \in DOMAIN buckets : Short(DUAL!WaitBoth(DUAL!BucketFor(k)))
    PROVE  Told(DOMAIN buckets, DOMAIN buckets')
<1>1. CASE (\E t \in DUAL!Later : DUAL!Tick(t)) \/ DUAL!OpenWindow
    <2>1. UNCHANGED <<reply, taken>> /\ DOMAIN buckets' = DOMAIN buckets
        BY <1>1, Zenon DEF DUAL!Tick, DUAL!OpenWindow, DUAL!AdvanceClock, DUAL!MeasureFromNow
    <2>2. QED
        BY <2>1, Zenon DEF Told
<1>2. CASE DUAL!AnotherKey(DOMAIN buckets) /\ UNCHANGED <<buckets, calls>>
    <2>1. reply'.op = "none"
        BY <1>2 DEF DUAL!AnotherKey
    <2>2. QED
        BY <2>1 DEF Told
<1> SUFFICES ASSUME NEW k \in Keys,
                    \/ \E cost \in Costs :
                           DUAL!Admit(k, cost) \/ DUAL!Refuse(k, cost) \/ DUAL!RefuseNewKey(k, cost)
                    \/ DUAL!RetryAfterUntracked(k) \/ DUAL!RetryAfterTracked(k)
             PROVE  Told(DOMAIN buckets, DOMAIN buckets')
    BY <1>1, <1>2, Zenon DEF DUAL!Next
<1>3. ASSUME NEW cost \in Costs, DUAL!Admit(k, cost) \/ DUAL!Refuse(k, cost)
      PROVE  Told(DOMAIN buckets, DOMAIN buckets')
    <2>1. AnswerAllow(k, cost, TRUE) \/ AnswerAllow(k, cost, FALSE)
        BY <1>3, Zenon DEF DUAL!Admit, DUAL!Refuse, DUAL!AnswerAllow, AnswerAllow
    <2>2. QED
        BY <2>1, AllowTells, Zenon
<1>4. ASSUME NEW cost \in Costs, DUAL!RefuseNewKey(k, cost)
      PROVE  Told(DOMAIN buckets, DOMAIN buckets')
    <2>1. AnswerAllow(k, cost, FALSE)
        BY <1>4, Zenon DEF DUAL!RefuseNewKey, DUAL!TurnAway, DUAL!AnswerAllow, AnswerAllow
    <2>2. QED
        BY <2>1, AllowTells, Zenon
<1>5. CASE DUAL!RetryAfterUntracked(k)
    <2>1. AnswerUntracked(k, DOMAIN buckets) /\ DOMAIN buckets' = DOMAIN buckets
        BY <1>5, SameDual, Zenon
        DEF DUAL!RetryAfterUntracked, DUAL!AnswerUntracked, DUAL!Answer, AnswerUntracked, Answer
    <2>2. QED
        BY <2>1, Zenon DEF Told
<1>6. CASE DUAL!RetryAfterTracked(k)
    <2>1. /\ k \in DOMAIN buckets /\ DUAL!Keep(k, DUAL!BucketFor(k))
          /\ Answer("retryAfter", k, DUAL!WaitBoth(DUAL!BucketFor(k)))
        BY <1>6, Zenon DEF DUAL!RetryAfterTracked, DUAL!Answer, Answer
    <2>2. k \in DOMAIN buckets'
        BY <2>1 DEF DUAL!Keep
    <2>3. QED
        BY <2>1, <2>2, WaitTells, Zenon
<1>7. QED
    BY <1>3, <1>4, <1>5, <1>6, Zenon

(* What a step of the C GCRA tells.                                        *)
LEMMA ScheduleTells ==
    ASSUME GCRA!PortNext, \A k \in DOMAIN tat : Short(GCRA!WaitFor(k))
    PROVE  Told(DOMAIN tat, DOMAIN tat')
<1>1. CASE \/ \E t \in GCRA!Later : GCRA!Tick(t) /\ UNCHANGED taken
           \/ GCRA!OpenWindow /\ UNCHANGED taken
    <2>1. UNCHANGED <<reply, taken>> /\ DOMAIN tat' = DOMAIN tat
        BY <1>1, Zenon DEF GCRA!Tick, GCRA!OpenWindow, GCRA!AdvanceClock, GCRA!MeasureFromNow
    <2>2. QED
        BY <2>1, Zenon DEF Told
<1>2. CASE GCRA!AnotherKey(DOMAIN tat) /\ UNCHANGED tat
    <2>1. reply'.op = "none"
        BY <1>2 DEF GCRA!AnotherKey
    <2>2. QED
        BY <2>1 DEF Told
<1> SUFFICES ASSUME NEW k \in Keys,
                    \/ \E cost \in Costs :
                           GCRA!Claim(k, cost) \/ GCRA!RefuseCost(k, cost) \/ GCRA!RefuseNewKey(k, cost)
                    \/ GCRA!RetryAfterUntracked(k) \/ GCRA!RetryAfterTracked(k)
             PROVE  Told(DOMAIN tat, DOMAIN tat')
    BY <1>1, <1>2, Zenon DEF GCRA!PortNext
<1>3. ASSUME NEW cost \in Costs, GCRA!Claim(k, cost) \/ GCRA!RefuseCost(k, cost)
      PROVE  Told(DOMAIN tat, DOMAIN tat')
    <2>1. AnswerAllow(k, cost, TRUE) \/ AnswerAllow(k, cost, FALSE)
        BY <1>3, Zenon DEF GCRA!Claim, GCRA!Admit, GCRA!RefuseCost, GCRA!Refuse,
                           GCRA!AnswerAllow, AnswerAllow
    <2>2. QED
        BY <2>1, AllowTells, Zenon
<1>4. ASSUME NEW cost \in Costs, GCRA!RefuseNewKey(k, cost)
      PROVE  Told(DOMAIN tat, DOMAIN tat')
    <2>1. AnswerAllow(k, cost, FALSE)
        BY <1>4, Zenon DEF GCRA!RefuseNewKey, GCRA!TurnAway, GCRA!AnswerAllow, AnswerAllow
    <2>2. QED
        BY <2>1, AllowTells, Zenon
<1>5. CASE GCRA!RetryAfterUntracked(k)
    <2>1. AnswerUntracked(k, DOMAIN tat) /\ DOMAIN tat' = DOMAIN tat
        BY <1>5, SameScheduleTable, Zenon
        DEF GCRA!RetryAfterUntracked, GCRA!AnswerUntracked, GCRA!Answer, AnswerUntracked, Answer
    <2>2. QED
        BY <2>1, Zenon DEF Told
<1>6. CASE GCRA!RetryAfterTracked(k)
    <2>1. k \in DOMAIN tat /\ Answer("retryAfter", k, GCRA!WaitFor(k)) /\ DOMAIN tat' = DOMAIN tat
        BY <1>6, Zenon DEF GCRA!RetryAfterTracked, GCRA!RetryAfter, GCRA!Answer, Answer
    <2>2. k \in DOMAIN tat'
        BY <2>1
    <2>3. QED
        BY <2>1, <2>2, WaitTells, Zenon
<1>7. QED
    BY <1>3, <1>4, <1>5, <1>6, Zenon

(* Less than one permit is paid back within a second.                      *)
LEMMA PermitIsSoonPaid ==
    ASSUME NEW x \in Nat, x > 0, x <= Unit
    PROVE  Short(MsToAccrue(x))
<1>1. PICK r \in Nat : r = Rate /\ r > 0
    BY BucketAssumption
<1>2. PICK n \in Nat : n = x + r - 1
    BY <1>1
<1>3. PICK q \in Nat : q = n \div r /\ r * q <= n
    BY <1>1
<1>4. MsToAccrue(x) = q
    BY <1>1, <1>2, <1>3 DEF MsToAccrue
<1>5. ASSUME q > 1000
      PROVE  FALSE
    <2>1. PICK i \in Nat : q = 1001 + i
        BY <1>5
    <2>2. r * (1001 + i) = 1001 * r + r * i /\ r * i \in Nat
        OBVIOUS
    <2>3. x <= 1000 /\ n <= 999 + r
        BY <1>2 DEF Unit
    <2>4. QED
        BY <1>1, <1>3, <2>1, <2>2, <2>3
<1>6. QED
    BY <1>4, <1>5 DEF Short, Unknown

(* So no meter names a longer wait.                                        *)
LEMMA MetersWaitShort ==
    ASSUME FillTimeFits, LedgerSound
    PROVE  /\ policy = "c_token_bucket" =>
                \A k \in DOMAIN buckets : Short(CTB!WaitFor(CTB!BucketFor(k)))
           /\ policy = "leaky_bucket" =>
                \A k \in DOMAIN buckets : Short(LB!WaitFor(LB!BucketFor(k)))
           /\ policy = "c_gcra" =>
                \A k \in DOMAIN tat : Short(GCRA!WaitFor(k))
<1>1. Short(0)
    BY DEF Short, Unknown
<1>2. ASSUME policy = "c_token_bucket", NEW k \in DOMAIN buckets
      PROVE  Short(CTB!WaitFor(CTB!BucketFor(k)))
    <2>1. TB!TypeOK
        BY <1>2 DEF LedgerSound
    <2>2. k \in Keys
        BY <2>1 DEF TB!TypeOK, TB!BucketsOK
    <2>3. TB!Ledger(TB!BucketFor(k), now)
        BY <2>1, <2>2, TB!BucketForOwesDebt, HarnessAssumption, BucketAssumption
    <2>4. CTB!BucketFor(k) = TB!BucketFor(k)
        BY SameRefill DEF CTB!BucketFor, TB!BucketFor, CTB!Full, TB!Full
    <2>5. PICK b : b = CTB!BucketFor(k) /\ b.credit \in 0..999
        BY <2>3, <2>4 DEF TB!Ledger, TB!Bucket, TB!Unit
    <2>6. PICK x \in Nat : x = 1000 - b.credit /\ x > 0 /\ x <= Unit
        <3>1. PICK c \in Nat : c = b.credit /\ c <= 999
            BY <2>5
        <3>2. 1000 - c \in Nat /\ 1000 - c > 0 /\ 1000 - c <= Unit
            BY <3>1 DEF Unit
        <3>3. QED
            BY <3>1, <3>2
    <2>7. Short(MsToAccrue(x))
        BY <2>6, PermitIsSoonPaid
    <2>8. CTB!WaitFor(b) = IF b.tokens >= 1 THEN 0 ELSE MsToAccrue(x)
        BY <2>6 DEF CTB!WaitFor, CTB!MsToAccrue, CTB!Unit, MsToAccrue
    <2>9. QED
        BY <1>1, <2>5, <2>7, <2>8
<1>3. ASSUME policy = "leaky_bucket", NEW k \in DOMAIN buckets
      PROVE  Short(LB!WaitFor(LB!BucketFor(k)))
    <2>1. HarnessTypeOK /\ LeakyLedgers
        BY <1>3 DEF LedgerSound
    <2>2. k \in Keys /\ now \in 0..MaxTime
        BY <2>1 DEF LeakyLedgers, HarnessTypeOK
    <2>3. LB!Ledger(LB!BucketFor(k), now)
        BY <2>1, <2>2, SeenInTheMirror
    <2>4. PICK b : b = LB!BucketFor(k) /\ b.credit \in 0..999
        BY <2>3 DEF LB!Ledger, LB!Bucket, LB!Unit
    <2>5. PICK x \in Nat : x = 1000 - b.credit /\ x > 0 /\ x <= Unit
        <3>1. PICK c \in Nat : c = b.credit /\ c <= 999
            BY <2>4
        <3>2. 1000 - c \in Nat /\ 1000 - c > 0 /\ 1000 - c <= Unit
            BY <3>1 DEF Unit
        <3>3. QED
            BY <3>1, <3>2
    <2>6. Short(MsToAccrue(x))
        BY <2>5, PermitIsSoonPaid
    <2>7. LB!WaitFor(b) = IF b.level < Burst THEN 0 ELSE MsToAccrue(x)
        BY <2>5 DEF LB!WaitFor, LB!MsToAccrue, LB!Unit, MsToAccrue
    <2>8. QED
        BY <1>1, <2>4, <2>6, <2>7
<1>4. ASSUME policy = "c_gcra", NEW k \in DOMAIN tat
      PROVE  Short(GCRA!WaitFor(k))
    <2>1. GCRA!TypeOK
        BY <1>4 DEF LedgerSound
    <2>2. k \in Keys
        BY <2>1 DEF GCRA!TypeOK, GCRA!TatsOK
    <2>3. GCRA!WaitFor(k) = GCRA!M!Wait(k)
        BY <2>1, <2>2, GCRA!AnswersReadOffDebt, HarnessAssumption, BucketAssumption, TableAssumption
    <2>4. PICK d \in Nat : d = GCRA!DebtMap[k] /\ d <= Burst * 1000
        <3>1. GCRA!DebtMap[k] \in 0..(Burst * GCRA!Unit)
            BY <2>1, <2>2, GCRA!ScheduleBounded, HarnessAssumption, BucketAssumption, TableAssumption
        <3>2. QED
            BY <3>1, BucketAssumption DEF GCRA!Unit
    <2>5. PICK over \in Int : over = d - (Burst - 1) * 1000 /\ over <= 1000
        BY <2>4, BucketAssumption
    <2>6. GCRA!M!Wait(k) = IF over <= 0 THEN 0 ELSE MsToAccrue(over)
        BY <2>4, <2>5 DEF GCRA!M!Wait, GCRA!M!MsToAccrue, GCRA!M!Unit, MsToAccrue
    <2>7. over > 0 => Short(MsToAccrue(over))
        <3>1. over > 0 => over \in Nat /\ over <= Unit
            BY <2>5 DEF Unit
        <3>2. QED
            BY <3>1, PermitIsSoonPaid
    <2>8. QED
        BY <1>1, <2>3, <2>6, <2>7
<1>5. QED
    BY <1>2, <1>3, <1>4

(* No window policy names a wait longer than its window, or a millisecond  *)
(* more.                                                                   *)
LEMMA WindowsWaitShort ==
    ASSUME WaitsAreShort, WindowsSound
    PROVE  /\ policy = "fixed_window" =>
                \A k \in DOMAIN buckets : Short(FIXED!WaitFor(k))
           /\ policy = "sliding_log" =>
                \A k \in DOMAIN logs : Short(LOG!WaitFor(LOG!LogFor(k)))
           /\ policy = "sliding_counter" =>
                \A k \in DOMAIN counters : Short(COUNTER!WaitFor(COUNTER!CounterAt(k, now)))
           /\ policy = "dual_bucket" =>
                \A k \in DOMAIN buckets : Short(DUAL!WaitBoth(DUAL!BucketFor(k)))
<1>1. WindowMs \in Nat /\ WindowMs > 0 /\ WindowMs + 1 < Unknown /\ PeriodMs < Unknown /\ Unknown \in Nat
    BY WindowAssumption DEF WaitsAreShort, Unknown
<1>2. ASSUME policy = "fixed_window", NEW k \in DOMAIN buckets
      PROVE  Short(FIXED!WaitFor(k))
    <2>1. PICK s \in Nat : s = now
        BY <1>2 DEF WindowsSound, FixedSound, History, HarnessTypeOK
    <2>2. PICK w \in Nat : w = WindowOf(s) /\ w <= s /\ s < w + WindowMs
        BY WindowIs
    <2>3. PICK wait \in Nat : wait = w + WindowMs - s /\ wait <= WindowMs
        BY <1>1, <2>2
    <2>4. FIXED!WaitFor(k) = 0 \/ FIXED!WaitFor(k) = wait
        BY <2>1, <2>2, <2>3, SameFixed DEF FIXED!WaitFor
    <2>5. QED
        BY <1>1, <2>3, <2>4 DEF Short
<1>3. ASSUME policy = "sliding_log", NEW k \in DOMAIN logs
      PROVE  Short(LOG!WaitFor(LOG!LogFor(k)))
    <2>1. History /\ LogsRecord /\ k \in Keys
        BY <1>3 DEF WindowsSound, LogSound, LogsRecord
    <2>2. PICK wait \in Nat : wait = LOG!WaitFor(LOG!LogFor(k)) /\ wait <= WindowMs
        BY <2>1, LogWaits
    <2>3. QED
        BY <1>1, <2>2 DEF Short
<1>4. ASSUME policy = "sliding_counter", NEW k \in DOMAIN counters
      PROVE  Short(COUNTER!WaitFor(COUNTER!CounterAt(k, now)))
    <2>1. PICK wait : wait = COUNTER!WaitFor(COUNTER!CounterAt(k, now)) /\ wait \in 0..(WindowMs + 1)
        BY <1>4, CounterWaits DEF WindowsSound
    <2>2. QED
        BY <1>1, <2>1 DEF Short
<1>5. ASSUME policy = "dual_bucket", NEW k \in DOMAIN buckets
      PROVE  Short(DUAL!WaitBoth(DUAL!BucketFor(k)))
    <2>1. DualSound /\ k \in Keys
        BY <1>5 DEF WindowsSound, DualSound
    <2>2. PICK p \in Nat : p = PeriodMs
        BY DualDims
    <2>3. PICK b : b = DUAL!BucketFor(k)
        OBVIOUS
    <2>4. Carries(b.requests, RequestsPerMin) /\ Carries(b.tokens, TokensPerMin)
        BY <2>1, <2>3, PairForOwes DEF PairOK
    <2>5. ASSUME NEW limit \in Nat \ {0}, NEW ledger, Carries(ledger, limit)
          PROVE  DUAL!WaitFor(ledger, limit) \in Nat /\ DUAL!WaitFor(ledger, limit) <= p
        <3>1. PICK wait \in Nat : wait = DUAL!WaitFor(ledger, limit)
            BY <2>5, LedgerAnswers
        <3>2. PICK lacks \in Nat : lacks = Lacks(ledger, limit) /\ lacks <= limit * p
            BY <2>2, <2>5, LacksIs
        <3>3. NoLess(lacks - limit * p) = 0
            <4>1. limit * p \in Nat
                OBVIOUS
            <4>2. QED
                BY <3>2, <4>1 DEF NoLess
        <3>4. 0 + p <= limit * p
            <4>1. PICK i \in Nat : limit = 1 + i
                OBVIOUS
            <4>2. (1 + i) * p = p + i * p /\ i * p \in Nat
                OBVIOUS
            <4>3. QED
                BY <4>1, <4>2
        <3>5. NoLess(lacks - limit * p) + p <= limit * p <=> p >= wait
            BY <2>2, <2>5, <3>1, <3>2, LedgerAnswers
        <3>6. QED
            BY <3>1, <3>3, <3>4, <3>5
    <2>6. PICK x \in Nat : x = DUAL!WaitFor(b.requests, RequestsPerMin) /\ x <= p
        BY <2>4, <2>5, DualDims
    <2>7. PICK y \in Nat : y = DUAL!WaitFor(b.tokens, TokensPerMin) /\ y <= p
        BY <2>4, <2>5, DualDims
    <2>8. DUAL!WaitBoth(b) = x \/ DUAL!WaitBoth(b) = y
        BY <2>6, <2>7 DEF DUAL!WaitBoth
    <2>9. QED
        BY <1>1, <2>2, <2>3, <2>6, <2>7, <2>8 DEF Short
<1>6. QED
    BY <1>2, <1>3, <1>4, <1>5

(* What is answered about the table is the truth, and stays it.            *)
TableTruth == policy \notin {"token_bucket", "gcra"} => Truthful(reply, Tracked, taken)

(* Whoever moves.                                                          *)
LEMMA HintsStep ==
    ASSUME FillTimeFits, WaitsAreShort, LedgerSound, WindowsSound, TableTruth, [Next]_vars
    PROVE  TableTruth'
<1>1. ASSUME NEW tracked, NEW tracked2, policy' = policy, Told(tracked, tracked2),
             policy \notin {"token_bucket", "gcra"}, Tracked = tracked, Tracked' = tracked2
      PROVE  TableTruth'
    <2>1. Truthful(reply, tracked, taken)
        BY <1>1 DEF TableTruth
    <2>2. Truthful(reply', tracked2, taken')
        BY <1>1, <2>1, NoStepLies
    <2>3. QED
        BY <1>1, <2>2 DEF TableTruth, Truthful
<1>2. CASE CTokenBucketMoves
    <2>1. policy = "c_token_bucket" /\ policy' = policy /\ CTB!Next
        BY <1>2 DEF CTokenBucketMoves
    <2>2. Tracked = DOMAIN buckets /\ Tracked' = DOMAIN buckets'
        BY <2>1 DEF Tracked
    <2>3. Told(DOMAIN buckets, DOMAIN buckets')
        BY <2>1, MetersWaitShort, PortedTells, Zenon
    <2>4. QED
        BY <1>1, <2>1, <2>2, <2>3
<1>3. CASE LeakyBucketMoves
    <2>1. policy = "leaky_bucket" /\ policy' = policy /\ LB!Next
        BY <1>3 DEF LeakyBucketMoves
    <2>2. Tracked = DOMAIN buckets /\ Tracked' = DOMAIN buckets'
        BY <2>1 DEF Tracked
    <2>3. Told(DOMAIN buckets, DOMAIN buckets')
        BY <2>1, MetersWaitShort, LeakyTells, Zenon
    <2>4. QED
        BY <1>1, <2>1, <2>2, <2>3
<1>4. CASE CGcraMoves
    <2>1. policy = "c_gcra" /\ policy' = policy /\ GCRA!PortNext
        BY <1>4 DEF CGcraMoves
    <2>2. Tracked = DOMAIN tat /\ Tracked' = DOMAIN tat'
        BY <2>1 DEF Tracked
    <2>3. Told(DOMAIN tat, DOMAIN tat')
        BY <2>1, MetersWaitShort, ScheduleTells, Zenon
    <2>4. QED
        BY <1>1, <2>1, <2>2, <2>3
<1>5. CASE FixedWindowMoves
    <2>1. policy = "fixed_window" /\ policy' = policy /\ FIXED!Next
        BY <1>5 DEF FixedWindowMoves
    <2>2. Tracked = DOMAIN buckets /\ Tracked' = DOMAIN buckets'
        BY <2>1 DEF Tracked
    <2>3. Told(DOMAIN buckets, DOMAIN buckets')
        BY <2>1, WindowsWaitShort, FixedTells, Zenon
    <2>4. QED
        BY <1>1, <2>1, <2>2, <2>3
<1>6. CASE SlidingLogMoves
    <2>1. policy = "sliding_log" /\ policy' = policy /\ LOG!Next
        BY <1>6 DEF SlidingLogMoves
    <2>2. Tracked = DOMAIN logs /\ Tracked' = DOMAIN logs'
        BY <2>1 DEF Tracked
    <2>3. Told(DOMAIN logs, DOMAIN logs')
        BY <2>1, WindowsWaitShort, LogTells, Zenon
    <2>4. QED
        BY <1>1, <2>1, <2>2, <2>3
<1>7. CASE SlidingCounterMoves
    <2>1. policy = "sliding_counter" /\ policy' = policy /\ COUNTER!Next
        BY <1>7 DEF SlidingCounterMoves
    <2>2. Tracked = DOMAIN counters /\ Tracked' = DOMAIN counters'
        BY <2>1 DEF Tracked
    <2>3. Told(DOMAIN counters, DOMAIN counters')
        BY <2>1, WindowsWaitShort, CounterTells, Zenon
    <2>4. QED
        BY <1>1, <2>1, <2>2, <2>3
<1>8. CASE DualBucketMoves
    <2>1. policy = "dual_bucket" /\ policy' = policy /\ DUAL!Next
        BY <1>8 DEF DualBucketMoves
    <2>2. Tracked = DOMAIN buckets /\ Tracked' = DOMAIN buckets'
        BY <2>1 DEF Tracked
    <2>3. Told(DOMAIN buckets, DOMAIN buckets')
        BY <2>1, WindowsWaitShort, DualTells, Zenon
    <2>4. QED
        BY <1>1, <2>1, <2>2, <2>3
<1>9. CASE TokenBucketMoves \/ GcraMoves
    BY <1>9 DEF TokenBucketMoves, GcraMoves, TableTruth
<1>10. CASE UNCHANGED vars
    <2>1. /\ UNCHANGED <<policy, reply, taken, buckets, tat, logs, counters>>
        BY <1>10 DEF vars, windowVars, harnessVars
    <2>2. QED
        BY <2>1 DEF TableTruth, Truthful, Tracked
<1>11. QED
    BY <1>2, <1>3, <1>4, <1>5, <1>6, <1>7, <1>8, <1>9, <1>10 DEF Next

(* A token bucket that stored its fill time whole names the waits of the   *)
(* original.                                                               *)
LEMMA PortedWaits ==
    ASSUME FillTimeFits, TB!TypeOK
    PROVE  CTB!WaitIsExact
<1> SUFFICES ASSUME NEW k \in DOMAIN buckets, NEW wait, wait = CTB!WaitFor(CTB!BucketFor(k))
             PROVE  /\ CTB!Refill(buckets[k], now + wait).tokens >= 1
                    /\ wait > 0 => CTB!Refill(buckets[k], now + wait - 1).tokens < 1
    BY Zenon DEF CTB!WaitIsExact
<1>1. TB!WaitIsExact
    BY TB!WaitsAreTrue, HarnessAssumption, BucketAssumption
<1>2. CTB!BucketFor(k) = TB!BucketFor(k)
    BY SameRefill DEF CTB!BucketFor, TB!BucketFor, CTB!Full, TB!Full
<1>3. wait = TB!WaitFor(TB!BucketFor(k))
    BY <1>2 DEF CTB!WaitFor, CTB!MsToAccrue, CTB!Unit, TB!WaitFor, TB!MsToAccrue, TB!Unit
<1>4. /\ TB!Refill(buckets[k], now + wait).tokens >= 1
      /\ wait > 0 => TB!Refill(buckets[k], now + wait - 1).tokens < 1
    BY <1>1, <1>3, Zenon DEF TB!WaitIsExact
<1>5. QED
    BY <1>4, SameRefill

(* What a caller is told to wait is the truth: to the millisecond for a    *)
(* key that is tracked, and about the table for one that is not.  The      *)
(* zero a full table must not answer, and the "never" a caller would act   *)
(* on, are answered only when they are true, and stay true until the next  *)
(* answer (retry_after of the C policies).                                 *)
THEOREM HintsStayTrue == FillTimeFits /\ WaitsAreShort => (Spec => []HintsAreTrue)
<1> SUFFICES ASSUME FillTimeFits, WaitsAreShort
             PROVE  Spec => []HintsAreTrue
    OBVIOUS
<1>1. Init => TableTruth
    <2>1. Init => reply = [op |-> "none"]
        BY DEF Init, FIXED!Init, FIXED!WindowInit, FIXED!HarnessInit
    <2>2. QED
        BY <2>1 DEF TableTruth, Truthful
<1>2. LedgerSound /\ WindowsSound /\ TableTruth /\ [Next]_vars => TableTruth'
    BY HintsStep
<1>3. LedgerSound /\ WindowsSound /\ TableTruth => HintsAreTrue
    <2> SUFFICES ASSUME LedgerSound, WindowsSound, TableTruth
                 PROVE  HintsAreTrue
        OBVIOUS
    <2>1. policy = "token_bucket" => TB!WaitIsExact
        BY TB!WaitsAreTrue, HarnessAssumption, BucketAssumption DEF LedgerSound
    <2>2. policy = "c_token_bucket" => CTB!WaitIsExact
        BY PortedWaits DEF LedgerSound
    <2>3. policy = "fixed_window" => FIXED!WaitIsExact
        BY FixedWaits DEF WindowsSound
    <2>4. policy = "sliding_counter" => COUNTER!WaitIsExact
        BY CounterWaits DEF WindowsSound
    <2>5. policy = "dual_bucket" => DUAL!WaitIsExact
        BY DualPromises DEF WindowsSound
    <2>6. policy \notin {"token_bucket", "gcra"} =>
            (reply.op = "retryAfter" =>
                /\ reply.value = 0 => HasRoom(reply.key, Tracked)
                /\ reply.value = Unknown => ~ HasRoom(reply.key, Tracked))
        BY TruthfulIs DEF TableTruth
    <2>7. QED
        BY <2>1, <2>2, <2>3, <2>4, <2>5, <2>6, Zenon DEF HintsAreTrue
<1>4. Spec => []LedgerSound
    BY LedgersStaySound
<1>5. QED
    BY <1>1, <1>2, <1>3, <1>4, WindowsStaySound, PTL DEF Spec
=============================================================================
