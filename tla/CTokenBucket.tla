---------------------------- MODULE CTokenBucket ----------------------------
(***************************************************************************)
(* The C port of the token bucket.  Its ledger is TokenBucket's; what is   *)
(* new is C: a fixed number of slots, and a fill time stored in a          *)
(* fixed-width integer.                                                    *)
(***************************************************************************)
EXTENDS BucketParameters, KeyTable

CONSTANTS
    Modulus     \* values a uint32_t takes: 2^32 in the code, scaled down for TLC

PortAssumption == Modulus \in Nat \ {0}

VARIABLE buckets        \* the followed keys holding a slot: [tokens, credit, last]

vars == <<harnessVars, buckets, taken>>

-----------------------------------------------------------------------------
Bucket == [tokens : 0..Burst, credit : 0..(Unit - 1), last : 0..MaxTime]

(* mutant of FillMs: the division rounds down *)
FillMsRoundedDown == ((Burst * Unit) \div Rate) % Modulus

(* The ceiling division is done in 64 bits, its result stored in 32. *)
FillMs == MsToAccrue(Burst * Unit) % Modulus

Full == [tokens |-> Burst, credit |-> 0, last |-> now]

(* What `elapsed` milliseconds add, tokens above Burst lost. *)
Accrue(b, elapsed, t) ==
    LET credit == b.credit + Rate * elapsed
        tokens == b.tokens + credit \div Unit
    IN  IF tokens >= Burst
        THEN [tokens |-> Burst, credit |-> 0, last |-> t]
        ELSE [tokens |-> tokens, credit |-> credit % Unit, last |-> t]

Refill(b, t) ==
    IF t <= b.last
    THEN b
    ELSE Accrue(b, IF t - b.last > FillMs THEN FillMs ELSE t - b.last, t)

BucketFor(k) == IF k \in DOMAIN buckets THEN Refill(buckets[k], now) ELSE Full

Keep(k, b) ==
    buckets' = [x \in DOMAIN buckets \cup {k} |-> IF x = k THEN b ELSE buckets[x]]

WaitFor(b) == IF b.tokens >= 1 THEN 0 ELSE MsToAccrue(Unit - b.credit)

-----------------------------------------------------------------------------
Init ==
    /\ HarnessInit
    /\ buckets = [k \in {} |-> Full]
    /\ TableInit

Tick(t) ==
    /\ AdvanceClock(t)
    /\ UNCHANGED <<buckets, taken>>

OpenWindow ==
    /\ MeasureFromNow
    /\ UNCHANGED <<buckets, taken>>

Admit(k, cost) ==
    LET b == BucketFor(k)
    IN  /\ HasRoom(k, DOMAIN buckets)
        /\ b.tokens >= cost
        /\ Keep(k, [b EXCEPT !.tokens = @ - cost])
        /\ AnswerAllow(k, cost, TRUE)
        /\ UNCHANGED taken

Refuse(k, cost) ==
    LET b == BucketFor(k)
    IN  /\ HasRoom(k, DOMAIN buckets)
        /\ b.tokens < cost
        /\ Keep(k, b)
        /\ AnswerAllow(k, cost, FALSE)
        /\ UNCHANGED taken

RefuseNewKey(k, cost) ==
    /\ TurnAway(k, cost, DOMAIN buckets)
    /\ UNCHANGED buckets

RetryAfterUntracked(k) ==
    /\ AnswerUntracked(k, DOMAIN buckets)
    /\ UNCHANGED buckets

RetryAfterTracked(k) ==
    /\ k \in DOMAIN buckets
    /\ Keep(k, BucketFor(k))
    /\ Answer("retryAfter", k, WaitFor(BucketFor(k)))
    /\ UNCHANGED taken

Next ==
    \/ \E t \in Later : Tick(t)
    \/ OpenWindow
    \/ AnotherKey(DOMAIN buckets) /\ UNCHANGED buckets
    \/ \E k \in Keys :
          \/ \E cost \in Costs : Admit(k, cost) \/ Refuse(k, cost) \/ RefuseNewKey(k, cost)
          \/ RetryAfterUntracked(k) \/ RetryAfterTracked(k)

Spec == Init /\ [][Next]_vars

-----------------------------------------------------------------------------
TypeOK ==
    /\ HarnessTypeOK
    /\ TableOK(DOMAIN buckets)
    /\ \A k \in DOMAIN buckets : buckets[k] \in Bucket /\ buckets[k].last <= now

(* token_bucket_retry_after is exact: at the instant it names one more     *)
(* token exists, and one millisecond earlier there was none.               *)
WaitIsExact ==
    \A k \in DOMAIN buckets :
        LET wait == WaitFor(BucketFor(k))
        IN  /\ Refill(buckets[k], now + wait).tokens >= 1
            /\ wait > 0 => Refill(buckets[k], now + wait - 1).tokens < 1

(* "the result is identical either way, because the bucket saturates long  *)
(* before": clamping idle time to fill_ms never changes a refill           *)
(* (token_bucket_refill).                                                  *)
ClampIsInvisible ==
    \A k \in DOMAIN buckets :
        now > buckets[k].last =>
            Refill(buckets[k], now) = Accrue(buckets[k], now - buckets[k].last, now)
=============================================================================
