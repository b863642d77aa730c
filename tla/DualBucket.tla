----------------------------- MODULE DualBucket -----------------------------
(***************************************************************************)
(* The dual bucket: two token-bucket ledgers per key, for calls and for    *)
(* work, refilled together and charged together or not at all.             *)
(***************************************************************************)
EXTENDS KeyTable

CONSTANTS
    RequestsPerMin,     \* calls allowed per period
    TokensPerMin,       \* work allowed per period
    PeriodMs            \* the period: 60000 in the code, scaled down for TLC

DualAssumption ==
    {RequestsPerMin, TokensPerMin, PeriodMs} \subseteq Nat \ {0}

VARIABLES
    buckets,    \* the tracked keys' [requests, tokens, last]
    calls       \* history: per key, the calls admitted since `since`

vars == <<harnessVars, buckets, calls, taken>>

-----------------------------------------------------------------------------
Dims == {"requests", "tokens"}

LimitOf == [requests |-> RequestsPerMin, tokens |-> TokensPerMin]

(* One dimension's ledger: whole permits and the fraction carried. *)
Ledger(limit) == [left : 0..limit, credit : 0..(PeriodMs - 1)]

Buckets ==
    [requests : Ledger(RequestsPerMin), tokens : Ledger(TokensPerMin), last : 0..MaxTime]

Brimful(limit) == [left |-> limit, credit |-> 0]

(* One dimension after `elapsed` milliseconds, the fraction carried. *)
Replenish(ledger, limit, elapsed) ==
    LET credit == ledger.credit + limit * elapsed
        left   == ledger.left + credit \div PeriodMs
    IN  IF left >= limit
        THEN Brimful(limit)
        ELSE [left |-> left, credit |-> credit % PeriodMs]

(* Elapsed time is clamped to one period, which refills a drained bucket. *)
Refill(b, t) ==
    LET elapsed == IF t - b.last > PeriodMs THEN PeriodMs ELSE t - b.last
    IN  IF t <= b.last
        THEN b
        ELSE [requests |-> Replenish(b.requests, RequestsPerMin, elapsed),
              tokens   |-> Replenish(b.tokens, TokensPerMin, elapsed),
              last     |-> t]

Full == [requests |-> Brimful(RequestsPerMin), tokens |-> Brimful(TokensPerMin), last |-> now]

BucketFor(k) == IF k \in DOMAIN buckets THEN Refill(buckets[k], now) ELSE Full

Keep(k, b) ==
    buckets' = [x \in DOMAIN buckets \cup {k} |-> IF x = k THEN b ELSE buckets[x]]

Affordable(b, cost) == b.requests.left >= 1 /\ b.tokens.left >= cost

WaitFor(ledger, limit) ==
    IF ledger.left >= 1 THEN 0 ELSE (PeriodMs - ledger.credit + limit - 1) \div limit

(* The later of the two dimensions: a caller has to satisfy both. *)
WaitBoth(b) ==
    LET r == WaitFor(b.requests, RequestsPerMin)
        w == WaitFor(b.tokens, TokensPerMin)
    IN  IF r > w THEN r ELSE w

-----------------------------------------------------------------------------
Init ==
    /\ HarnessInit
    /\ TableInit
    /\ buckets = [k \in {} |-> Full]
    /\ calls = [k \in Keys |-> 0]

Tick(t) ==
    /\ AdvanceClock(t)
    /\ UNCHANGED <<buckets, calls, taken>>

OpenWindow ==
    /\ MeasureFromNow
    /\ calls' = [k \in Keys |-> 0]
    /\ UNCHANGED <<buckets, taken>>

Admit(k, cost) ==
    LET b == BucketFor(k)
    IN  /\ HasRoom(k, DOMAIN buckets)
        /\ Affordable(b, cost)
        /\ Keep(k, [b EXCEPT !.requests.left = @ - 1, !.tokens.left = @ - cost])
        /\ calls' = [calls EXCEPT ![k] = @ + 1]
        /\ AnswerAllow(k, cost, TRUE)
        /\ UNCHANGED taken

(* mutant of Refuse: a call refused for its size has spent a request *)
RefuseSpendsRequest(k, cost) ==
    LET b == BucketFor(k)
    IN  /\ HasRoom(k, DOMAIN buckets)
        /\ ~ Affordable(b, cost)
        /\ Keep(k, IF b.requests.left >= 1 THEN [b EXCEPT !.requests.left = @ - 1] ELSE b)
        /\ AnswerAllow(k, cost, FALSE)
        /\ UNCHANGED <<calls, taken>>

Refuse(k, cost) ==
    LET b == BucketFor(k)
    IN  /\ HasRoom(k, DOMAIN buckets)
        /\ ~ Affordable(b, cost)
        /\ Keep(k, b)
        /\ AnswerAllow(k, cost, FALSE)
        /\ UNCHANGED <<calls, taken>>

RefuseNewKey(k, cost) ==
    /\ TurnAway(k, cost, DOMAIN buckets)
    /\ UNCHANGED <<buckets, calls>>

RetryAfterUntracked(k) ==
    /\ AnswerUntracked(k, DOMAIN buckets)
    /\ UNCHANGED <<buckets, calls>>

RetryAfterTracked(k) ==
    /\ k \in DOMAIN buckets
    /\ Keep(k, BucketFor(k))
    /\ Answer("retryAfter", k, WaitBoth(BucketFor(k)))
    /\ UNCHANGED <<calls, taken>>

Next ==
    \/ \E t \in Later : Tick(t)
    \/ OpenWindow
    \/ AnotherKey(DOMAIN buckets) /\ UNCHANGED <<buckets, calls>>
    \/ \E k \in Keys :
          \/ \E cost \in Costs : Admit(k, cost) \/ Refuse(k, cost) \/ RefuseNewKey(k, cost)
          \/ RetryAfterUntracked(k) \/ RetryAfterTracked(k)

Spec == Init /\ [][Next]_vars

-----------------------------------------------------------------------------
TypeOK ==
    /\ HarnessTypeOK
    /\ calls \in [Keys -> Nat]
    /\ TableOK(DOMAIN buckets)
    /\ \A k \in DOMAIN buckets : buckets[k] \in Buckets /\ buckets[k].last <= now

(* Both ceilings at once, over every interval measured: one period's limit *)
(* in hand plus what the limit pays back, in calls and in work.            *)
BothCeilings ==
    \A k \in Keys :
        /\ calls[k] * PeriodMs <= RequestsPerMin * (PeriodMs + now - since)
        /\ spent[k] * PeriodMs <= TokensPerMin * (PeriodMs + now - since)

(* retryAfter names the first instant at which the smallest call, one      *)
(* request and one token, is admitted: "the later of the two dimensions".  *)
WaitIsExact ==
    \A k \in DOMAIN buckets :
        LET wait == WaitBoth(BucketFor(k))
        IN  /\ Affordable(Refill(buckets[k], now + wait), 1)
            /\ wait > 0 => ~ Affordable(Refill(buckets[k], now + wait - 1), 1)

(* The debt one dimension would show on a meter with no ledger. *)
Owed(b, d) ==
    LET owed == (LimitOf[d] - b[d].left) * PeriodMs - b[d].credit - LimitOf[d] * (now - b.last)
    IN  IF owed > 0 THEN owed ELSE 0

DebtsMap ==
    [k \in Keys |-> [d \in Dims |-> IF k \in DOMAIN buckets THEN Owed(buckets[k], d) ELSE 0]]

D == INSTANCE DualMeter WITH debts <- DebtsMap

(* Lazily refilled ledgers make, for every key they track, exactly the     *)
(* decisions of a meter whose refusals charge neither dimension.           *)
DualStep == D!Next \/ (AtTheTable(DOMAIN buckets) /\ UNCHANGED <<DebtsMap, calls>>)

ImplementsDualMeter == D!Init /\ [][DualStep]_(D!dualVars)
=============================================================================
