----------------------------- MODULE DualMeter ------------------------------
(***************************************************************************)
(* What the dual bucket promises, with no ledger: a key owes two debts,    *)
(* one of calls and one of work.  Time pays both back, each at its own     *)
(* limit per period; a call is admitted exactly when both still have room, *)
(* and then adds one to the first and its cost to the second.              *)
(***************************************************************************)
EXTENDS RateLimiterHarness

CONSTANTS
    RequestsPerMin,     \* calls allowed per period
    TokensPerMin,       \* work allowed per period
    PeriodMs            \* the period: a minute in the code

VARIABLES
    debts,      \* per key: [requests, tokens], in PeriodMs-ths of a permit
    calls       \* history: per key, the calls admitted since `since`

dualVars == <<harnessVars, debts, calls>>

-----------------------------------------------------------------------------
Dims == {"requests", "tokens"}

LimitOf == [requests |-> RequestsPerMin, tokens |-> TokensPerMin]

Charge(cost) == [requests |-> 1, tokens |-> cost]

PaidDown(d, limit, elapsed) == IF d > limit * elapsed THEN d - limit * elapsed ELSE 0

(* Milliseconds until x PeriodMs-ths of a permit accrue at limit a period. *)
MsToAccrue(x, limit) == (x + limit - 1) \div limit

Fits(k, cost) ==
    \A d \in Dims : debts[k][d] + Charge(cost)[d] * PeriodMs <= LimitOf[d] * PeriodMs

Wait(k, d) ==
    LET over == debts[k][d] - (LimitOf[d] - 1) * PeriodMs
    IN  IF over <= 0 THEN 0 ELSE MsToAccrue(over, LimitOf[d])

WaitBoth(k) ==
    IF Wait(k, "requests") > Wait(k, "tokens") THEN Wait(k, "requests") ELSE Wait(k, "tokens")

-----------------------------------------------------------------------------
Init ==
    /\ HarnessInit
    /\ debts = [k \in Keys |-> [d \in Dims |-> 0]]
    /\ calls = [k \in Keys |-> 0]

Tick(t) ==
    /\ AdvanceClock(t)
    /\ debts' = [k \in Keys |-> [d \in Dims |-> PaidDown(debts[k][d], LimitOf[d], t - now)]]
    /\ UNCHANGED calls

OpenWindow ==
    /\ MeasureFromNow
    /\ calls' = [k \in Keys |-> 0]
    /\ UNCHANGED debts

Admit(k, cost) ==
    /\ Fits(k, cost)
    /\ debts' = [debts EXCEPT ![k] = [d \in Dims |-> @[d] + Charge(cost)[d] * PeriodMs]]
    /\ calls' = [calls EXCEPT ![k] = @ + 1]
    /\ AnswerAllow(k, cost, TRUE)

(* Both are charged or neither is. *)
Refuse(k, cost) ==
    /\ ~ Fits(k, cost)
    /\ AnswerAllow(k, cost, FALSE)
    /\ UNCHANGED <<debts, calls>>

RetryAfter(k) ==
    /\ Answer("retryAfter", k, WaitBoth(k))
    /\ UNCHANGED <<debts, calls>>

Next ==
    \/ \E t \in Later : Tick(t)
    \/ OpenWindow
    \/ \E k \in Keys :
          \/ \E cost \in Costs : Admit(k, cost) \/ Refuse(k, cost)
          \/ RetryAfter(k)

Spec == Init /\ [][Next]_dualVars
=============================================================================
