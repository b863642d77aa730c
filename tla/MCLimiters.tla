----------------------------- MODULE MCLimiters -----------------------------
(***************************************************************************)
(* One run of the rate-limiter harness over whichever policy its factory   *)
(* built: the harness's variables, the key table and the state of policies *)
(* that name it alike are shared, and only the chosen policy moves.        *)
(*                                                                         *)
(* The table has as many slots as keys are followed, and others compete    *)
(* for them.  The TypeScript token bucket and GCRA have no table.          *)
(***************************************************************************)
EXTENDS BucketParameters, WindowHarness, KeyTable

CONSTANTS
    Modulus,                                    \* the width of a stored fill time
    RequestsPerMin, TokensPerMin, PeriodMs,     \* the dual bucket's parameters
    WindowHorizon                               \* bound: when the window policies' clock stops

VARIABLES
    policy,                                     \* what the factory built
    buckets, tat, logs, counters, calls         \* the policies' own state

vars == <<windowVars, taken, policy, buckets, tat, logs, counters, calls>>

TB      == INSTANCE TokenBucket
CTB     == INSTANCE CTokenBucket
LB      == INSTANCE LeakyBucket
GCRA    == INSTANCE Gcra
FIXED   == INSTANCE FixedWindow
LOG     == INSTANCE SlidingLog
COUNTER == INSTANCE SlidingCounter
DUAL    == INSTANCE DualBucket

ASSUME Built == CTB!PortAssumption /\ DUAL!DualAssumption

(* The followed keys with a slot: whatever keeps them, the others are empty. *)
Tracked ==
    CASE policy \in {"gcra", "c_gcra"}   -> DOMAIN tat
      [] policy = "sliding_log"          -> DOMAIN logs
      [] policy = "sliding_counter"      -> DOMAIN counters
      [] OTHER                           -> DOMAIN buckets

Meters  == {"token_bucket", "c_token_bucket", "leaky_bucket", "gcra", "c_gcra"}
Windows == {"fixed_window", "sliding_log", "sliding_counter", "dual_bucket"}

-----------------------------------------------------------------------------
Init ==
    /\ policy \in Meters \cup Windows
    /\ TB!Init /\ CTB!Init /\ LB!Init /\ GCRA!PortInit
    /\ FIXED!Init /\ LOG!Init /\ COUNTER!Init /\ DUAL!Init

TokenBucketMoves ==
    /\ policy = "token_bucket"
    /\ TB!Next
    /\ UNCHANGED <<policy, admitted, taken, tat, logs, counters, calls>>

CTokenBucketMoves ==
    /\ policy = "c_token_bucket"
    /\ CTB!Next
    /\ UNCHANGED <<policy, admitted, tat, logs, counters, calls>>

LeakyBucketMoves ==
    /\ policy = "leaky_bucket"
    /\ LB!Next
    /\ UNCHANGED <<policy, admitted, tat, logs, counters, calls>>

GcraMoves ==
    /\ policy = "gcra"
    /\ GCRA!Next
    /\ UNCHANGED <<policy, admitted, taken, buckets, logs, counters, calls>>

CGcraMoves ==
    /\ policy = "c_gcra"
    /\ GCRA!PortNext
    /\ UNCHANGED <<policy, admitted, buckets, logs, counters, calls>>

FixedWindowMoves ==
    /\ policy = "fixed_window"
    /\ FIXED!Next
    /\ now' <= WindowHorizon
    /\ UNCHANGED <<policy, tat, logs, counters, calls>>

SlidingLogMoves ==
    /\ policy = "sliding_log"
    /\ LOG!Next
    /\ now' <= WindowHorizon
    /\ UNCHANGED <<policy, tat, buckets, counters, calls>>

SlidingCounterMoves ==
    /\ policy = "sliding_counter"
    /\ COUNTER!Next
    /\ now' <= WindowHorizon
    /\ UNCHANGED <<policy, tat, buckets, logs, calls>>

DualBucketMoves ==
    /\ policy = "dual_bucket"
    /\ DUAL!Next
    /\ now' <= WindowHorizon
    /\ UNCHANGED <<policy, admitted, tat, logs, counters>>

Next ==
    \/ TokenBucketMoves \/ CTokenBucketMoves \/ LeakyBucketMoves \/ GcraMoves \/ CGcraMoves
    \/ FixedWindowMoves \/ SlidingLogMoves \/ SlidingCounterMoves \/ DualBucketMoves

Spec == Init /\ [][Next]_vars

-----------------------------------------------------------------------------
(* Each policy's own state is well-formed: fractions are proper, counts    *)
(* within the limit, windows aligned, rings in order of time, nothing is   *)
(* ahead of the clock, and no slot of the table is handed out twice.       *)
TypeOK ==
    CASE policy = "token_bucket"    -> TB!TypeOK
      [] policy = "c_token_bucket"  -> CTB!TypeOK
      [] policy = "leaky_bucket"    -> LB!TypeOK
      [] policy = "gcra"            -> GCRA!TypeOK
      [] policy = "c_gcra"          -> GCRA!PortTypeOK
      [] policy = "fixed_window"    -> FIXED!TypeOK
      [] policy = "sliding_log"     -> LOG!TypeOK
      [] policy = "sliding_counter" -> COUNTER!TypeOK
      [] policy = "dual_bucket"     -> DUAL!TypeOK

(* The meters' promise over any interval: one burst and what the rate pays *)
(* back.                                                                   *)
RateCeiling == policy \in Meters => TB!RateCeiling

(* What each window policy promises never to exceed, over every interval:  *)
(* the fixed window its limit per aligned window touched ("one well-known  *)
(* flaw"), the sliding log its limit in any window's length, the sliding   *)
(* counter the most a faded estimate can miss, the dual bucket both of its *)
(* ceilings.                                                               *)
CeilingsHold ==
    CASE policy = "fixed_window"    -> FIXED!SeamCeiling
      [] policy = "sliding_log"     -> LOG!WindowCeiling
      [] policy = "sliding_counter" -> COUNTER!TrailingCeiling
      [] policy = "dual_bucket"     -> DUAL!BothCeilings
      [] OTHER                      -> TRUE

(* However lazily a counter is rolled forward, and over whatever gap, it   *)
(* holds what was really admitted in the window it claims to count         *)
(* (fixed_window_allow, sliding_counter_advance).                          *)
CountsAreTrue ==
    /\ policy = "fixed_window" => FIXED!CountsOnlyItsWindow
    /\ policy = "sliding_counter" => COUNTER!CountsAreTrue

(* What a caller is told to wait is the truth.  For a tracked key it is    *)
(* the first millisecond at which the smallest request is admitted, and    *)
(* no later one (retry_after of five policies; the others refine a meter   *)
(* or a window whose wait is exact).  For a key with no slot it is zero    *)
(* only if one is left, "zero would be a lie a caller acts on", and        *)
(* Unknown only if "the refusal has to be permanent"                       *)
(* (fuzz_ratelimiter_core.c).                                              *)
HintsAreTrue ==
    /\ policy = "token_bucket" => TB!WaitIsExact
    /\ policy = "c_token_bucket" => CTB!WaitIsExact
    /\ policy = "fixed_window" => FIXED!WaitIsExact
    /\ policy = "sliding_counter" => COUNTER!WaitIsExact
    /\ policy = "dual_bucket" => DUAL!WaitIsExact
    /\ policy \notin {"token_bucket", "gcra"} /\ reply.op = "retryAfter" =>
          /\ reply.value = 0 => HasRoom(reply.key, Tracked)
          /\ reply.value = Unknown => ~ HasRoom(reply.key, Tracked)

(* Clamping idle time to a stored fill time never changes a refill or a    *)
(* drain: "the result is identical either way, because the bucket          *)
(* saturates long before" (token_bucket_refill).                           *)
ClampIsInvisible ==
    /\ policy = "c_token_bucket" => CTB!ClampIsInvisible
    /\ policy = "leaky_bucket" => LB!ClampIsInvisible

(* The debt the policy in use shows. *)
Debt ==
    CASE policy = "leaky_bucket"         -> LB!DebtMap
      [] policy \in {"gcra", "c_gcra"}   -> GCRA!DebtMap
      [] OTHER                           -> TB!DebtMap

M == INSTANCE Meter WITH debt <- Debt

MeterStep ==
    \/ M!Next
    \/ policy \notin {"token_bucket", "gcra"} /\ AtTheTable(Tracked) /\ UNCHANGED Debt

(* Three ledgers, five implementations, one promise: for every key it      *)
(* tracks each makes exactly the decisions, and gives exactly the waits    *)
(* and balances, of the meter that keeps none ("it admits and refuses      *)
(* exactly what pb_ratelimiter_token_bucket does, including the fractional *)
(* carry", gcra policy.h says, and leaky-bucket policy.h the like).        *)
ImplementsMeter ==
    /\ M!Init
    /\ [][(policy \in Meters) => [MeterStep]_(M!meterVars)]_vars

(* A ring of timestamps, expired lazily, is the exact trailing window: it  *)
(* never refuses what fits, and its waits are exact (sliding_log_expire).  *)
ImplementsExactWindow ==
    /\ LOG!E!Init
    /\ [][policy = "sliding_log" => [LOG!ExactStep]_(LOG!E!windowVars)]_vars

(* Two lazily refilled ledgers charged together make exactly the decisions *)
(* of a meter whose refusals charge neither: "a caller refused for work    *)
(* must not have quietly spent a request too" (dual_bucket_allow).         *)
ImplementsDualMeter ==
    /\ DUAL!D!Init
    /\ [][policy = "dual_bucket" => [DUAL!DualStep]_(DUAL!D!dualVars)]_vars
=============================================================================
