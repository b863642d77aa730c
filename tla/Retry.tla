------------------------------- MODULE Retry --------------------------------
(***************************************************************************)
(* One retry episode.  A service is down for `outage` milliseconds and     *)
(* flaky after; a client attempts at 0, and after each failure its policy  *)
(* names the delay before the next attempt or gives up.  The six policies  *)
(* differ only in the delays they can name: a random draw is a choice.     *)
(* The arithmetic is that of the C policies, in words of Word values, with *)
(* the doubling alone in wider ones; the harness is the simulator's.       *)
(***************************************************************************)
EXTENDS Integers, FiniteSetsExt, TLAPS

CONSTANTS
    BaseMs,         \* the unit of delay
    Caps,           \* no single delay of a capped policy exceeds its cap
    ConstantMs,     \* the constant policy's delay, which may be zero
    MaxAttempts,    \* give up after this many attempts
    DeadlineMs,     \* an episode is abandoned once the clock passes this
    MaxOutageMs,    \* every outage is shorter than this
    MaxRetryAfterMs,\* the most a server ever asks a client to wait
    Word            \* how many values a uint32_t has: 2^32 in the code

ASSUME RetryAssumption ==
    /\ {BaseMs, MaxAttempts, MaxOutageMs} \cup Caps \subseteq Nat \ {0}
    /\ {ConstantMs, DeadlineMs, MaxRetryAfterMs} \subseteq Nat
    /\ Word \in Nat
    /\ {BaseMs, ConstantMs} \cup Caps \subseteq 0 .. Word - 1

VARIABLES
    policy,     \* which of the six this client runs
    cap,        \* the cap it was created with
    outage,     \* how long the service is down in this episode
    error,      \* what its failures carry: [retryable, hinted], both true in
                \* every simulated episode
    now,        \* the instant of the attempt
    attempt,    \* its number, from 1
    previous,   \* the delay named last, BaseMs before the first
    status      \* how the episode stands

vars == <<policy, cap, outage, error, now, attempt, previous, status>>

-----------------------------------------------------------------------------
Policies == {"constant", "exponential", "exponential-full-jitter",
             "equal-jitter", "retry-after-aware", "decorrelated-jitter"}

Lesser(x, y) == IF x < y THEN x ELSE y

(* mutant of Doubled: the delay is doubled in a word *)
DoubledInAWord(n) ==
    LET after[i \in 1 .. n] ==
            IF      i = 1               THEN BaseMs
            ELSE IF after[i - 1] >= cap THEN cap
            ELSE (2 * after[i - 1]) % Word
    IN  after[n]

(* The doubling loop: it stops at the cap, however large the attempt, and  *)
(* has a wider word than the cap, so the doubling that passes the cap does *)
(* not wrap.                                                               *)
Doubled(n) ==
    LET after[i \in 1 .. n] ==
            IF      i = 1               THEN BaseMs
            ELSE IF after[i - 1] >= cap THEN cap
            ELSE 2 * after[i - 1]
    IN  after[n]

BackoffCeiling(n) == Lesser(Doubled(n), cap)

(* What the failed attempt's Retry-After says. *)
Hint == Lesser(IF outage > now THEN outage - now ELSE 0, MaxRetryAfterMs)

(* A draw below `bound`; the generator asserts that there is something to  *)
(* draw from.                                                              *)
Draw(bound) == 0 .. bound - 1

(* mutant of DrawUpTo: the bound wraps to zero at the largest ceiling *)
DrawUpToWrapping(ceiling) == Draw((ceiling + 1) % Word)

(* A draw up to `ceiling`: at the largest one a whole raw word, since one  *)
(* more would wrap the bound to zero.                                      *)
DrawUpTo(ceiling) ==
    IF ceiling = Word - 1 THEN 0 .. Word - 1 ELSE Draw((ceiling + 1) % Word)

(* The policy is created: decorrelated jitter turns down a cap whose       *)
(* triple does not fit a word.                                             *)
Accepts(p, c) == p = "decorrelated-jitter" => c <= (Word - 1) \div 3

(* mutant of Walk: the delay is drawn on top of the last one *)
WalkFromLast ==
    LET span == (previous * 3 - BaseMs) % Word
    IN  {Lesser(cap, (previous + d) % Word) : d \in Draw((span + 1) % Word)}

(* Up to three times the last delay, from the base up, in words. *)
Walk ==
    LET span == (previous * 3 - BaseMs) % Word
    IN  {Lesser(cap, (BaseMs + d) % Word) : d \in Draw((span + 1) % Word)}

Constant == {ConstantMs}

Exponential == {BackoffCeiling(attempt)}

FullJitter == DrawUpTo(BackoffCeiling(attempt))

EqualJitter ==
    LET half == BackoffCeiling(attempt) \div 2
    IN  {half + d : d \in Draw(half + 1)}

(* mutant of HintedDelay: a hint of zero is taken for no hint *)
HintedDelayOrJitter ==
    IF Hint = 0 THEN FullJitter ELSE {Lesser(cap, Hint)}

HintedDelay == {Lesser(cap, Hint)}

RetryAfterAware == IF error.hinted THEN HintedDelay ELSE FullJitter

(* The delays the policy can name after a failed attempt. *)
Delays ==
    CASE policy = "constant"                -> Constant
      [] policy = "exponential"             -> Exponential
      [] policy = "exponential-full-jitter" -> FullJitter
      [] policy = "equal-jitter"            -> EqualJitter
      [] policy = "retry-after-aware"       -> RetryAfterAware
      [] policy = "decorrelated-jitter"     -> Walk

-----------------------------------------------------------------------------
Init ==
    /\ policy \in Policies
    /\ cap \in Caps
    /\ Accepts(policy, cap)
    /\ outage \in Draw(MaxOutageMs)
    /\ error \in [retryable : BOOLEAN, hinted : BOOLEAN]
    /\ now = 0
    /\ attempt = 1
    /\ previous = BaseMs
    /\ status = "trying"

(* Past the outage an attempt may succeed, if the roll is right. *)
Succeed ==
    /\ status = "trying"
    /\ now >= outage
    /\ status' = "succeeded"
    /\ UNCHANGED <<policy, cap, outage, error, now, attempt, previous>>

OutOfAttempts == attempt >= MaxAttempts

(* The policy declines: the failure is permanent, or the budget is spent. *)
GiveUp ==
    /\ status = "trying"
    /\ ~ error.retryable \/ OutOfAttempts
    /\ status' = "gaveUp"
    /\ UNCHANGED <<policy, cap, outage, error, now, attempt, previous>>

PassDeadline(delay) ==
    /\ status = "trying"
    /\ error.retryable /\ ~ OutOfAttempts
    /\ now + delay > DeadlineMs
    /\ now' = now + delay
    /\ previous' = delay
    /\ status' = "deadlineExceeded"
    /\ UNCHANGED <<policy, cap, outage, error, attempt>>

TryAgain(delay) ==
    /\ status = "trying"
    /\ error.retryable /\ ~ OutOfAttempts
    /\ now + delay <= DeadlineMs
    /\ now' = now + delay
    /\ previous' = delay
    /\ attempt' = attempt + 1
    /\ UNCHANGED <<policy, cap, outage, error, status>>

Next ==
    \/ Succeed
    \/ GiveUp
    \/ \E delay \in Delays : PassDeadline(delay) \/ TryAgain(delay)

Spec == Init /\ [][Next]_vars

(* The simulator's loop is synchronous: it never stops between attempts.   *)
FairSpec == Spec /\ WF_vars(Next)

-----------------------------------------------------------------------------
(* The n-th delay of textbook exponential backoff. *)
Textbook(n) == Lesser(cap, BaseMs * 2^(n - 1))

(* The doubling loop is `min(cap, base * 2^(attempt - 1))` at every        *)
(* attempt, so a client on plain exponential backoff arrives when the      *)
(* textbook says, full jitter never later, and equal jitter never earlier  *)
(* than half of it, rounded down each time.                                *)
SchedulesCompare ==
    LET whole  == MapThenSumSet(Textbook, 1 .. attempt - 1)
        halves == MapThenSumSet(LAMBDA n : Textbook(n) \div 2, 1 .. attempt - 1)
    IN  status # "deadlineExceeded" =>
            /\ policy = "exponential" => now = whole
            /\ policy = "exponential-full-jitter" => now <= whole
            /\ policy = "equal-jitter" => halves <= now /\ now <= 2 * halves

(* "Do what the server asked": told the time left, clamped by the server   *)
(* and by the client, a client is there the instant the outage ends, never *)
(* early by more than the clamps and never late.                           *)
HintIsHonoured ==
    policy = "retry-after-aware" /\ error.hinted /\ status # "deadlineExceeded" =>
        now = Lesser(outage, (attempt - 1) * Lesser(cap, MaxRetryAfterMs))

(* "Stays inside [base, min(cap, 3 x previous)] on every step"             *)
(* (decorrelated-jitter/index.test.ts): wherever the walk has got to, the  *)
(* arithmetic in words leaves it a delay, and only such delays.            *)
WalkStaysInRange ==
    policy = "decorrelated-jitter" /\ status = "trying" =>
        /\ Walk # {}
        /\ Walk \subseteq BaseMs .. Lesser(cap, 3 * previous)

(* "The draw never has an empty range" (decorrelated-jitter/README.md):    *)
(* every failure a policy is asked about is answered with some delay.      *)
FailuresAreAnswered ==
    status = "trying" /\ error.retryable /\ ~ OutOfAttempts => Delays # {}

(* However short the delays, an episode comes to an end. *)
EpisodeEnds == status = "trying" ~> status # "trying"

-----------------------------------------------------------------------------
(* What the walk rests on: the last delay is between the base and a cap    *)
(* whose triple fits a word.                                               *)
WalkInv ==
    policy = "decorrelated-jitter" =>
        /\ cap \in Nat /\ 3 * cap < Word
        /\ previous \in BaseMs .. cap

(* No step of the arithmetic wraps. *)
LEMMA WalkIsAWalk ==
    ASSUME WalkInv, policy = "decorrelated-jitter"
    PROVE  /\ Walk # {}
           /\ Walk \subseteq BaseMs .. Lesser(cap, 3 * previous)
<1> DEFINE span == 3 * previous - BaseMs
<1>1. /\ BaseMs \in Nat /\ BaseMs > 0 /\ Word \in Nat
      /\ cap \in Nat /\ 3 * cap < Word
      /\ previous \in Nat /\ BaseMs <= previous /\ previous <= cap
    BY RetryAssumption DEF WalkInv
<1>2. /\ previous * 3 - BaseMs = span
      /\ span \in Nat /\ span >= BaseMs /\ span + 1 < Word
      /\ BaseMs + span = 3 * previous /\ 3 * previous < Word
    BY <1>1
<1> HIDE DEF span
<1>3. span % Word = span /\ (span + 1) % Word = span + 1
    BY <1>1, <1>2
<1>4. Walk = {Lesser(cap, (BaseMs + d) % Word) : d \in 0 .. span}
    <2>1. (previous * 3 - BaseMs) % Word = span
        BY <1>2, <1>3
    <2>2. Walk = {Lesser(cap, (BaseMs + d) % Word) : d \in Draw((span + 1) % Word)}
        BY <2>1 DEF Walk
    <2>3. Draw((span + 1) % Word) = 0 .. span
        BY <1>2, <1>3 DEF Draw
    <2>4. QED
        BY <2>2, <2>3
<1>5. ASSUME NEW d \in 0 .. span
      PROVE  Lesser(cap, (BaseMs + d) % Word) \in BaseMs .. Lesser(cap, 3 * previous)
    <2>1. BaseMs + d \in Nat /\ BaseMs + d <= 3 * previous
        BY <1>1, <1>2
    <2>2. (BaseMs + d) % Word = BaseMs + d
        BY <1>1, <1>2, <2>1
    <2>3. QED
        BY <1>1, <1>2, <2>1, <2>2 DEF Lesser
<1>6. 0 \in 0 .. span
    BY <1>2
<1>7. QED
    BY <1>4, <1>5, <1>6

(* For every base, caps no smaller and word: the walk always has a delay   *)
(* to name, and stays inside its range.                                    *)
THEOREM WalkIsSafe ==
    ASSUME \A c \in Caps : BaseMs <= c
    PROVE  Spec => []WalkStaysInRange
<1>1. Init => WalkInv
    <2> SUFFICES ASSUME Init, policy = "decorrelated-jitter"
                 PROVE  cap \in Nat /\ 3 * cap < Word /\ previous \in BaseMs .. cap
        BY DEF WalkInv
    <2>1. /\ cap \in Caps /\ previous = BaseMs
          /\ cap <= (Word - 1) \div 3
        BY DEF Init, Accepts
    <2>2. cap \in Nat /\ BaseMs \in Nat /\ BaseMs <= cap /\ Word \in Nat
        BY <2>1, RetryAssumption
    <2>3. 3 * cap < Word
        BY <2>1, <2>2
    <2>4. QED
        BY <2>1, <2>2, <2>3
<1>2. WalkInv /\ [Next]_vars => WalkInv'
    <2> SUFFICES ASSUME WalkInv, [Next]_vars, policy' = "decorrelated-jitter"
                 PROVE  /\ cap' \in Nat /\ 3 * cap' < Word
                        /\ previous' \in BaseMs .. cap'
        BY DEF WalkInv
    <2>1. policy' = policy /\ cap' = cap
        BY DEF Next, vars, Succeed, GiveUp, PassDeadline, TryAgain
    <2>2. cap \in Nat /\ 3 * cap < Word /\ previous \in BaseMs .. cap /\ BaseMs \in Nat
        BY <2>1, RetryAssumption DEF WalkInv
    <2>3. CASE UNCHANGED previous
        BY <2>1, <2>2, <2>3
    <2>4. ASSUME NEW delay \in Delays, previous' = delay
          PROVE  previous' \in BaseMs .. cap'
        <3>1. Delays = Walk
            BY <2>1 DEF Delays
        <3>2. delay \in BaseMs .. Lesser(cap, 3 * previous)
            BY <2>1, <2>4, <3>1, WalkIsAWalk
        <3>3. QED
            BY <2>1, <2>2, <2>4, <3>2 DEF Lesser
    <2>5. QED
        BY <2>1, <2>2, <2>3, <2>4 DEF Next, vars, Succeed, GiveUp, PassDeadline, TryAgain
<1>3. WalkInv => WalkStaysInRange
    BY WalkIsAWalk DEF WalkStaysInRange
<1>4. QED
    BY <1>1, <1>2, <1>3, PTL DEF Spec

-----------------------------------------------------------------------------
(* A client with a hint, before its deadline: its clock and its attempts.  *)
HintInv ==
    policy = "retry-after-aware" /\ error.hinted =>
        /\ outage \in Nat /\ cap \in Nat /\ attempt \in Nat \ {0}
        /\ status # "deadlineExceeded" =>
              now = Lesser(outage, (attempt - 1) * Lesser(cap, MaxRetryAfterMs))

(* For every cap, outage and clamp: a hinted client arrives when it was    *)
(* asked to, in as many clamped steps as that takes.                       *)
THEOREM HintIsKept == Spec => []HintIsHonoured
<1>1. Init => HintInv
    <2> SUFFICES ASSUME Init
                 PROVE  HintInv
        OBVIOUS
    <2>1. cap \in Nat /\ outage \in Nat /\ MaxRetryAfterMs \in Nat
        BY RetryAssumption DEF Init, Draw
    <2>2. attempt = 1 /\ now = 0
        BY DEF Init
    <2>3. Lesser(cap, MaxRetryAfterMs) \in Nat
        BY <2>1 DEF Lesser
    <2>4. (attempt - 1) * Lesser(cap, MaxRetryAfterMs) = 0
        BY <2>2, <2>3
    <2>5. QED
        BY <2>1, <2>2, <2>4 DEF HintInv, Lesser
<1>2. HintInv /\ [Next]_vars => HintInv'
    <2> SUFFICES ASSUME HintInv, [Next]_vars, policy' = "retry-after-aware", error'.hinted
                 PROVE  /\ outage' \in Nat /\ cap' \in Nat /\ attempt' \in Nat \ {0}
                        /\ status' # "deadlineExceeded" =>
                              now' = Lesser(outage', (attempt' - 1) * Lesser(cap', MaxRetryAfterMs))
        BY DEF HintInv
    <2>1. policy' = policy /\ cap' = cap /\ error' = error /\ outage' = outage
        BY DEF Next, vars, Succeed, GiveUp, PassDeadline, TryAgain
    <2>2. /\ outage \in Nat /\ cap \in Nat /\ attempt \in Nat \ {0}
          /\ MaxRetryAfterMs \in Nat
          /\ status # "deadlineExceeded" =>
                now = Lesser(outage, (attempt - 1) * Lesser(cap, MaxRetryAfterMs))
        BY <2>1, RetryAssumption DEF HintInv
    <2>3. CASE UNCHANGED <<now, attempt, status>>
        BY <2>1, <2>2, <2>3
    <2>4. CASE Succeed \/ GiveUp
        BY <2>1, <2>2, <2>4 DEF Succeed, GiveUp
    <2>5. ASSUME NEW delay \in Delays, PassDeadline(delay)
          PROVE  status' = "deadlineExceeded" /\ attempt' = attempt
        BY <2>5 DEF PassDeadline
    <2>6. ASSUME NEW delay \in Delays, TryAgain(delay)
          PROVE  /\ attempt' \in Nat \ {0}
                 /\ now' = Lesser(outage, (attempt' - 1) * Lesser(cap, MaxRetryAfterMs))
        <3> DEFINE clamp == Lesser(cap, MaxRetryAfterMs)
                   gone  == (attempt - 1) * clamp
        <3>1. /\ now' = now + delay /\ attempt' = attempt + 1
              /\ now = Lesser(outage, gone)
            BY <2>2, <2>6 DEF TryAgain
        <3>2. delay = Lesser(cap, Hint)
            BY <2>1 DEF Delays, RetryAfterAware, HintedDelay
        <3>3. clamp \in Nat /\ gone \in Nat /\ gone + clamp = attempt * clamp
            <4>1. clamp \in Nat
                BY <2>2 DEF Lesser
            <4> HIDE DEF clamp
            <4>2. QED
                BY <2>2, <4>1
        <3>4. now \in Nat /\ now <= outage
            BY <2>2, <3>1, <3>3 DEF Lesser
        <3>5. Hint = Lesser(outage - now, MaxRetryAfterMs)
            BY <2>2, <3>4 DEF Hint, Lesser
        <3>6. delay = Lesser(outage - now, clamp)
            BY <2>2, <3>2, <3>4, <3>5 DEF Lesser
        <3> HIDE DEF clamp, gone
        <3>7. now + delay = Lesser(outage, gone + clamp)
            BY <2>2, <3>1, <3>3, <3>4, <3>6 DEF Lesser
        <3>8. attempt' - 1 = attempt
            BY <2>2, <3>1
        <3>9. QED
            BY <2>2, <3>1, <3>3, <3>7, <3>8 DEF clamp
    <2>7. QED
        BY <2>1, <2>2, <2>3, <2>4, <2>5, <2>6 DEF Next, vars
<1>3. HintInv => HintIsHonoured
    BY DEF HintInv, HintIsHonoured
<1>4. QED
    BY <1>1, <1>2, <1>3, PTL DEF Spec
=============================================================================
