------------------------- MODULE RateLimiterHarness -------------------------
(***************************************************************************)
(* The caller's side of the rate-limiter domain, shared by every policy.   *)
(*                                                                         *)
(* A limiter never reads a clock: the caller hands it a non-decreasing     *)
(* integer `now` (interface.ts) and the harness refuses a trace that goes  *)
(* backwards (harness.ts).  So time is a variable of the caller that only  *)
(* Tick advances, and any number of calls may happen at one instant.       *)
(*                                                                         *)
(* The harness also counts what it sees admitted per key (acceptsByKey)    *)
(* and over a moving window.  The model keeps the general form of those    *)
(* counters: OpenWindow starts a measurement at an arbitrary instant, and  *)
(* `spent` is what each key has been admitted since.                       *)
(***************************************************************************)
EXTENDS Integers

CONSTANTS
    Keys,       \* the keys requests are made for
    Costs,      \* the costs a request may carry
    MaxTime     \* bound: the clock stops here

ASSUME HarnessAssumption == Costs \subseteq Nat /\ MaxTime \in Nat

VARIABLES
    now,        \* the caller's clock, in milliseconds
    reply,      \* what the last call answered
    since,      \* when the current measurement window was opened
    spent       \* per key, the cost admitted since then

harnessVars == <<now, reply, since, spent>>

-----------------------------------------------------------------------------
(* The calls that only ask; the second is for tests and vectors. *)
Readings == {"retryAfter", "tokensOf"}

Replies ==
    [op : {"none"}]
      \cup [op : {"allow"}, key : Keys, cost : Costs, admitted : BOOLEAN]
      \cup [op : Readings, key : Keys, value : Nat]

HarnessTypeOK ==
    /\ now \in 0..MaxTime
    /\ reply \in Replies
    /\ since \in 0..now
    /\ spent \in [Keys -> Nat]

HarnessInit ==
    /\ now = 0
    /\ reply = [op |-> "none"]
    /\ since = 0
    /\ spent = [k \in Keys |-> 0]

(* The instants the next call may be made at, if not at this one. *)
Later == (now + 1)..MaxTime

AdvanceClock(t) ==
    /\ now' = t
    /\ UNCHANGED <<reply, since, spent>>

(* Begin measuring from this instant. *)
MeasureFromNow ==
    /\ since' = now
    /\ spent' = [k \in Keys |-> 0]
    /\ UNCHANGED <<now, reply>>

(* allow() answered: an admitted request has spent its cost. *)
AnswerAllow(k, cost, admitted) ==
    /\ reply' = [op |-> "allow", key |-> k, cost |-> cost, admitted |-> admitted]
    /\ spent' = IF admitted THEN [spent EXCEPT ![k] = @ + cost] ELSE spent
    /\ UNCHANGED <<now, since>>

(* Any other call answered: nothing is spent. *)
Answer(op, k, value) ==
    /\ reply' = [op |-> op, key |-> k, value |-> value]
    /\ UNCHANGED <<now, since, spent>>
=============================================================================
