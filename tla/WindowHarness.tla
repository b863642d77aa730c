--------------------------- MODULE WindowHarness ----------------------------
(***************************************************************************)
(* What the three window limiters share: a limit per window, aligned       *)
(* windows, and a record of what was admitted when: the harness's          *)
(* acceptance counters as they stood at each instant, whose differences    *)
(* the policies' counters summarise.                                       *)
(***************************************************************************)
EXTENDS RateLimiterHarness

CONSTANTS
    Limit,      \* requests allowed per window
    WindowMs    \* window length, in milliseconds

ASSUME WindowAssumption == Limit \in Nat \ {0} /\ WindowMs \in Nat \ {0}

VARIABLE admitted       \* history: per key and instant, the cost admitted by then

windowVars == <<harnessVars, admitted>>

(* The start of the aligned window containing t. *)
WindowOf(t) == t - (t % WindowMs)

(* What a key was admitted up to an instant, that instant included. *)
AdmittedBy(k, t) ==
    IF t < 0 THEN 0 ELSE admitted[k][IF t < MaxTime THEN t ELSE MaxTime]

(* What a key was admitted from one instant to another, both included. *)
AdmittedIn(k, from, to) == AdmittedBy(k, to) - AdmittedBy(k, from - 1)

WindowInit ==
    /\ HarnessInit
    /\ admitted = [k \in Keys |-> [t \in 0..MaxTime |-> 0]]

WindowTypeOK ==
    /\ HarnessTypeOK
    /\ admitted \in [Keys -> [0..MaxTime -> Nat]]

Elapse(t) ==
    /\ AdvanceClock(t)
    /\ UNCHANGED admitted

Decide(k, cost, ok) ==
    /\ AnswerAllow(k, cost, ok)
    /\ admitted' = IF ok
                   THEN [admitted EXCEPT ![k] =
                            [t \in 0..MaxTime |-> IF t < now THEN @[t] ELSE @[t] + cost]]
                   ELSE admitted

Read(op, k, value) ==
    /\ Answer(op, k, value)
    /\ UNCHANGED admitted
=============================================================================
