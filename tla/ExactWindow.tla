---------------------------- MODULE ExactWindow -----------------------------
(***************************************************************************)
(* What the sliding log promises: a request is admitted exactly when the   *)
(* trailing window (now - WindowMs, now] has room for it.  No log, no ring *)
(* and no expiry, only what was admitted when.                             *)
(***************************************************************************)
EXTENDS WindowHarness, FiniteSetsExt

InWindow(k, t) == AdmittedIn(k, t - WindowMs + 1, t)

Fits(k, cost) == InWindow(k, now) + cost <= Limit

(* How long until one request fits, if no other arrives. *)
Wait(k) == Min({d \in 0..WindowMs : InWindow(k, now + d) < Limit})

-----------------------------------------------------------------------------
Init == WindowInit

Tick(t) == Elapse(t)

Admit(k, cost) == Fits(k, cost) /\ Decide(k, cost, TRUE)

Refuse(k, cost) == ~ Fits(k, cost) /\ Decide(k, cost, FALSE)

RetryAfter(k) == Read("retryAfter", k, Wait(k))

Next ==
    \/ \E t \in Later : Tick(t)
    \/ \E k \in Keys :
          \/ \E cost \in Costs : Admit(k, cost) \/ Refuse(k, cost)
          \/ RetryAfter(k)

Spec == Init /\ [][Next]_windowVars
=============================================================================
