---------------------------- MODULE SecondChance ----------------------------
(***************************************************************************)
(* What CLOCK and SIEVE have in common: a hit earns a key one reprieve.    *)
(* Looking for a victim the policy examines keys one at a time; a key with *)
(* a reprieve spends it, and the first without one goes.                   *)
(***************************************************************************)
EXTENDS CacheHarness

VARIABLE reprieved      \* the resident keys hit since they were last examined

chanceVars == <<harnessVars, reprieved>>

Init ==
    /\ HarnessInit
    /\ reprieved = {}

Hit(k) ==
    /\ LookupHits(k)
    /\ reprieved' = reprieved \cup {k}

Miss(k) ==
    /\ LookupMisses(k)
    /\ UNCHANGED reprieved

Spare(k) ==
    /\ OverCapacity
    /\ k \in reprieved
    /\ reprieved' = reprieved \ {k}
    /\ UNCHANGED harnessVars

Evict(k) ==
    /\ k \in resident \ reprieved
    /\ Discard(k)
    /\ UNCHANGED reprieved

Next == \E k \in Keys : Hit(k) \/ Miss(k) \/ Spare(k) \/ Evict(k)

Spec == Init /\ [][Next]_chanceVars
=============================================================================
