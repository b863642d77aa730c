--------------------------- MODULE FrequencyOrder ---------------------------
(***************************************************************************)
(* What LFU promises: the resident keys ranked by how often they were      *)
(* used, ties by how long they have had that count, and the lowest ranked  *)
(* is the victim.  No classes, no links, no pools.                         *)
(***************************************************************************)
EXTENDS CacheHarness

VARIABLES
    below,      \* the pairs of resident keys of which the first goes first
    count       \* how often each was used since it was inserted

rankedVars == <<harnessVars, below, count>>

Init ==
    /\ HarnessInit
    /\ below = {}
    /\ count = [k \in {} |-> 0]

(* The ranking with k taken out of it. *)
Unranked(k) == {pair \in below : k \notin Range(pair)}

(* The ranking with k put above every key used at most n times. *)
Ranked(k, n) ==
    LET others == resident \ {k}
        atMost == {x \in others : count[x] <= n}
    IN  Unranked(k) \cup (atMost \X {k}) \cup ({k} \X (others \ atMost))

Hit(k) ==
    /\ LookupHits(k)
    /\ below' = Ranked(k, count[k] + 1)
    /\ count' = [count EXCEPT ![k] = @ + 1]

Miss(k) ==
    /\ LookupMisses(k)
    /\ below' = Ranked(k, 1)
    /\ count' = [x \in DOMAIN count \cup {k} |-> IF x = k THEN 1 ELSE count[x]]

Evict(k) ==
    /\ k \in resident
    /\ \A x \in resident \ {k} : <<k, x>> \in below
    /\ Discard(k)
    /\ below' = Unranked(k)
    /\ count' = [x \in DOMAIN count \ {k} |-> count[x]]

Next == \E k \in Keys : Hit(k) \/ Miss(k) \/ Evict(k)

Spec == Init /\ [][Next]_rankedVars
=============================================================================
