--------------------------- MODULE ResidentOrder ----------------------------
(***************************************************************************)
(* What LRU and FIFO promise: the resident keys in one order, the last of  *)
(* which is the victim.  LRU's is the order of last use, so a hit brings a *)
(* key to the front; FIFO's is the order of arrival, and a hit changes     *)
(* nothing.  No slots, no links, no ring.                                  *)
(***************************************************************************)
EXTENDS CacheHarness

CONSTANT HitRefreshes       \* TRUE of LRU, FALSE of FIFO

VARIABLE order              \* the resident keys, the next victim last

orderVars == <<harnessVars, order>>

Init ==
    /\ HarnessInit
    /\ order = <<>>

Hit(k) ==
    /\ LookupHits(k)
    /\ order' = IF HitRefreshes THEN <<k>> \o Remove(order, k) ELSE order

Miss(k) ==
    /\ LookupMisses(k)
    /\ order' = <<k>> \o order

Evict ==
    /\ Discard(Last(order))
    /\ order' = Front(order)

Next == (\E k \in Keys : Hit(k) \/ Miss(k)) \/ Evict

Spec == Init /\ [][Next]_orderVars
=============================================================================
