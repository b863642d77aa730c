-------------------------------- MODULE Lru ---------------------------------
(***************************************************************************)
(* LRU as the code keeps it: the slot table, and a doubly linked list of   *)
(* the slots in use in recency order.                                      *)
(***************************************************************************)
EXTENDS SlotTable

VARIABLE
    recency     \* the slots in use: head most recently used, tail the victim

vars == <<harnessVars, tableVars, recency>>

-----------------------------------------------------------------------------
Init ==
    /\ HarnessInit
    /\ TableInit
    /\ recency = Cleared(SlotIds)

Hit(k) ==
    /\ LookupHits(k)
    /\ k \in DOMAIN index
    /\ recency' = MoveToFront(recency, index[k])
    /\ UNCHANGED tableVars

Miss(k) ==
    /\ LookupMisses(k)
    /\ TakeSlot(k)
    /\ recency' = PushFront(recency, NextSlot)

Evict ==
    /\ recency.tail # Nil
    /\ Discard(keys[recency.tail])
    /\ ReleaseSlot(recency.tail)
    /\ recency' = PopBack(recency)

Next == (\E k \in Keys : Hit(k) \/ Miss(k)) \/ Evict

Spec == Init /\ [][Next]_vars

-----------------------------------------------------------------------------
TypeOK ==
    /\ HarnessTypeOK
    /\ TableOK
    /\ IsList(recency, SlotIds)

(* Both directions of the links, both ends and the length spell one list,  *)
(* and it threads exactly the slots in use.                                *)
LinksAgree ==
    /\ Whole(recency)
    /\ Range(Linked(recency)) = DOMAIN keys

KeyOrder == LET slots == Linked(recency) IN [i \in DOMAIN slots |-> keys[slots[i]]]

R == INSTANCE ResidentOrder WITH order <- KeyOrder, HitRefreshes <- TRUE

(* The links always spell the true recency order: "head is most recently   *)
(* used, tail is the victim".                                              *)
ImplementsRecencyOrder == R!Spec
=============================================================================
