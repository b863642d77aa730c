------------------------------- MODULE Sieve --------------------------------
(***************************************************************************)
(* SIEVE as the code keeps it: entries in slots, linked in insertion order *)
(* by arrays of its own, one visited bit per slot, and a hand that stays   *)
(* where it stopped.  evict() is a loop: each turn of it is a step here.   *)
(***************************************************************************)
EXTENDS SlotTable

VARIABLES
    list,       \* insertion order; nothing ever moves within it
    visited,    \* slot -> set by a hit, cleared by the hand
    hand,       \* the slot to examine first next time, or Nil for the oldest
    cursor      \* evict()'s local `slot` between two turns, or Nil

vars == <<harnessVars, tableVars, list, visited, hand, cursor>>

-----------------------------------------------------------------------------
(* The slot the hand examines now. *)
Examined ==
    IF      cursor # Nil THEN cursor
    ELSE IF hand # Nil   THEN hand
    ELSE list.oldest

Newer(slot) == list.newer[slot]

EmptyList ==
    LET none == [s \in SlotIds |-> Nil]
    IN  [newer |-> none, older |-> none, newest |-> Nil, oldest |-> Nil]

LinkNewest(slot) ==
    [newer |-> [s \in SlotIds |-> CASE s = slot        -> Nil
                                   [] s = list.newest -> slot
                                   [] OTHER           -> list.newer[s]],
     older |-> [list.older EXCEPT ![slot] = list.newest],
     newest |-> slot,
     oldest |-> IF list.newest = Nil THEN slot ELSE list.oldest]

(* Splice a slot out, mending both neighbours, or the ends it was. *)
Without(slot) ==
    LET newer == list.newer[slot]
        older == list.older[slot]
    IN  [newer |-> [s \in SlotIds |-> CASE s = slot  -> Nil
                                       [] s = older -> newer
                                       [] OTHER     -> list.newer[s]],
         older |-> [s \in SlotIds |-> CASE s = slot  -> Nil
                                       [] s = newer -> older
                                       [] OTHER     -> list.older[s]],
         newest |-> IF newer = Nil THEN older ELSE list.newest,
         oldest |-> IF older = Nil THEN newer ELSE list.oldest]

Init ==
    /\ HarnessInit
    /\ TableInit
    /\ list = EmptyList
    /\ visited = [s \in SlotIds |-> FALSE]
    /\ hand = Nil
    /\ cursor = Nil

(* The entire hit path: set one bit. *)
Hit(k) ==
    /\ LookupHits(k)
    /\ k \in DOMAIN index
    /\ visited' = [visited EXCEPT ![index[k]] = TRUE]
    /\ UNCHANGED <<tableVars, list, hand, cursor>>

(* New entries go at the new end, ahead of the hand. *)
Miss(k) ==
    /\ LookupMisses(k)
    /\ TakeSlot(k)
    /\ visited' = [visited EXCEPT ![NextSlot] = FALSE]
    /\ list' = LinkNewest(NextSlot)
    /\ UNCHANGED <<hand, cursor>>

(* A visited entry loses its bit and stays where it is; past the newest    *)
(* the hand wraps to the oldest.                                           *)
Spare ==
    /\ OverCapacity
    /\ Examined # Nil
    /\ visited[Examined]
    /\ visited' = [visited EXCEPT ![Examined] = FALSE]
    /\ cursor' = IF Newer(Examined) = Nil THEN list.oldest ELSE Newer(Examined)
    /\ UNCHANGED <<harnessVars, tableVars, list, hand>>

(* The hand stops just beyond the victim, and stays there. *)
Evict ==
    /\ Examined # Nil
    /\ ~ visited[Examined]
    /\ Discard(keys[Examined])
    /\ ReleaseSlot(Examined)
    /\ hand' = Newer(Examined)
    /\ cursor' = Nil
    /\ list' = Without(Examined)
    /\ UNCHANGED visited

Next == (\E k \in Keys : Hit(k) \/ Miss(k)) \/ Spare \/ Evict

Spec == Init /\ [][Next]_vars

-----------------------------------------------------------------------------
TypeOK ==
    /\ HarnessTypeOK
    /\ TableOK
    /\ list \in [newer : [SlotIds -> SlotIds \cup {Nil}],
                 older : [SlotIds -> SlotIds \cup {Nil}],
                 newest : SlotIds \cup {Nil},
                 oldest : SlotIds \cup {Nil}]
    /\ visited \in [SlotIds -> BOOLEAN]
    /\ {hand, cursor} \subseteq SlotIds \cup {Nil}

(* The hand outlives the eviction that placed it, so it must never be left *)
(* on a slot that was freed or handed to a key inserted since.             *)
HandIsHeld ==
    /\ {hand, cursor} \subseteq DOMAIN keys \cup {Nil}
    /\ cursor # Nil => OverCapacity

Order == Threaded(list.older, list.newest, Capacity + 1)

(* Both directions of the links and both ends spell one list, and it       *)
(* threads exactly the slots in use.                                       *)
LinksAgree ==
    LET order == Order
    IN  /\ Threads(list.older, list.newer, order, Nil)
        /\ list.oldest = IF order = <<>> THEN Nil ELSE Last(order)
        /\ Range(order) = DOMAIN keys

KeyOrder == LET order == Order IN [i \in DOMAIN order |-> keys[order[i]]]

(* The pairs of keys of which the first arrived later. *)
Ages ==
    LET order == KeyOrder
    IN  {pair \in resident \X resident :
            \E i, j \in DOMAIN order : i < j /\ order[i] = pair[1] /\ order[j] = pair[2]}

(* Of a step: "the entry does not move" (sieve_on_access); of two keys that *)
(* stay, the one that arrived first stays the older.                       *)
NothingMoves ==
    LET stay == resident \cap resident'
    IN  Ages \cap (stay \X stay) \subseteq Ages'

C == INSTANCE SecondChance WITH reprieved <- {k \in DOMAIN index : visited[index[k]]}

(* A hit earns exactly one reprieve: no visited key is the victim, and no  *)
(* slot's bit outlives the key that earned it.                             *)
ImplementsSecondChance == C!Spec
=============================================================================
