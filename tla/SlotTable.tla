----------------------------- MODULE SlotTable ------------------------------
(***************************************************************************)
(* The slot table under LRU, CLOCK and SIEVE: a map from key to slot, the  *)
(* key in each slot, and a stack of unused slots.  One slot more than      *)
(* Capacity, because the harness inserts before it evicts.  With it the    *)
(* doubly linked list two of them thread through the slots (ds/ilist.c):   *)
(* two arrays of links, the two ends and a length.  A slot on no list is   *)
(* marked so, which is what pb_ilist_contains looks at.  The code asserts  *)
(* that a slot pushed is on no list and that a slot removed or moved is on *)
(* this one: those are the callers' guards.                                *)
(***************************************************************************)
EXTENDS CacheHarness

VARIABLES
    index,      \* key -> slot, for the keys held
    keys,       \* slot -> key, for the slots in use
    free        \* the stack of unused slots, its top last

tableVars == <<index, keys, free>>

-----------------------------------------------------------------------------
SlotIds == 0..Capacity

TableInit ==
    /\ index = [k \in {} |-> 0]
    /\ keys = [s \in {} |-> 0]
    /\ free = [i \in 1..(Capacity + 1) |-> Capacity + 1 - i]

(* The slot a key would be given. *)
NextSlot == Last(free)

(* Taking a slot with none left is an error the policies throw. *)
TakeSlot(k) ==
    /\ free # <<>>
    /\ free' = Front(free)
    /\ keys' = [s \in DOMAIN keys \cup {NextSlot} |-> IF s = NextSlot THEN k ELSE keys[s]]
    /\ index' = [x \in DOMAIN index \cup {k} |-> IF x = k THEN NextSlot ELSE index[x]]

(* mutant of ReleaseSlot: the slot is never given back *)
ReleaseSlotLeaks(slot) ==
    /\ index' = [x \in DOMAIN index \ {keys[slot]} |-> index[x]]
    /\ keys' = [s \in DOMAIN keys \ {slot} |-> keys[s]]
    /\ UNCHANGED free

ReleaseSlot(slot) ==
    /\ index' = [x \in DOMAIN index \ {keys[slot]} |-> index[x]]
    /\ keys' = [s \in DOMAIN keys \ {slot} |-> keys[s]]
    /\ free' = Append(free, slot)

-----------------------------------------------------------------------------
(* Every slot is in use or free exactly once, the index is the inverse of  *)
(* the key table, and the policy holds the keys the harness holds: so a    *)
(* slot is free whenever a lookup can miss, and something is held whenever *)
(* a victim is asked for, and no error a policy throws is ever reached.    *)
TableOK ==
    /\ IsInjective(free)
    /\ Range(free) = SlotIds \ DOMAIN keys
    /\ DOMAIN index = resident
    /\ {keys[s] : s \in DOMAIN keys} = resident
    /\ \A s \in DOMAIN keys : index[keys[s]] = s

-----------------------------------------------------------------------------
Nil == -1           \* past either end
Unlinked == -2      \* on no list

Slots(list) == DOMAIN list.next

IsList(list, slots) ==
    list \in [next : [slots -> slots \cup {Nil, Unlinked}],
              prev : [slots -> slots \cup {Nil, Unlinked}],
              head : slots \cup {Nil},
              tail : slots \cup {Nil},
              length : 0 .. Cardinality(slots)]

-----------------------------------------------------------------------------
Cleared(slots) ==
    LET none == [s \in slots |-> Unlinked]
    IN  [next |-> none, prev |-> none, head |-> Nil, tail |-> Nil, length |-> 0]

IsLinked(list, slot) == list.next[slot] # Unlinked

PushFront(list, slot) ==
    [next |-> [list.next EXCEPT ![slot] = list.head],
     prev |-> [s \in Slots(list) |-> CASE s = slot      -> Nil
                                       [] s = list.head -> slot
                                       [] OTHER         -> list.prev[s]],
     head |-> slot,
     tail |-> IF list.head = Nil THEN slot ELSE list.tail,
     length |-> list.length + 1]

PushBack(list, slot) ==
    [next |-> [s \in Slots(list) |-> CASE s = slot      -> Nil
                                       [] s = list.tail -> slot
                                       [] OTHER         -> list.next[s]],
     prev |-> [list.prev EXCEPT ![slot] = list.tail],
     head |-> IF list.tail = Nil THEN slot ELSE list.head,
     tail |-> slot,
     length |-> list.length + 1]

(* mutant of Unlink: the tail is not moved when the last slot leaves *)
UnlinkKeepsTail(list, slot) ==
    LET after  == list.next[slot]
        before == list.prev[slot]
    IN  [next |-> [s \in Slots(list) |-> CASE s = slot   -> Unlinked
                                           [] s = before -> after
                                           [] OTHER      -> list.next[s]],
         prev |-> [s \in Slots(list) |-> CASE s = slot   -> Unlinked
                                           [] s = after  -> before
                                           [] OTHER      -> list.prev[s]],
         head |-> IF before = Nil THEN after ELSE list.head,
         tail |-> IF after = Nil /\ before = Nil THEN Nil ELSE list.tail,
         length |-> list.length - 1]

(* pb_ilist_remove: mend both neighbours, or the ends the slot was. *)
Unlink(list, slot) ==
    LET after  == list.next[slot]
        before == list.prev[slot]
    IN  [next |-> [s \in Slots(list) |-> CASE s = slot   -> Unlinked
                                           [] s = before -> after
                                           [] OTHER      -> list.next[s]],
         prev |-> [s \in Slots(list) |-> CASE s = slot   -> Unlinked
                                           [] s = after  -> before
                                           [] OTHER      -> list.prev[s]],
         head |-> IF before = Nil THEN after ELSE list.head,
         tail |-> IF after = Nil THEN before ELSE list.tail,
         length |-> list.length - 1]

MoveToFront(list, slot) ==
    IF list.head = slot THEN list ELSE PushFront(Unlink(list, slot), slot)

MoveToBack(list, slot) ==
    IF list.tail = slot THEN list ELSE PushBack(Unlink(list, slot), slot)

PopFront(list) == IF list.head = Nil THEN list ELSE Unlink(list, list.head)

PopBack(list) == IF list.tail = Nil THEN list ELSE Unlink(list, list.tail)

-----------------------------------------------------------------------------
(* The slots that links thread from one end, at most n of them. *)
Threaded(links, from, n) ==
    LET at[i \in 1..n] ==
            IF i = 1 THEN from
            ELSE IF at[i - 1] = Nil THEN Nil ELSE links[at[i - 1]]
    IN  [i \in 1 .. Cardinality({i \in 1..n : at[i] # Nil}) |-> at[i]]

(* Both directions tell the same story of these slots, each of which is on *)
(* the list once, and every other slot is on none: `off` marks it.         *)
Threads(forth, back, slots, off) ==
    LET n == Len(slots)
    IN  /\ IsInjective(slots)
        /\ \A i \in 1..n :
              /\ forth[slots[i]] = IF i = n THEN Nil ELSE slots[i + 1]
              /\ back[slots[i]] = IF i = 1 THEN Nil ELSE slots[i - 1]
        /\ \A s \in DOMAIN forth \ Range(slots) : forth[s] = off /\ back[s] = off

(* The slots of a list from head to tail. *)
Linked(list) == Threaded(list.next, list.head, Cardinality(Slots(list)))

(* A list is whole: both ends, both directions and the length agree.       *)
Whole(list) ==
    LET order == Linked(list)
    IN  /\ Threads(list.next, list.prev, order, Unlinked)
        /\ list.head = IF order = <<>> THEN Nil ELSE Head(order)
        /\ list.tail = IF order = <<>> THEN Nil ELSE Last(order)
        /\ list.length = Len(order)
=============================================================================
