-------------------------------- MODULE Fifo --------------------------------
(***************************************************************************)
(* FIFO as the code keeps it: a circular buffer of Capacity + 1 keys with  *)
(* a head and a length.                                                    *)
(***************************************************************************)
EXTENDS CacheHarness

VARIABLES
    slots,      \* slot -> key, for the slots in use
    head,       \* the slot of the first arrival
    length      \* how many slots are in use

vars == <<harnessVars, slots, head, length>>

-----------------------------------------------------------------------------
RingSize == Capacity + 1

Wrap(i) == IF i >= RingSize THEN i - RingSize ELSE i

Init ==
    /\ HarnessInit
    /\ slots = [s \in {} |-> 0]
    /\ head = 0
    /\ length = 0

Hit(k) ==
    /\ LookupHits(k)
    /\ UNCHANGED <<slots, head, length>>

Miss(k) ==
    /\ LookupMisses(k)
    /\ length < RingSize
    /\ slots' = [s \in DOMAIN slots \cup {Wrap(head + length)} |->
                    IF s = Wrap(head + length) THEN k ELSE slots[s]]
    /\ length' = length + 1
    /\ UNCHANGED head

Evict ==
    /\ length > 0
    /\ Discard(slots[head])
    /\ slots' = [s \in DOMAIN slots \ {head} |-> slots[s]]
    /\ head' = Wrap(head + 1)
    /\ length' = length - 1

Next == (\E k \in Keys : Hit(k) \/ Miss(k)) \/ Evict

Spec == Init /\ [][Next]_vars

-----------------------------------------------------------------------------
(* The slots in use are the `length` slots from the head on, around the    *)
(* ring, and they hold exactly the resident keys.                          *)
TypeOK ==
    /\ HarnessTypeOK
    /\ head \in 0..Capacity
    /\ length \in 0..RingSize
    /\ DOMAIN slots = {Wrap(head + i) : i \in 0..(length - 1)}
    /\ {slots[s] : s \in DOMAIN slots} = resident

A == INSTANCE ResidentOrder
       WITH order <- [i \in 1..length |-> slots[Wrap(head + length - i)]],
            HitRefreshes <- FALSE

(* Around the ring and over its edge, the buffer is the arrival order: *)
(* "a hit changes nothing.  FIFO does not learn".                          *)
ImplementsArrivalOrder == A!Spec
=============================================================================
