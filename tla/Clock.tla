------------------------------- MODULE Clock --------------------------------
(***************************************************************************)
(* CLOCK as the code keeps it: a queue of slots in arrival order whose     *)
(* front is the hand, and one reference bit per slot.  evict() is a loop:  *)
(* each turn of it is a step here.                                         *)
(***************************************************************************)
EXTENDS SlotTable

VARIABLES
    referenced,     \* slot -> set by a hit, cleared by the hand
    order,          \* the slots in use, the hand's first
    ahead           \* history: per key, who was resident when it last arrived or
                    \* was spared and has neither left nor been spared since

vars == <<harnessVars, tableVars, referenced, order, ahead>>

-----------------------------------------------------------------------------
(* k goes behind all who stay; who is moved or leaves is behind no one. *)
Requeue(k) ==
    ahead' = [x \in resident' |-> IF x = k THEN resident' \ {k} ELSE ahead[x] \ {k}]

Leave(k) ==
    ahead' = [x \in resident' |-> ahead[x] \ {k}]

Init ==
    /\ HarnessInit
    /\ TableInit
    /\ referenced = [s \in SlotIds |-> FALSE]
    /\ order = <<>>
    /\ ahead = [k \in {} |-> {}]

(* The entire hit path: set one bit. *)
Hit(k) ==
    /\ LookupHits(k)
    /\ k \in DOMAIN index
    /\ referenced' = [referenced EXCEPT ![index[k]] = TRUE]
    /\ UNCHANGED <<tableVars, order, ahead>>

Miss(k) ==
    /\ LookupMisses(k)
    /\ TakeSlot(k)
    /\ referenced' = [referenced EXCEPT ![NextSlot] = FALSE]
    /\ order' = Append(order, NextSlot)
    /\ Requeue(k)

(* mutant of Spare: the bit is cleared but the entry stays at the hand *)
SpareInPlace ==
    /\ OverCapacity
    /\ order # <<>>
    /\ referenced[Head(order)]
    /\ referenced' = [referenced EXCEPT ![Head(order)] = FALSE]
    /\ UNCHANGED <<harnessVars, tableVars, order>>
    /\ Requeue(keys[Head(order)])

(* The hand passes: the bit is cleared and the entry goes to the back. *)
Spare ==
    /\ OverCapacity
    /\ order # <<>>
    /\ referenced[Head(order)]
    /\ referenced' = [referenced EXCEPT ![Head(order)] = FALSE]
    /\ order' = Append(Tail(order), Head(order))
    /\ UNCHANGED <<harnessVars, tableVars>>
    /\ Requeue(keys[Head(order)])

(* mutant of Evict: the bit is not looked at *)
EvictReferenced ==
    /\ order # <<>>
    /\ Discard(keys[Head(order)])
    /\ ReleaseSlot(Head(order))
    /\ order' = Tail(order)
    /\ Leave(keys[Head(order)])
    /\ UNCHANGED referenced

Evict ==
    /\ order # <<>>
    /\ ~ referenced[Head(order)]
    /\ Discard(keys[Head(order)])
    /\ ReleaseSlot(Head(order))
    /\ order' = Tail(order)
    /\ Leave(keys[Head(order)])
    /\ UNCHANGED referenced

Next == (\E k \in Keys : Hit(k) \/ Miss(k)) \/ Spare \/ Evict

Spec == Init /\ [][Next]_vars

-----------------------------------------------------------------------------
(* The queue holds every slot in use exactly once. *)
TypeOK ==
    /\ HarnessTypeOK
    /\ TableOK
    /\ referenced \in [SlotIds -> BOOLEAN]
    /\ IsInjective(order)
    /\ Range(order) = DOMAIN keys

C == INSTANCE SecondChance WITH reprieved <- {k \in DOMAIN index : referenced[index[k]]}

(* A hit earns exactly one reprieve: no referenced key is the victim, and  *)
(* no slot's bit outlives the key that earned it.                          *)
ImplementsSecondChance == C!Spec

(* Of a step: a reprieve is "a full new lifetime", which is what tells     *)
(* CLOCK from SIEVE.  No key leaves before everyone resident when it       *)
(* arrived, or was last spared, has left or been spared in turn.           *)
FullLifetime == \A k \in resident \ resident' : ahead[k] = {}
=============================================================================
