---------------------------- MODULE CacheHarness ----------------------------
(***************************************************************************)
(* The cache simulator's side of the contract, shared by every policy.     *)
(*                                                                         *)
(* The harness alone knows which keys are resident.  It tells the policy   *)
(* of each lookup (onAccess, before any insertion), inserts on a miss, and *)
(* while more than Capacity keys are resident it asks for a victim (evict) *)
(* and removes it.  One lookup is therefore up to two steps, and while the *)
(* cache is over capacity nothing but the eviction can happen.             *)
(***************************************************************************)
EXTENDS Integers, FiniteSets, Sequences, Functions

CONSTANTS
    Keys,       \* the key universe
    Capacity    \* the most keys the cache holds between lookups

ASSUME CapacityAssumption == Capacity \in Nat \ {0}

VARIABLES
    resident,   \* the keys the harness holds
    event       \* what it counted last: a hit, a miss or an eviction

harnessVars == <<resident, event>>

-----------------------------------------------------------------------------
OverCapacity == Cardinality(resident) > Capacity

LookupHits(k) ==
    /\ ~ OverCapacity
    /\ k \in resident
    /\ event' = [op |-> "hit", key |-> k]
    /\ UNCHANGED resident

LookupMisses(k) ==
    /\ ~ OverCapacity
    /\ k \notin resident
    /\ event' = [op |-> "miss", key |-> k]
    /\ resident' = resident \cup {k}

(* The policy named its victim.  Naming a key that is not resident, which  *)
(* the harness throws for, would remove nothing.                           *)
Discard(victim) ==
    /\ OverCapacity
    /\ event' = [op |-> "evict", key |-> victim]
    /\ resident' = resident \ {victim}

-----------------------------------------------------------------------------
(* The rings and linked lists policies keep their entries in are sequences *)
(* in these modules, in which an entry has one place at most.              *)
Front(s) == SubSeq(s, 1, Len(s) - 1)

Last(s) == s[Len(s)]

(* The sequence closed up over its i-th place. *)
WithoutAt(s, i) == SubSeq(s, 1, i - 1) \o SubSeq(s, i + 1, Len(s))

(* The sequence without x, wherever in it x may be. *)
Remove(s, x) ==
    IF x \in Range(s) THEN WithoutAt(s, CHOOSE i \in DOMAIN s : s[i] = x) ELSE s

-----------------------------------------------------------------------------
HarnessInit ==
    /\ resident = {}
    /\ event = [op |-> "none"]

HarnessTypeOK ==
    /\ resident \subseteq Keys
    /\ Cardinality(resident) <= Capacity + 1
    /\ event \in [op : {"none"}] \cup [op : {"hit", "miss", "evict"}, key : Keys]
=============================================================================
