-------------------------------- MODULE Arc ---------------------------------
(***************************************************************************)
(* ARC: keys seen once recently in T1, at least twice in T2, the keys      *)
(* evicted from each remembered in the ghost lists B1 and B2, and a target *)
(* size for T1 that every ghost hit adjusts.  The victim is chosen while   *)
(* the miss is handled, before the insertion, and held until evict() asks. *)
(* The linked lists of the code are sequences of keys here.                *)
(***************************************************************************)
EXTENDS CacheHarness

VARIABLES
    lists,      \* T1, T2, B1, B2, each most recently linked first
    target,     \* how much of the cache T1 should get
    pending,    \* the victim chosen and not yet collected: a set of at most one
    uses        \* history: per key, its accesses since ARC last had no memory
                \* of it, at most two counted

vars == <<harnessVars, lists, target, pending, uses>>

-----------------------------------------------------------------------------
Names == {"T1", "T2", "B1", "B2"}

Remembered == UNION {Range(lists[n]) : n \in Names}

Total(ls) == Len(ls["T1"]) + Len(ls["T2"]) + Len(ls["B1"]) + Len(ls["B2"])

Unlinked(ls, k) == [n \in Names |-> Remove(ls[n], k)]

Linked(ls, n, k) == [ls EXCEPT ![n] = <<k>> \o @]

DropOldestGhost(ls, n) ==
    IF ls[n] = <<>> THEN ls ELSE [ls EXCEPT ![n] = Front(@)]

(* mutant of TakeFromT1: an empty T1 can be at its target too *)
TakeFromT1Empty(ls, goal, fromB2) ==
    \/ fromB2 /\ Len(ls["T1"]) = goal
    \/ Len(ls["T1"]) > goal

(* REPLACE's choice: T1 gives one up over its target, or exactly at it     *)
(* when the key came back from B2.                                         *)
TakeFromT1(ls, goal, fromB2) ==
    /\ Len(ls["T1"]) >= 1
    /\ \/ fromB2 /\ Len(ls["T1"]) = goal
       \/ Len(ls["T1"]) > goal

(* The list REPLACE takes from, and its ghost list. *)
Giver(ls, goal, fromB2) == IF TakeFromT1(ls, goal, fromB2) THEN "T1" ELSE "T2"

GhostOf == [T1 |-> "B1", T2 |-> "B2"]

(* There is an entry to take: the code asserts it.  The ghost hits and the *)
(* misses below REPLACE, and are guarded by it; AlwaysAnswers shows that   *)
(* the guard refuses nothing.                                              *)
CanReplace(ls, goal, fromB2) == ls[Giver(ls, goal, fromB2)] # <<>>

(* Demote a list's oldest entry to the ghosts.  An empty list is an error. *)
Demote(ls, n) ==
    LET victim == Last(ls[n])
    IN  Linked([ls EXCEPT ![n] = Front(@)], GhostOf[n], victim)

(* How far one ghost hit moves the target: more when its list is shorter.  *)
StepOf(ls, n) ==
    LET own   == Len(ls[n])
        other == Len(ls[IF n = "B1" THEN "B2" ELSE "B1"])
    IN  IF own >= other THEN 1 ELSE other \div own

Adapted(n) ==
    IF n = "B1"
    THEN IF target + StepOf(lists, n) > Capacity THEN Capacity ELSE target + StepOf(lists, n)
    ELSE IF target < StepOf(lists, n) THEN 0 ELSE target - StepOf(lists, n)

(* A key that has just left all four lists has no uses left to remember.  *)
CountUse(k) ==
    uses' = [x \in Keys |->
                IF x = k THEN IF uses[k] < 2 THEN uses[k] + 1 ELSE 2
                ELSE IF x \in UNION {Range(lists'[n]) : n \in Names} THEN uses[x]
                ELSE 0]

-----------------------------------------------------------------------------
Init ==
    /\ HarnessInit
    /\ lists = [n \in Names |-> <<>>]
    /\ target = 0
    /\ pending = {}
    /\ uses = [k \in Keys |-> 0]

(* mutant of Hit: a key in T1 is only refreshed there *)
HitStaysRecent(k) ==
    /\ LookupHits(k)
    /\ k \in Range(lists["T1"]) \cup Range(lists["T2"])
    /\ lists' = Linked(Unlinked(lists, k), IF k \in Range(lists["T1"]) THEN "T1" ELSE "T2", k)
    /\ CountUse(k)
    /\ UNCHANGED <<target, pending>>

(* Case I: a second recent use promotes the key to the frequent list. *)
Hit(k) ==
    /\ LookupHits(k)
    /\ k \in Range(lists["T1"]) \cup Range(lists["T2"])
    /\ lists' = Linked(Unlinked(lists, k), "T2", k)
    /\ CountUse(k)
    /\ UNCHANGED <<target, pending>>

(* Cases II and III: a key evicted too soon is back.  The target moves     *)
(* first, and REPLACE sees it moved.                                       *)
MissGhost(k, n) ==
    /\ LookupMisses(k)
    /\ k \in Range(lists[n])
    /\ target' = Adapted(n)
    /\ CanReplace(lists, Adapted(n), n = "B2")
    /\ LET giver == Giver(lists, Adapted(n), n = "B2")
       IN  /\ lists' = Linked(Unlinked(Demote(lists, giver), k), "T2", k)
           /\ pending' = {Last(lists[giver])}
    /\ CountUse(k)

(* Case IV with room for nothing more on the recent side, T1 short of it. *)
MissRecentSideFull(k) ==
    /\ LookupMisses(k)
    /\ k \notin Remembered
    /\ Len(lists["T1"]) + Len(lists["B1"]) = Capacity
    /\ Len(lists["T1"]) < Capacity
    /\ LET dropped == DropOldestGhost(lists, "B1")
           giver   == Giver(dropped, target, FALSE)
       IN  /\ CanReplace(dropped, target, FALSE)
           /\ lists' = Linked(Demote(dropped, giver), "T1", k)
           /\ pending' = {Last(dropped[giver])}
    /\ CountUse(k)
    /\ UNCHANGED target

(* T1 is the whole cache: its oldest entry goes, and leaves no ghost. *)
MissRecentCacheFull(k) ==
    /\ LookupMisses(k)
    /\ k \notin Remembered
    /\ Len(lists["T1"]) + Len(lists["B1"]) = Capacity
    /\ Len(lists["T1"]) = Capacity
    /\ lists' = [lists EXCEPT !["T1"] = <<k>> \o Front(@)]
    /\ pending' = {Last(lists["T1"])}
    /\ CountUse(k)
    /\ UNCHANGED target

(* A directory of twice the cache forgets before it learns. *)
Trimmed == IF Total(lists) = 2 * Capacity THEN DropOldestGhost(lists, "B2") ELSE lists

(* The cache is full and the recent side is not. *)
MissCacheFull(k) ==
    /\ LookupMisses(k)
    /\ k \notin Remembered
    /\ Len(lists["T1"]) + Len(lists["B1"]) < Capacity
    /\ Total(lists) >= Capacity
    /\ CanReplace(Trimmed, target, FALSE)
    /\ LET giver == Giver(Trimmed, target, FALSE)
       IN  /\ lists' = Linked(Demote(Trimmed, giver), "T1", k)
           /\ pending' = {Last(Trimmed[giver])}
    /\ CountUse(k)
    /\ UNCHANGED target

MissWithRoom(k) ==
    /\ LookupMisses(k)
    /\ k \notin Remembered
    /\ Len(lists["T1"]) + Len(lists["B1"]) < Capacity
    /\ Total(lists) < Capacity
    /\ lists' = Linked(lists, "T1", k)
    /\ CountUse(k)
    /\ UNCHANGED <<target, pending>>

Miss(k) ==
    \/ \E n \in {"B1", "B2"} : MissGhost(k, n)
    \/ MissRecentSideFull(k)
    \/ MissRecentCacheFull(k)
    \/ MissCacheFull(k)
    \/ MissWithRoom(k)

Evict ==
    \E victim \in pending :
        /\ Discard(victim)
        /\ pending' = {}
        /\ UNCHANGED <<lists, target, uses>>

Next == (\E k \in Keys : Hit(k) \/ Miss(k)) \/ Evict

Spec == Init /\ [][Next]_vars

-----------------------------------------------------------------------------
(* A key is in at most one list; the two cache lists and the victim not    *)
(* yet collected are what the harness holds.                               *)
TypeOK ==
    /\ HarnessTypeOK
    /\ IsInjective(lists["T1"] \o lists["T2"] \o lists["B1"] \o lists["B2"])
    /\ Range(lists["T1"]) \cup Range(lists["T2"]) \cup pending = resident
    /\ pending \cap (Range(lists["T1"]) \cup Range(lists["T2"])) = {}
    /\ target \in 0..Capacity
    /\ uses \in [Keys -> 0..2]

(* The paper's bounds, on which the slot pool of 2c + 2 rests ("which      *)
(* should be impossible"): the recent side is at most c keys, the whole    *)
(* directory at most 2c, and ghosts exist only behind a full cache.        *)
DirectoryBounds ==
    /\ Len(lists["T1"]) + Len(lists["B1"]) <= Capacity
    /\ Len(lists["T1"]) + Len(lists["T2"]) <= Capacity
    /\ Total(lists) <= 2 * Capacity
    /\ Len(lists["B1"]) + Len(lists["B2"]) > 0
          => Len(lists["T1"]) + Len(lists["T2"]) = Capacity

(* None of the code's assertions can fail under the harness: a victim is   *)
(* waiting exactly when the harness asks for one, so no second choice      *)
(* overwrites it; a hit finds its key in the cache lists; and wherever a   *)
(* miss is to REPLACE, with the target as it is then and the ghosts        *)
(* already dropped, there is an entry to take.                             *)
AlwaysAnswers ==
    /\ OverCapacity <=> pending # {}
    /\ ~ OverCapacity =>
        /\ resident = Range(lists["T1"]) \cup Range(lists["T2"])
        /\ \A n \in {"B1", "B2"} :
                lists[n] # <<>> => CanReplace(lists, Adapted(n), n = "B2")
        /\ \/ Len(lists["T1"]) + Len(lists["B1"]) # Capacity
           \/ Len(lists["T1"]) = Capacity
           \/ CanReplace(DropOldestGhost(lists, "B1"), target, FALSE)
        /\ \/ Len(lists["T1"]) + Len(lists["B1"]) >= Capacity
           \/ Total(lists) < Capacity
           \/ CanReplace(Trimmed, target, FALSE)

(* T1 and B1 are the keys seen once since ARC last had no memory of them,  *)
(* T2 and B2 those seen at least twice.                                    *)
SeenOnceOrTwice ==
    /\ \A k \in Range(lists["T1"]) \cup Range(lists["B1"]) : uses[k] = 1
    /\ \A k \in Range(lists["T2"]) \cup Range(lists["B2"]) : uses[k] = 2
=============================================================================
