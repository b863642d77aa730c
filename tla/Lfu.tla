-------------------------------- MODULE Lfu ---------------------------------
(***************************************************************************)
(* LFU in constant time: entries grouped into frequency classes, the       *)
(* classes an ascending list, both drawn from fixed pools.  Promoting an   *)
(* entry makes the class it moves to before it leaves the old one, so for  *)
(* a moment there is one class more.  The linked lists of the code are     *)
(* sequences here; the pools are the counts they allow.                    *)
(***************************************************************************)
EXTENDS CacheHarness

CONSTANT MaxUses       \* the most uses of one key a behaviour explores

UsesAssumption == MaxUses \in Nat \ {0}

VARIABLE classes        \* [freq, entries], the least frequent class first

vars == <<harnessVars, classes>>

-----------------------------------------------------------------------------
Entries == UNION {Range(classes[i].entries) : i \in DOMAIN classes}

ClassOf(k) == CHOOSE i \in DOMAIN classes : k \in Range(classes[i].entries)

(* mutant of ClassPool: no class spare for the one a promotion makes *)
ClassPoolNoSpare == Capacity

(* One class per entry, and the cache is briefly one entry over. *)
ClassPool == Capacity + 1

NewClass(freq) == [freq |-> freq, entries |-> <<>>]

InsertClassAfter(i, freq) ==
    SubSeq(classes, 1, i) \o <<NewClass(freq)>> \o SubSeq(classes, i + 1, Len(classes))

InsertClassFirst(freq) == <<NewClass(freq)>> \o classes

ReleaseClass(cs, i) == WithoutAt(cs, i)

(* The class list with a class for the next frequency right after class i: *)
(* the neighbour if it has that frequency already, or a new one.           *)
ClassAfter(i) ==
    IF i < Len(classes) /\ classes[i + 1].freq = classes[i].freq + 1
    THEN classes
    ELSE InsertClassAfter(i, classes[i].freq + 1)

FirstClass ==
    IF classes # <<>> /\ classes[1].freq = 1
    THEN classes
    ELSE InsertClassFirst(1)

Appended(cs, i, k) == [cs EXCEPT ![i].entries = Append(@, k)]

(* "An empty class must not be left in the list, or eviction would find    *)
(* nothing in it."                                                         *)
Removed(cs, i, k) ==
    IF cs[i].entries = <<k>>
    THEN ReleaseClass(cs, i)
    ELSE [cs EXCEPT ![i].entries = Remove(@, k)]

-----------------------------------------------------------------------------
Init ==
    /\ HarnessInit
    /\ classes = <<>>

(* The new class is made before the old one can be released. *)
Promote(k) ==
    LET i     == ClassOf(k)
        grown == ClassAfter(i)
    IN  /\ Len(grown) <= ClassPool
        /\ classes' = Removed(Appended(grown, i + 1, k), i, k)

Hit(k) ==
    /\ LookupHits(k)
    /\ k \in Entries
    /\ classes[ClassOf(k)].freq < MaxUses
    /\ Promote(k)

Miss(k) ==
    /\ LookupMisses(k)
    /\ Cardinality(Entries) <= Capacity
    /\ Len(FirstClass) <= ClassPool
    /\ classes' = Appended(FirstClass, 1, k)

Evict ==
    /\ classes # <<>>
    /\ classes[1].entries # <<>>
    /\ LET victim == Head(classes[1].entries)
       IN  /\ Discard(victim)
           /\ classes' = Removed(classes, 1, victim)

Next == (\E k \in Keys : Hit(k) \/ Miss(k)) \/ Evict

Spec == Init /\ [][Next]_vars

-----------------------------------------------------------------------------
(* The classes partition the resident keys, each under one count. *)
TypeOK ==
    /\ HarnessTypeOK
    /\ Len(classes) <= Capacity + 1
    /\ \A i \in DOMAIN classes : classes[i].freq \in 1 .. MaxUses
    /\ \A i \in DOMAIN classes : IsInjective(classes[i].entries)
    /\ \A i, j \in DOMAIN classes :
          i # j => Range(classes[i].entries) \cap Range(classes[j].entries) = {}
    /\ Entries = resident

(* The class list is strictly ascending and no class in it is empty, which *)
(* is what lets a promotion look one class ahead and no further, and an    *)
(* eviction at the first class only.                                       *)
ClassesAscend ==
    /\ \A i \in DOMAIN classes : classes[i].entries # <<>>
    /\ \A i, j \in DOMAIN classes : i < j => classes[i].freq < classes[j].freq

(* "Ran out of frequency classes, which should be impossible": a promotion *)
(* holds its old class and its new one at once, and the pool still has     *)
(* room; neither pool ever refuses a lookup the harness makes.             *)
PoolsSuffice ==
    ~ OverCapacity =>
        /\ Cardinality(Entries) <= Capacity
        /\ Len(FirstClass) <= ClassPool
        /\ \A k \in Entries : Len(ClassAfter(ClassOf(k))) <= ClassPool

(* The eviction order: class by class, and oldest first in each. *)
GoesFirst(x, y) ==
    \/ ClassOf(x) < ClassOf(y)
    \/ /\ ClassOf(x) = ClassOf(y)
       /\ LET entries == classes[ClassOf(x)].entries
          IN  \E i, j \in DOMAIN entries : i < j /\ entries[i] = x /\ entries[j] = y

F == INSTANCE FrequencyOrder WITH
        below <- {pair \in Entries \X Entries : GoesFirst(pair[1], pair[2])},
        count <- [k \in Entries |-> classes[ClassOf(k)].freq]

(* The victim is always the least used key, and among those the one that   *)
(* reached its count earliest.                                             *)
ImplementsFrequencyOrder == F!Spec
=============================================================================
