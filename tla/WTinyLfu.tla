------------------------------ MODULE WTinyLfu ------------------------------
(***************************************************************************)
(* W-TinyLFU: a small window LRU takes new keys in; the main cache is a    *)
(* segmented LRU, and the key that falls out of the window must be more    *)
(* popular than main's next victim to take its place.  Popularity is a     *)
(* count-min sketch behind a doorkeeper, both halved or forgotten every    *)
(* SampleLimit accesses.  The linked lists of the code are sequences, most *)
(* recently used first, and its hash is a constant function.               *)
(***************************************************************************)
EXTENDS CacheHarness

CONSTANTS
    WindowSize,     \* max(1, floor(capacity * windowFraction))
    ProtectedSize,  \* max(1, floor(mainSize * protectedFraction))
    SampleLimit,    \* accesses between two halvings: ten per cached entry
    MaxCount,       \* where a counter saturates: fifteen in four bits
    Rows,           \* the sketch's rows, four in the code
    DoorRows,       \* those whose positions the doorkeeper uses, two
    Width,          \* counters in a row, and bits in the doorkeeper
    Position        \* [Keys -> [Rows -> cell]]: the salted hash

MainSize == Capacity - WindowSize

Cells == 0 .. Width - 1

SketchAssumption ==
    /\ WindowSize \in 1 .. Capacity - 1
    /\ ProtectedSize \in 1 .. MainSize
    /\ {SampleLimit, MaxCount} \subseteq Nat \ {0}
    /\ DoorRows \subseteq Rows /\ Rows # {}
    /\ Position \in [Keys -> [Rows -> Cells]]

VARIABLES
    window, probation, protected,   \* the three lists
    sketch,     \* row -> cell -> count
    doorkeeper, \* the bits set: a set of cells
    sampled,    \* accesses since the last halving
    own         \* history: per key, [seen, count] of a sketch all its own

vars == <<harnessVars, window, probation, protected, sketch, doorkeeper, sampled, own>>

-----------------------------------------------------------------------------
DoorCells(k) == {Position[k][r] : r \in DoorRows}

KnockedBefore(k) == DoorCells(k) \subseteq doorkeeper

Saturated(n) == IF n < MaxCount THEN n + 1 ELSE n

Increment(k) ==
    [r \in Rows |-> [c \in Cells |->
        IF c = Position[k][r] THEN Saturated(sketch[r][c]) ELSE sketch[r][c]]]

Halved(counts) == [r \in Rows |-> [c \in Cells |-> counts[r][c] \div 2]]

(* Note an access: a first appearance stops at the doorkeeper, later ones  *)
(* are counted in every row, and a full sample halves and forgets.         *)
Record(k) ==
    LET door   == IF KnockedBefore(k) THEN doorkeeper ELSE doorkeeper \cup DoorCells(k)
        counts == IF KnockedBefore(k) THEN Increment(k) ELSE sketch
        noted  == [own EXCEPT ![k] = [seen  |-> TRUE,
                                      count |-> IF @.seen THEN Saturated(@.count) ELSE @.count]]
    IN  IF sampled + 1 >= SampleLimit
        THEN /\ sketch' = Halved(counts)
             /\ doorkeeper' = {}
             /\ sampled' = 0
             /\ own' = [x \in Keys |-> [seen |-> FALSE, count |-> noted[x].count \div 2]]
        ELSE /\ sketch' = counts
             /\ doorkeeper' = door
             /\ sampled' = sampled + 1
             /\ own' = noted

MinCount(k) ==
    CHOOSE n \in 0 .. MaxCount :
        /\ \E r \in Rows : sketch[r][Position[k][r]] = n
        /\ \A r \in Rows : sketch[r][Position[k][r]] >= n

(* The count-min estimate, plus one if the doorkeeper has seen the key. *)
Estimate(k) == MinCount(k) + IF KnockedBefore(k) THEN 1 ELSE 0

-----------------------------------------------------------------------------
Init ==
    /\ HarnessInit
    /\ window = <<>> /\ probation = <<>> /\ protected = <<>>
    /\ sketch = [r \in Rows |-> [c \in Cells |-> 0]]
    /\ doorkeeper = {}
    /\ sampled = 0
    /\ own = [k \in Keys |-> [seen |-> FALSE, count |-> 0]]

MoveToFront(list, k) == <<k>> \o Remove(list, k)

HitWindow(k) ==
    /\ LookupHits(k)
    /\ k \in Range(window)
    /\ Record(k)
    /\ window' = MoveToFront(window, k)
    /\ UNCHANGED <<probation, protected>>

(* A second hit in main protects the key; the longest unused protected key *)
(* goes back on probation if that is one too many.                         *)
HitProbation(k) ==
    /\ LookupHits(k)
    /\ k \in Range(probation)
    /\ Record(k)
    /\ LET raised == <<k>> \o protected
           rest   == Remove(probation, k)
       IN  IF Len(raised) > ProtectedSize
           THEN protected' = Front(raised) /\ probation' = <<Last(raised)>> \o rest
           ELSE protected' = raised /\ probation' = rest
    /\ UNCHANGED window

HitProtected(k) ==
    /\ LookupHits(k)
    /\ k \in Range(protected)
    /\ Record(k)
    /\ protected' = MoveToFront(protected, k)
    /\ UNCHANGED <<window, probation>>

MainHasRoom == Len(probation) + Len(protected) < MainSize

(* New keys always enter the window; its overflow moves across for free    *)
(* while main has room.  One key comes in, so at most one moves.           *)
Miss(k) ==
    /\ LookupMisses(k)
    /\ Record(k)
    /\ IF Len(window) + 1 > WindowSize /\ MainHasRoom
       THEN LET entered == <<k>> \o window
            IN  window' = Front(entered) /\ probation' = <<Last(entered)>> \o probation
       ELSE window' = <<k>> \o window /\ UNCHANGED probation
    /\ UNCHANGED protected

Candidate == Last(window)

(* Main's next victim: probation's oldest, protected's if there is none,   *)
(* or the window's.                                                        *)
MainVictim ==
    IF probation # <<>> THEN Last(probation)
    ELSE IF protected # <<>> THEN Last(protected)
    ELSE Last(window)

ContestIsHeld == Len(window) > WindowSize

(* On a tie the incumbent stays. *)
CandidateWins == Estimate(Candidate) > Estimate(MainVictim)

(* Main gives up its victim: to the candidate, or to nobody when there is  *)
(* no contest.  evict() first drains the window again, which finds nothing *)
(* to move (EveryEvictionIsAContest).                                      *)
EvictVictim ==
    /\ ContestIsHeld => CandidateWins
    /\ Discard(MainVictim)
    /\ LET admitted == IF ContestIsHeld THEN <<Candidate>> ELSE <<>>
           waiting  == IF ContestIsHeld THEN Front(window) ELSE window
       IN  /\ probation' = admitted \o Remove(probation, MainVictim)
           /\ window' = Remove(waiting, MainVictim)
    /\ protected' = Remove(protected, MainVictim)
    /\ UNCHANGED <<sketch, doorkeeper, sampled, own>>

EvictCandidate ==
    /\ ContestIsHeld
    /\ ~ CandidateWins
    /\ Discard(Candidate)
    /\ window' = Front(window)
    /\ UNCHANGED <<probation, protected, sketch, doorkeeper, sampled, own>>

Next ==
    \/ \E k \in Keys : HitWindow(k) \/ HitProbation(k) \/ HitProtected(k) \/ Miss(k)
    \/ EvictVictim
    \/ EvictCandidate

Spec == Init /\ [][Next]_vars

-----------------------------------------------------------------------------
(* A key is in exactly one list while it is resident, and the protected    *)
(* keep to their share.                                                    *)
TypeOK ==
    /\ HarnessTypeOK
    /\ Len(protected) <= ProtectedSize
    /\ IsInjective(window \o probation \o protected)
    /\ Range(window) \cup Range(probation) \cup Range(protected) = resident
    /\ sketch \in [Rows -> [Cells -> 0 .. MaxCount]]
    /\ doorkeeper \subseteq Cells
    /\ sampled \in 0 .. SampleLimit - 1
    /\ own \in [Keys -> [seen : BOOLEAN, count : 0 .. MaxCount]]

(* Sharing its counters with other keys, through halvings and saturation,  *)
(* a key is never thought less popular than a sketch of its own would say: *)
(* collisions only ever flatter.                                           *)
NeverUnderestimates ==
    \A k \in Keys : Estimate(k) >= own[k].count + IF own[k].seen THEN 1 ELSE 0

(* "The window keeps its size continuously": it is over only when the      *)
(* cache is, and then main is full and has a victim, so evict() always has *)
(* a contest to hold and never a window left to drain.                     *)
EveryEvictionIsAContest ==
    /\ OverCapacity <=> ContestIsHeld
    /\ ContestIsHeld => ~ MainHasRoom
    /\ Len(probation) + Len(protected) <= MainSize

(* "The truly popular keys sit furthest from eviction": as long as main    *)
(* has room for more than the protected, none of them is ever evicted      *)
(* without having been put back on probation first.                        *)
ProtectedAreSafe ==
    ProtectedSize < MainSize => Range(protected) \subseteq resident'
=============================================================================
