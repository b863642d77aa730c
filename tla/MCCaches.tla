------------------------------ MODULE MCCaches -------------------------------
(***************************************************************************)
(* One run of the cache harness over whichever of the nine policies its    *)
(* factory built: the harness's variables and those that are named alike   *)
(* are shared, and only the chosen policy moves.  ARC is built for a       *)
(* smaller cache, so that the keys overflow its directory of twice its     *)
(* size.  The list policies are run with one key fewer than the others.    *)
(***************************************************************************)
EXTENDS CacheHarness

CONSTANTS
    FewKeys,                                        \* the list policies' keys
    ArcCapacity,                                    \* ARC's
    KinSize, KoutSize,                              \* 2Q's
    SmallSize,                                      \* S3-FIFO's
    MaxUses,                                        \* LFU's
    WindowSize, ProtectedSize, SampleLimit,         \* W-TinyLFU's
    MaxCount, Rows, DoorRows, Width,
    k1, k2, k3, k4, k5

VARIABLES
    policy,                                         \* what the factory built
    index, keys, free,                              \* the slot table of three
    recency,                                        \* the policies' own state
    slots, head, length,
    referenced, order, ahead,
    list, visited, hand, cursor,
    a1in, am, a1out, missed,
    lists, target, pending, uses,
    small, main, ghosts, frequency, phase,
    classes,
    window, probation, protected, sketch, doorkeeper, sampled, own

tableVars    == <<index, keys, free>>
fifoVars     == <<slots, head, length>>
clockVars    == <<referenced, order, ahead>>
sieveVars    == <<list, visited, hand, cursor>>
listVars     == <<tableVars, recency, fifoVars, clockVars, sieveVars>>
twoQueueVars == <<a1in, am, a1out, missed>>
arcVars      == <<lists, target, pending, uses>>
s3FifoVars   == <<small, main, ghosts, frequency, phase>>
wTinyLfuVars == <<window, probation, protected, sketch, doorkeeper, sampled, own>>
scanVars     == <<twoQueueVars, arcVars, s3FifoVars, classes, wTinyLfuVars>>

vars == <<harnessVars, policy, listVars, scanVars>>

(* Two rows of two counters: any two of the first four keys share a        *)
(* counter in at most one row, and every counter is shared.                *)
Position ==
    [k \in Keys |->
        CASE k = k1 -> [r \in Rows |-> 0]
          [] k = k2 -> [r \in Rows |-> r]
          [] k = k3 -> [r \in Rows |-> 1 - r]
          [] OTHER  -> [r \in Rows |-> 1]]

LRU   == INSTANCE Lru WITH Keys <- FewKeys
FIFO  == INSTANCE Fifo WITH Keys <- FewKeys
CLOCK == INSTANCE Clock WITH Keys <- FewKeys
SIEVE == INSTANCE Sieve WITH Keys <- FewKeys
Q     == INSTANCE TwoQueue
ARC   == INSTANCE Arc WITH Capacity <- ArcCapacity
S3    == INSTANCE S3Fifo
LFU   == INSTANCE Lfu
TINY  == INSTANCE WTinyLfu

ASSUME PoliciesAreBuilt ==
    /\ FewKeys \subseteq Keys
    /\ ArcCapacity \in Nat \ {0}
    /\ Q!SharesAssumption
    /\ S3!SmallAssumption
    /\ LFU!UsesAssumption
    /\ TINY!SketchAssumption

-----------------------------------------------------------------------------
Init ==
    /\ policy \in {"lru", "fifo", "clock", "sieve", "2q", "arc", "s3_fifo", "lfu", "w_tinylfu"}
    /\ LRU!Init /\ FIFO!Init /\ CLOCK!Init /\ SIEVE!Init
    /\ Q!Init /\ ARC!Init /\ S3!Init /\ LFU!Init /\ TINY!Init

LruMoves ==
    /\ policy = "lru"
    /\ LRU!Next
    /\ UNCHANGED <<policy, fifoVars, clockVars, sieveVars, scanVars>>

FifoMoves ==
    /\ policy = "fifo"
    /\ FIFO!Next
    /\ UNCHANGED <<policy, tableVars, recency, clockVars, sieveVars, scanVars>>

ClockMoves ==
    /\ policy = "clock"
    /\ CLOCK!Next
    /\ UNCHANGED <<policy, recency, fifoVars, sieveVars, scanVars>>

SieveMoves ==
    /\ policy = "sieve"
    /\ SIEVE!Next
    /\ UNCHANGED <<policy, recency, fifoVars, clockVars, scanVars>>

TwoQueueMoves ==
    /\ policy = "2q"
    /\ Q!Next
    /\ UNCHANGED <<policy, listVars, arcVars, s3FifoVars, classes, wTinyLfuVars>>

ArcMoves ==
    /\ policy = "arc"
    /\ ARC!Next
    /\ UNCHANGED <<policy, listVars, twoQueueVars, s3FifoVars, classes, wTinyLfuVars>>

S3FifoMoves ==
    /\ policy = "s3_fifo"
    /\ S3!Next
    /\ UNCHANGED <<policy, listVars, twoQueueVars, arcVars, classes, wTinyLfuVars>>

LfuMoves ==
    /\ policy = "lfu"
    /\ LFU!Next
    /\ UNCHANGED <<policy, listVars, twoQueueVars, arcVars, s3FifoVars, wTinyLfuVars>>

WTinyLfuMoves ==
    /\ policy = "w_tinylfu"
    /\ TINY!Next
    /\ UNCHANGED <<policy, listVars, twoQueueVars, arcVars, s3FifoVars, classes>>

Next ==
    \/ LruMoves \/ FifoMoves \/ ClockMoves \/ SieveMoves
    \/ TwoQueueMoves \/ ArcMoves \/ S3FifoMoves \/ LfuMoves \/ WTinyLfuMoves

(* The turns of one evict() call follow each other without a pause. *)
ClockTurn ==
    /\ policy = "clock"
    /\ CLOCK!Spare \/ CLOCK!Evict
    /\ UNCHANGED <<policy, recency, fifoVars, sieveVars, scanVars>>

SieveTurn ==
    /\ policy = "sieve"
    /\ SIEVE!Spare \/ SIEVE!Evict
    /\ UNCHANGED <<policy, recency, fifoVars, clockVars, scanVars>>

S3FifoTurn ==
    /\ policy = "s3_fifo"
    /\ S3!Evict
    /\ UNCHANGED <<policy, listVars, twoQueueVars, arcVars, classes, wTinyLfuVars>>

Spec ==
    Init /\ [][Next]_vars
         /\ WF_vars(ClockTurn) /\ WF_vars(SieveTurn) /\ WF_vars(S3FifoTurn)

-----------------------------------------------------------------------------
(* No slot is lost or used twice, each key is in one queue, list or class  *)
(* at most, those that hold entries hold exactly what the harness holds,   *)
(* and shares are kept.                                                    *)
TypeOK ==
    CASE policy = "lru"       -> LRU!TypeOK
      [] policy = "fifo"      -> FIFO!TypeOK
      [] policy = "clock"     -> CLOCK!TypeOK
      [] policy = "sieve"     -> SIEVE!TypeOK
      [] policy = "2q"        -> Q!TypeOK
      [] policy = "arc"       -> ARC!TypeOK
      [] policy = "s3_fifo"   -> S3!TypeOK
      [] policy = "lfu"       -> LFU!TypeOK
      [] policy = "w_tinylfu" -> TINY!TypeOK

(* Both directions of the links and both ends spell one list of the slots  *)
(* in use (ilist.c, sieve_unlink), and SIEVE's hand, which outlives the    *)
(* eviction that placed it, never rests on a slot freed or reused since.   *)
LinksAgree ==
    /\ policy = "lru" => LRU!LinksAgree
    /\ policy = "sieve" => SIEVE!LinksAgree /\ SIEVE!HandIsHeld

(* The structure keeps the order its policy promises, and the victim is    *)
(* that order's: LRU the key used longest ago, FIFO the first to arrive,   *)
(* CLOCK and SIEVE a key with no reprieve left, each hit earning just one, *)
(* LFU the least used, among those the one that has been so longest.       *)
ImplementsOrder ==
    /\ LRU!R!Init /\ FIFO!A!Init /\ CLOCK!C!Init /\ SIEVE!C!Init /\ LFU!F!Init
    /\ [][CASE policy = "lru"   -> [LRU!R!Next]_(LRU!R!orderVars)
            [] policy = "fifo"  -> [FIFO!A!Next]_(FIFO!A!orderVars)
            [] policy = "clock" -> [CLOCK!C!Next]_(CLOCK!C!chanceVars)
            [] policy = "sieve" -> [SIEVE!C!Next]_(SIEVE!C!chanceVars)
            [] policy = "lfu"   -> [LFU!F!Next]_(LFU!F!rankedVars)
            [] OTHER            -> TRUE]_vars

(* What tells the two apart: a key CLOCK spares starts a full new          *)
(* lifetime, so it does not leave before everyone who was there has left   *)
(* or been spared in turn; one SIEVE spares does not move, so those that   *)
(* stay keep their order of arrival (clock_evict, sieve_evict).            *)
SparedKeepTheirPlace ==
    [][/\ policy = "clock" => CLOCK!FullLifetime
       /\ policy = "sieve" => SIEVE!NothingMoves]_vars

(* Whatever has been forgotten, halved or shared since, what a policy      *)
(* still holds of a key's past is so: 2Q's Am only keys that missed, fell  *)
(* through A1in and missed again, ARC's lists the keys seen once and those *)
(* seen twice, and W-TinyLFU's sketch never less than a sketch of the      *)
(* key's own would say.                                                    *)
MemoryIsTrue ==
    /\ policy = "2q" => Q!MainIsEarned
    /\ policy = "arc" => ARC!SeenOnceOrTwice
    /\ policy = "w_tinylfu" => TINY!NeverUnderestimates

(* The pools, rings and directories the constructors size are never asked  *)
(* for more: the paper's bounds on ARC's lists, and LFU's class for a      *)
(* promotion that has not released its old one ("ran out of frequency      *)
(* classes, which should be impossible").                                  *)
PoolsSuffice ==
    /\ policy = "arc" => ARC!DirectoryBounds
    /\ policy = "lfu" => LFU!ClassesAscend /\ LFU!PoolsSuffice

(* Every lookup is served and every evict() has someone to name: ARC's     *)
(* victim is waiting exactly when asked for, S3-FIFO's main is never empty *)
(* when it is asked, and W-TinyLFU always has a contest to hold.           *)
AlwaysAnswers ==
    /\ policy = "arc" => ARC!AlwaysAnswers
    /\ policy = "s3_fifo" => S3!MainAnswers
    /\ policy = "w_tinylfu" => TINY!EveryEvictionIsAContest

(* "A scan cannot reach Am at all": however many new keys stream past, 2Q  *)
(* and S3-FIFO never cut main below its share, and W-TinyLFU never evicts  *)
(* a protected key that was not put back on probation first.               *)
ScansStopShort ==
    [][/\ policy = "2q" => Q!MainKeepsItsShare
       /\ policy = "s3_fifo" => S3!MainKeepsItsShare
       /\ policy = "w_tinylfu" => TINY!ProtectedAreSafe]_vars

(* "The hand can pass each entry at most once" (clock_evict), and in main  *)
(* "every pass decrements a counter that a later pass cannot spend again"  *)
(* (s3_fifo evict_from_main): every evict() returns.                       *)
EvictionEnds == OverCapacity /\ policy \in {"clock", "sieve", "s3_fifo"} ~> ~ OverCapacity
=============================================================================
