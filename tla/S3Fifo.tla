------------------------------- MODULE S3Fifo -------------------------------
(***************************************************************************)
(* S3-FIFO: a new key auditions in a small FIFO; used more than once there *)
(* it moves to the main FIFO, else it leaves and its identifier is         *)
(* remembered in a ghost FIFO, from which a returning key enters main      *)
(* directly.  In main a counter grants up to three second chances.  An     *)
(* evict() call is a loop: each turn is a step here, and phase says which  *)
(* queue the loop is in.  The rings and lists of the code are sequences.   *)
(***************************************************************************)
EXTENDS CacheHarness

CONSTANT SmallSize      \* max(1, floor(capacity * smallFraction))

SmallAssumption == SmallSize \in 1 .. Capacity - 1

VARIABLES
    small,      \* first to arrive first
    main,       \* first to arrive, or to be spared, first
    ghosts,     \* latest to fall first
    frequency,  \* the two-bit counter of each resident key
    phase       \* the queue the evict() loop is examining, "idle" outside it

vars == <<harnessVars, small, main, ghosts, frequency, phase>>

-----------------------------------------------------------------------------
MainSize == Capacity - SmallSize

GhostSize == MainSize

MaxFrequency == 3

PromotionThreshold == 1

With(f, k, n) == [x \in DOMAIN f \cup {k} |-> IF x = k THEN n ELSE f[x]]

Without(f, k) == [x \in DOMAIN f \ {k} |-> f[x]]

Init ==
    /\ HarnessInit
    /\ small = <<>>
    /\ main = <<>>
    /\ ghosts = <<>>
    /\ frequency = [k \in {} |-> 0]
    /\ phase = "idle"

(* "The entire hit path": nothing moves. *)
Hit(k) ==
    /\ LookupHits(k)
    /\ k \in DOMAIN frequency
    /\ frequency' = [frequency EXCEPT ![k] = IF @ < MaxFrequency THEN @ + 1 ELSE @]
    /\ UNCHANGED <<small, main, ghosts, phase>>

(* Exactly this ghost; the others keep their order. *)
Forget(k) == Remove(ghosts, k)

(* The key fell out of small and came back. *)
MissGhost(k) ==
    /\ LookupMisses(k)
    /\ k \in Range(ghosts)
    /\ ghosts' = Forget(k)
    /\ main' = Append(main, k)
    /\ frequency' = With(frequency, k, 0)
    /\ UNCHANGED <<small, phase>>

MissNew(k) ==
    /\ LookupMisses(k)
    /\ k \notin Range(ghosts)
    /\ small' = Append(small, k)
    /\ frequency' = With(frequency, k, 0)
    /\ UNCHANGED <<main, ghosts, phase>>

SmallHasItsShare == Len(small) >= SmallSize

EvictCalled ==
    /\ OverCapacity
    /\ phase = "idle"
    /\ phase' = IF SmallHasItsShare THEN "small" ELSE "main"
    /\ UNCHANGED <<harnessVars, small, main, ghosts, frequency>>

PromoteFromSmall ==
    /\ phase = "small"
    /\ small # <<>>
    /\ frequency[Head(small)] > PromotionThreshold
    /\ small' = Tail(small)
    /\ main' = Append(main, Head(small))
    /\ UNCHANGED <<harnessVars, ghosts, frequency, phase>>

(* A full ghost queue forgets its oldest identifier. *)
Remember(k) == <<k>> \o (IF Len(ghosts) = GhostSize THEN Front(ghosts) ELSE ghosts)

EvictFromSmall ==
    /\ phase = "small"
    /\ small # <<>>
    /\ frequency[Head(small)] <= PromotionThreshold
    /\ Discard(Head(small))
    /\ small' = Tail(small)
    /\ ghosts' = Remember(Head(small))
    /\ frequency' = Without(frequency, Head(small))
    /\ phase' = "idle"
    /\ UNCHANGED main

(* Everything in small was promoted: main is asked after all. *)
SmallDrained ==
    /\ phase = "small"
    /\ small = <<>>
    /\ phase' = "main"
    /\ UNCHANGED <<harnessVars, small, main, ghosts, frequency>>

(* mutant of SpareInMain: the chance is not spent *)
SpareInMainForFree ==
    /\ phase = "main"
    /\ main # <<>>
    /\ frequency[Head(main)] > 0
    /\ main' = Append(Tail(main), Head(main))
    /\ UNCHANGED <<harnessVars, small, ghosts, frequency, phase>>

SpareInMain ==
    /\ phase = "main"
    /\ main # <<>>
    /\ frequency[Head(main)] > 0
    /\ main' = Append(Tail(main), Head(main))
    /\ frequency' = [frequency EXCEPT ![Head(main)] = @ - 1]
    /\ UNCHANGED <<harnessVars, small, ghosts, phase>>

EvictFromMain ==
    /\ phase = "main"
    /\ main # <<>>
    /\ frequency[Head(main)] = 0
    /\ Discard(Head(main))
    /\ main' = Tail(main)
    /\ frequency' = Without(frequency, Head(main))
    /\ phase' = "idle"
    /\ UNCHANGED <<small, ghosts>>

(* The turns of one evict() call.  The code's last resort, back to small   *)
(* when main is empty, is no action: MainAnswers shows it is never taken.  *)
Evict ==
    \/ EvictCalled
    \/ PromoteFromSmall
    \/ EvictFromSmall
    \/ SmallDrained
    \/ SpareInMain
    \/ EvictFromMain

Next == (\E k \in Keys : Hit(k) \/ MissGhost(k) \/ MissNew(k)) \/ Evict

Spec == Init /\ [][Next]_vars

-----------------------------------------------------------------------------
(* A key is in at most one of the three queues; the two that hold entries  *)
(* hold exactly what the harness holds, and each of those has a counter.   *)
TypeOK ==
    /\ HarnessTypeOK
    /\ phase \in {"idle", "small", "main"}
    /\ IsInjective(small \o main \o ghosts)
    /\ Range(small) \cup Range(main) = resident
    /\ Len(ghosts) <= GhostSize
    /\ frequency \in [resident -> 0 .. MaxFrequency]

(* evict() never reaches "fall back to the small one however short it is", *)
(* nor "nothing resident": when main is asked it has something to give.    *)
MainAnswers == phase = "main" => main # <<>>

(* An entry that has not proven reuse is always the better victim: main is *)
(* only ever cut back towards its share, never below it, however many new  *)
(* keys stream past.                                                       *)
MainKeepsItsShare ==
    Len(main') < Len(main) => Len(main') >= MainSize
=============================================================================
