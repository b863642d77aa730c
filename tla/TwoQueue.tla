------------------------------ MODULE TwoQueue ------------------------------
(***************************************************************************)
(* 2Q: a new key auditions in A1in, a FIFO; its identifier is remembered   *)
(* in A1out, a ghost FIFO, when it leaves; and only a key that comes back  *)
(* while its ghost is there enters Am, the main LRU.  The rings and linked *)
(* lists of the code are sequences of keys here.                           *)
(***************************************************************************)
EXTENDS CacheHarness

CONSTANTS
    KinSize,    \* A1in's share: max(1, floor(capacity * kin))
    KoutSize    \* the ghosts remembered: max(1, floor(capacity * kout))

SharesAssumption == KinSize \in 1..Capacity /\ KoutSize \in 1..Capacity

VARIABLES
    a1in,       \* first to arrive first
    am,         \* most recently used first
    a1out,      \* latest to fall first
    missed      \* history: per key, its misses so far, at most two counted

vars == <<harnessVars, a1in, am, a1out, missed>>

-----------------------------------------------------------------------------
Init ==
    /\ HarnessInit
    /\ a1in = <<>>
    /\ am = <<>>
    /\ a1out = <<>>
    /\ missed = [k \in Keys |-> 0]

(* A full A1out forgets its oldest identifier. *)
Remember(k) == <<k>> \o (IF Len(a1out) = KoutSize THEN Front(a1out) ELSE a1out)

(* Exactly this ghost; the others keep their order. *)
Forget(k) == Remove(a1out, k)

MoveToMainHead(k) == <<k>> \o Remove(am, k)

(* A hit in A1in does nothing at all: the key has not earned promotion. *)
HitAdmission(k) ==
    /\ LookupHits(k)
    /\ k \in Range(a1in)
    /\ UNCHANGED <<a1in, am, a1out, missed>>

HitMain(k) ==
    /\ LookupHits(k)
    /\ k \in Range(am)
    /\ am' = MoveToMainHead(k)
    /\ UNCHANGED <<a1in, a1out, missed>>

CountMiss(k) ==
    missed' = [missed EXCEPT ![k] = IF @ < 2 THEN @ + 1 ELSE @]

(* Back while its ghost is remembered. *)
MissGhost(k) ==
    /\ LookupMisses(k)
    /\ k \in Range(a1out)
    /\ a1out' = Forget(k)
    /\ am' = <<k>> \o am
    /\ CountMiss(k)
    /\ UNCHANGED a1in

MissNew(k) ==
    /\ LookupMisses(k)
    /\ k \notin Range(a1out)
    /\ a1in' = Append(a1in, k)
    /\ CountMiss(k)
    /\ UNCHANGED <<am, a1out>>

(* mutant of TakeFromAdmission: A1in is asked only at its share, not over *)
TakeFromAdmissionLate ==
    a1in # <<>> /\ (Len(a1in) > KinSize + 1 \/ am = <<>>)

(* A1in gives up a key while it is over its share, or if Am has nothing. *)
TakeFromAdmission ==
    a1in # <<>> /\ (Len(a1in) > KinSize \/ am = <<>>)

EvictAdmission ==
    /\ TakeFromAdmission
    /\ Discard(Head(a1in))
    /\ a1in' = Tail(a1in)
    /\ a1out' = Remember(Head(a1in))
    /\ UNCHANGED <<am, missed>>

EvictMain ==
    /\ ~ TakeFromAdmission
    /\ am # <<>>
    /\ Discard(Last(am))
    /\ am' = Front(am)
    /\ UNCHANGED <<a1in, a1out, missed>>

Next ==
    \/ \E k \in Keys : HitAdmission(k) \/ HitMain(k) \/ MissGhost(k) \/ MissNew(k)
    \/ EvictAdmission
    \/ EvictMain

Spec == Init /\ [][Next]_vars

-----------------------------------------------------------------------------
(* A key is in at most one of the three queues, and the two that hold      *)
(* values hold exactly what the harness holds.                             *)
TypeOK ==
    /\ HarnessTypeOK
    /\ missed \in [Keys -> 0..2]
    /\ IsInjective(a1in \o am \o a1out)
    /\ Range(a1in) \cup Range(am) = resident
    /\ Range(a1out) \subseteq Keys \ resident
    /\ Len(a1out) <= KoutSize

(* "A scan cannot reach Am at all": every key in Am missed, fell through   *)
(* A1in, and missed again; one pass of keys, however often each is hit     *)
(* while it is in A1in, leaves Am alone.                                   *)
MainIsEarned == \A k \in Range(am) : missed[k] = 2

(* Nor, of a step, does a scan wear Am down: it never gives up an entry that would     *)
(* leave it less than everything beyond A1in's share.                      *)
MainKeepsItsShare ==
    Len(am') < Len(am) => Len(am') >= Capacity - KinSize
=============================================================================
