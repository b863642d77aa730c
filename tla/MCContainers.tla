---------------------------- MODULE MCContainers ----------------------------
(***************************************************************************)
(* Instances of the containers, one of them at a time: a few keys into a   *)
(* map of four slots; a ring of three slots; a heap that reaches its third *)
(* level.  Keys of the map are only ever compared, so of the hashes that   *)
(* differ by a renaming one is enough.                                     *)
(***************************************************************************)
EXTENDS OpenMap, Containers

CONSTANTS k1, k2, k3, k4, k5, v1, v2

VARIABLE subject    \* the container that is used

allVars == <<subject, vars, containerVars>>

KeySeq == <<k1, k2, k3, k4, k5>>

FiveKeys == Range(KeySeq)

(* Entries differ in their values; one of them can be updated. *)
Values1or2 == [k \in FiveKeys |-> CASE k = k3 -> {v1, v2} [] k = k5 -> {v2} [] OTHER -> {v1}]

SortedHash == \A i, j \in DOMAIN KeySeq : i < j => hash[KeySeq[i]] <= hash[KeySeq[j]]

UseMap == subject = "map" /\ Next /\ UNCHANGED <<subject, containerVars>>

UseRing == subject = "ring" /\ RingNext /\ UNCHANGED <<subject, vars>>

UseHeap == subject = "heap" /\ HeapNext /\ UNCHANGED <<subject, vars>>

MCInit ==
    /\ subject \in {"map", "ring", "heap"}
    /\ Init /\ SortedHash
    /\ subject # "map" => hash = [k \in Keys |-> 0]
    /\ ContainersInit

MCSpec ==
    /\ MCInit /\ [][UseMap \/ UseRing \/ UseHeap]_allVars
    /\ WF_allVars(Proceed /\ UNCHANGED <<subject, containerVars>>)
=============================================================================
