----------------------------- MODULE Containers -----------------------------
(***************************************************************************)
(* Two more of the fixed containers the C policies are built from: the     *)
(* ring of ds/ring.c and the 4-ary heap of ds/heap.c.  Each call runs to   *)
(* its end; what a call answers is in `reply`.                             *)
(***************************************************************************)
EXTENDS Integers, Sequences, FiniteSets

CONSTANTS
    RingCapacity,
    RingValues,
    HeapCapacity,
    HeapKeys,
    HeapItems,
    Word            \* what the counters of both are computed modulo, 2^32

(* Sizes at which no index wraps: twice the ring and five times the heap.  *)
ASSUME ContainersAssumption ==
    /\ RingCapacity \in Nat \ {0} /\ HeapCapacity \in Nat \ {0}
    /\ RingValues \subseteq 0..(Word - 2)
    /\ HeapKeys \subseteq Nat /\ HeapItems \subseteq Nat
    /\ Word \in Nat /\ 2 * RingCapacity <= Word /\ 5 * HeapCapacity <= Word

VARIABLES
    ring,       \* [slots, head, length]
    ringReply,  \* what its last call was asked and said: [op, given, ok, value]
    heap,       \* the pairs in use, at indices 0, 1, ...
    heapReply   \* the same, of pairs

ringVars == <<ring, ringReply>>

heapVars == <<heap, heapReply>>

containerVars == <<ringVars, heapVars>>

Unset == -1         \* a slot nothing was written to

Nil == Word - 1     \* PB_RING_NIL, 0xFFFFFFFF

Reply(op, given, ok, value) == [op |-> op, given |-> given, ok |-> ok, value |-> value]

-----------------------------------------------------------------------------
RingSlots == 0..(RingCapacity - 1)

EmptyRing == [slots |-> [s \in RingSlots |-> Unset], head |-> 0, length |-> 0]

(* mutant of RingPlace: counted from the first slot, not from the head *)
RingPlaceFromStart(offset) == offset % RingCapacity

(* Where the value so far from the front is, or goes. *)
RingPlace(offset) ==
    LET i == (ring.head + offset) % Word
    IN  IF i >= RingCapacity THEN i - RingCapacity ELSE i

PushBack ==
    \E v \in RingValues :
        IF ring.length >= RingCapacity
        THEN UNCHANGED ring /\ ringReply' = Reply("push_back", v, FALSE, Nil)
        ELSE /\ ring' = [ring EXCEPT !.slots[RingPlace(ring.length)] = v, !.length = @ + 1]
             /\ ringReply' = Reply("push_back", v, TRUE, Nil)

PopFront ==
    IF ring.length = 0
    THEN UNCHANGED ring /\ ringReply' = Reply("pop_front", Nil, FALSE, Nil)
    ELSE /\ ring' = [ring EXCEPT !.head = IF @ + 1 >= RingCapacity THEN 0 ELSE @ + 1,
                                 !.length = @ - 1]
         /\ ringReply' = Reply("pop_front", Nil, TRUE, ring.slots[ring.head])

PeekFront ==
    /\ UNCHANGED ring
    /\ ringReply' =
          IF ring.length = 0 THEN Reply("peek_front", Nil, FALSE, Nil)
          ELSE Reply("peek_front", Nil, TRUE, ring.slots[ring.head])

RingAt ==
    \E offset \in 0..RingCapacity :
        /\ UNCHANGED ring
        /\ ringReply' =
              IF offset >= ring.length THEN Reply("at", offset, FALSE, Nil)
              ELSE Reply("at", offset, TRUE, ring.slots[RingPlace(offset)])

ClearRing ==
    /\ ring' = [ring EXCEPT !.head = 0, !.length = 0]
    /\ ringReply' = Reply("clear", Nil, TRUE, Nil)

RingNext ==
    /\ PushBack \/ PopFront \/ PeekFront \/ RingAt \/ ClearRing
    /\ UNCHANGED heapVars

-----------------------------------------------------------------------------
Arity == 4

Pairs == [key : HeapKeys, item : HeapItems]

NoPair == [key |-> Nil, item |-> Nil]

(* A total order: equal keys by the lower item. *)
Less(a, b) == a.key < b.key \/ (a.key = b.key /\ a.item < b.item)

(* From an index to the root. *)
Parent(i) == (i - 1) \div Arity

(* The pair at an index, lifted past every parent it sorts before.         *)
SiftUp(pairs, index) ==
    LET sift[p \in [DOMAIN pairs -> Pairs], i \in DOMAIN pairs] ==
            IF i > 0 /\ Less(p[i], p[Parent(i)])
            THEN sift[[p EXCEPT ![i] = p[Parent(i)], ![Parent(i)] = p[i]], Parent(i)]
            ELSE p
    IN  sift[pairs, index]

(* mutant of Children: the last one is never looked at *)
ChildrenButLast(i, size) ==
    LET first == (i * Arity + 1) % Word
    IN  {c \in first..(first + Arity - 2) : c < size}

Children(i, size) ==
    LET first == (i * Arity + 1) % Word
    IN  {c \in first..(first + Arity - 1) : c < size}

(* The child a pair may have to make way for: of equals, the first. *)
Best(pairs, children) ==
    CHOOSE c \in children :
        \A d \in children \ {c} : Less(pairs[c], pairs[d]) \/ (pairs[c] = pairs[d] /\ c < d)

(* The pair at an index, sunk past the least of its children until none    *)
(* sorts before it.                                                        *)
SiftDown(pairs, index) ==
    LET sift[p \in [DOMAIN pairs -> Pairs], i \in DOMAIN pairs] ==
            LET under == Children(i, Cardinality(DOMAIN pairs))
                best  == Best(p, under)
            IN  IF under # {} /\ Less(p[best], p[i])
                THEN sift[[p EXCEPT ![i] = p[best], ![best] = p[i]], best]
                ELSE p
    IN  sift[pairs, index]

EmptyHeap == [i \in {} |-> 0]

Size == Cardinality(DOMAIN heap)

Push ==
    \E p \in Pairs :
        IF Size >= HeapCapacity
        THEN UNCHANGED heap /\ heapReply' = Reply("push", p, FALSE, NoPair)
        ELSE /\ heap' = SiftUp([i \in 0..Size |-> IF i = Size THEN p ELSE heap[i]], Size)
             /\ heapReply' = Reply("push", p, TRUE, NoPair)

PeekMin ==
    /\ UNCHANGED heap
    /\ heapReply' =
          IF Size = 0 THEN Reply("peek_min", NoPair, FALSE, NoPair)
          ELSE Reply("peek_min", NoPair, TRUE, heap[0])

(* The last pair takes the root's place. *)
PopMin ==
    IF Size = 0
    THEN UNCHANGED heap /\ heapReply' = Reply("pop_min", NoPair, FALSE, NoPair)
    ELSE LET rest == [i \in 0..(Size - 2) |-> IF i = 0 THEN heap[Size - 1] ELSE heap[i]]
         IN  /\ heap' = IF Size = 1 THEN EmptyHeap ELSE SiftDown(rest, 0)
             /\ heapReply' = Reply("pop_min", NoPair, TRUE, heap[0])

ClearHeap == heap' = EmptyHeap /\ heapReply' = Reply("clear", NoPair, TRUE, NoPair)

HeapNext ==
    /\ Push \/ PeekMin \/ PopMin \/ ClearHeap
    /\ UNCHANGED ringVars

-----------------------------------------------------------------------------
ContainersInit ==
    /\ ring = EmptyRing /\ ringReply = Reply("init", Nil, TRUE, Nil)
    /\ heap = EmptyHeap /\ heapReply = Reply("init", NoPair, TRUE, NoPair)

ContainersNext == RingNext \/ HeapNext

ContainersSpec == ContainersInit /\ [][ContainersNext]_containerVars

-----------------------------------------------------------------------------
(* The slot of the j-th value: past the last slot comes the first. *)
PlaceIn(r, j) ==
    IF r.head + j - 1 < RingCapacity THEN r.head + j - 1
                                     ELSE r.head + j - 1 - RingCapacity

(* The values in a ring, from the front, wherever the head has got to. *)
QueueIn(r) == [j \in 1..r.length |-> r.slots[PlaceIn(r, j)]]

Queued == QueueIn(ring)

RingStep ==
    LET call == ringReply' IN
    /\ call.op = "push_back" =>
          /\ call.ok <=> Len(Queued) < RingCapacity
          /\ Queued' = IF call.ok THEN Append(Queued, call.given) ELSE Queued
    /\ call.op \in {"pop_front", "peek_front"} =>
          /\ call.ok <=> Queued # <<>>
          /\ call.ok => call.value = Head(Queued)
          /\ Queued' = IF call.ok /\ call.op = "pop_front" THEN Tail(Queued) ELSE Queued
    /\ call.op = "at" =>
          /\ call.ok <=> call.given < Len(Queued)
          /\ call.ok => call.value = Queued[call.given + 1]
          /\ Queued' = Queued
    /\ call.op = "clear" => Queued' = <<>>

(* The ring is a queue of at most RingCapacity values: each push goes      *)
(* behind everything pushed before it, each pop takes what was pushed      *)
(* first and a full ring refuses, however far the head has wandered round  *)
(* (ring.h:25-44, pb_ring_push_back and pb_ring_pop_front).                *)
RingServes == [][RingStep]_ringVars

Copies(pairs, p) == Cardinality({i \in DOMAIN pairs : pairs[i] = p})

(* One copy of a pair more, and every other as many times as before. *)
Gains(before, after, pair) ==
    \A p \in Pairs : Copies(after, p) = Copies(before, p) + (IF p = pair THEN 1 ELSE 0)

HeapStep ==
    LET call == heapReply' IN
    /\ call.op = "push" =>
          /\ call.ok <=> Size < HeapCapacity
          /\ IF call.ok THEN Gains(heap, heap', call.given) ELSE UNCHANGED heap
    /\ call.op \in {"pop_min", "peek_min"} =>
          /\ call.ok <=> Size > 0
          /\ call.ok => \A i \in DOMAIN heap : ~Less(heap[i], call.value)
          /\ IF call.ok /\ call.op = "pop_min" THEN Gains(heap', heap, call.value)
                                               ELSE UNCHANGED heap
    /\ call.op = "clear" => Size' = 0

(* The heap is a queue by priority: every pop takes a least pair of those  *)
(* pushed and not yet taken, ties by the lower item, and no sift loses or  *)
(* repeats a pair at whatever depth it stops (heap.h:11-14, heap.c:18-76). *)
HeapServes == [][HeapStep]_heapVars
=============================================================================
