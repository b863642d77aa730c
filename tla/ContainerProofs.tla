-------------------------- MODULE ContainerProofs ---------------------------
(***************************************************************************)
(* The hash map is an index, for every hash, every capacity and every set  *)
(* of keys and values; the ring is a queue, for every capacity.            *)
(***************************************************************************)
EXTENDS OpenMap, Containers, FiniteSetTheorems, SequenceTheorems, TLAPS

(* How many probes it takes from one slot to another.                      *)
Dist(a, b) == IF b >= a THEN b - a ELSE b - a + Capacity

(* The same, where coming back to the slot itself takes a whole round.     *)
Round(a, b) == IF a = b THEN Capacity ELSE Dist(a, b)

(* The slots a probe for a key passes on its way to a slot.                *)
Passed(k, s) == {t \in Slots : Dist(hash[k], t) < Dist(hash[k], s)}

Entries == [key : Keys, value : UNION {Values[k] : k \in Keys}]

Calls ==
    {Idle} \cup [op : {"get", "remove"}, key : Keys, value : {"none"}, at : Slots, probes : Nat]
          \cup [op : {"put"}, key : Keys, value : UNION {Values[k] : k \in Keys}, at : Slots,
                probes : Nat]
          \cup [op : {"shift"}, hole : Slots, at : Slots]

MapTypeOK ==
    /\ hash \in [Keys -> Slots]
    /\ slots \in [Slots -> Entries \cup {Empty}]
    /\ call \in Calls

(* The count is the number of entries, and no two are of one key.          *)
Counted ==
    /\ count = Cardinality(Occupied)
    /\ \A s, t \in Occupied : slots[s].key = slots[t].key => s = t

(* Unless a deletion is under way, every entry is found by its own probe.  *)
Reachable ==
    call.op # "shift" => \A s \in Occupied : Passed(slots[s].key, s) \subseteq Occupied

(* A search has met other keys only, and a put knows how many.             *)
Searching ==
    call.op \in {"get", "put", "remove"} =>
        /\ \A t \in Passed(call.key, call.at) : t \in Occupied /\ slots[t].key # call.key
        /\ call.op = "put" =>
            /\ call.probes = Dist(hash[call.key], call.at)
            /\ call.key \in HeldKeys \/ count < MaxEntries \/ count = Capacity

(* While a deletion mends the table, every entry is found but for the      *)
(* hole, and those between the hole and the walk do not need it.           *)
Mending ==
    call.op = "shift" =>
        /\ call.hole \notin Occupied
        /\ \A s \in Occupied : Passed(slots[s].key, s) \subseteq Occupied \cup {call.hole}
        /\ \A t \in Slots \ {call.hole} : Dist(call.hole, t) < Round(call.hole, call.at) =>
                t \in Occupied /\ call.hole \notin Passed(slots[t].key, t)

(* The inductive invariant. *)
MapInv == MapTypeOK /\ Counted /\ Reachable /\ Searching /\ Mending

-----------------------------------------------------------------------------
(* Positions on the ring of slots. *)

(* Slots are numbers. *)
LEMMA SlotsAreNumbers ==
    /\ Capacity \in Nat /\ Capacity > 0
    /\ \A s \in Slots : s \in Nat /\ s < Capacity
    /\ \A n \in Nat : n < Capacity => n \in Slots
BY MapAssumption DEF Slots

(* What the code's arithmetic modulo the capacity comes to.                *)
LEMMA DistIsModulo ==
    ASSUME NEW a \in Slots, NEW b \in Slots
    PROVE  (b - a) % Capacity = Dist(a, b)
<1>1. /\ Capacity \in Nat /\ Capacity > 0 /\ a \in Nat /\ a < Capacity
      /\ b \in Nat /\ b < Capacity
    BY SlotsAreNumbers
<1>2. CASE b >= a
    <2>1. b - a \in Nat /\ b - a < Capacity
        BY <1>1, <1>2
    <2>2. (b - a) % Capacity = b - a
        BY <1>1, <2>1
    <2>3. QED
        BY <1>2, <2>2 DEF Dist
<1>3. CASE b < a
    <2>1. b - a + Capacity \in Nat /\ b - a + Capacity < Capacity
        BY <1>1, <1>3
    <2>2. (b - a) % Capacity = b - a + Capacity
        BY <1>1, <2>1
    <2>3. QED
        BY <1>1, <1>3, <2>2 DEF Dist
<1>4. QED
    BY <1>1, <1>2, <1>3

(* The next slot. *)
LEMMA AfterIs ==
    ASSUME NEW s \in Slots
    PROVE  After(s) \in Slots /\ After(s) = IF s + 1 = Capacity THEN 0 ELSE s + 1
<1>1. Capacity \in Nat /\ Capacity > 0 /\ s \in Nat /\ s < Capacity
    BY SlotsAreNumbers
<1>2. CASE s + 1 = Capacity
    BY <1>1, <1>2, SlotsAreNumbers DEF After
<1>3. CASE s + 1 # Capacity
    <2>1. s + 1 \in Nat /\ s + 1 < Capacity
        BY <1>1, <1>3
    <2>2. (s + 1) % Capacity = s + 1
        BY <1>1, <2>1
    <2>3. QED
        BY <1>3, <2>1, <2>2, SlotsAreNumbers DEF After
<1>4. QED
    BY <1>2, <1>3

(* Distances are numbers below the capacity, and tell slots apart.         *)
LEMMA DistIs ==
    ASSUME NEW a \in Slots, NEW b \in Slots
    PROVE  /\ Dist(a, b) \in Nat /\ Dist(a, b) < Capacity
           /\ Dist(a, b) = 0 <=> a = b
           /\ \A c \in Slots : Dist(a, b) = Dist(a, c) => b = c
           /\ Round(a, b) \in Nat /\ Round(a, b) > 0 /\ Round(a, b) <= Capacity
BY SlotsAreNumbers DEF Dist, Round

(* One probe on, the distance is one more, or the round is complete.       *)
LEMMA DistAfter ==
    ASSUME NEW a \in Slots, NEW b \in Slots
    PROVE  /\ Round(a, After(b)) = Dist(a, b) + 1
           /\ Dist(a, After(b)) = IF Dist(a, b) + 1 = Capacity THEN 0 ELSE Dist(a, b) + 1
BY SlotsAreNumbers, AfterIs DEF Dist, Round

(* What lies beyond a passed slot, before the goal, is passed as well.     *)
LEMMA PassedOn ==
    ASSUME NEW i \in Slots, NEW h \in Slots, NEW a \in Slots, NEW s \in Slots,
           Dist(i, h) < Dist(i, s), Dist(h, a) < Dist(h, s)
    PROVE  Dist(i, a) < Dist(i, s)
BY SlotsAreNumbers DEF Dist

(* The comparison of three positions asks whether the hole is passed.      *)
LEMMA MayMoveBackIs ==
    ASSUME NEW i \in Slots, NEW h \in Slots, NEW p \in Slots, h # p
    PROVE  MayMoveBack(i, h, p) <=> Dist(i, h) < Dist(i, p)
BY SlotsAreNumbers DEF Dist, MayMoveBack

-----------------------------------------------------------------------------
(* The calls of the map. *)

(* An entry is of a key, and an empty slot of none.                        *)
LEMMA EntryAt ==
    ASSUME MapTypeOK
    PROVE  /\ IsFiniteSet(Occupied)
           /\ Occupied \subseteq Slots
           /\ \A s \in Slots : s \in Occupied <=> slots[s] # Empty
           /\ \A s \in Occupied : slots[s] \in Entries /\ slots[s].key \in Keys
           /\ \A s \in Occupied : hash[slots[s].key] \in Slots
           /\ \A s \in Slots : slots[s].key \in Keys => s \in Occupied
<1>1. IsFiniteSet(Slots)
    BY SlotsAreNumbers, FS_Interval DEF Slots
<1>2. Occupied \subseteq Slots
    BY DEF Occupied
<1>3. IsFiniteSet(Occupied)
    BY <1>1, <1>2, FS_Subset
<1>4. \A s \in Slots : s \in Occupied <=> slots[s] # Empty
    BY DEF Occupied
<1>5. \A s \in Occupied : slots[s] \in Entries /\ slots[s].key \in Keys
    BY <1>2, <1>4 DEF MapTypeOK, Entries
<1>6. \A s \in Slots : slots[s].key \in Keys => s \in Occupied
    BY <1>4, MapAssumption DEF Empty
<1>7. QED
    BY <1>2, <1>3, <1>4, <1>5, <1>6 DEF MapTypeOK

(* The slot a search or a walk has come to.                                *)
LEMMA CallAt ==
    ASSUME MapTypeOK, call # Idle
    PROVE  /\ call.at \in Slots
           /\ call.op = "shift" => call \in [op : {"shift"}, hole : Slots, at : Slots]
           /\ call.op \in {"get", "remove"} =>
                call \in [op : {"get", "remove"}, key : Keys, value : {"none"}, at : Slots,
                          probes : Nat]
           /\ call.op = "put" =>
                call \in [op : {"put"}, key : Keys, value : UNION {Values[k] : k \in Keys},
                          at : Slots, probes : Nat]
           /\ call.op \in {"get", "remove", "put", "shift"}
BY DEF MapTypeOK, Calls

(* A call that has not begun is not a search.                              *)
LEMMA IdleIs == Idle.op = "idle" /\ Idle \in Calls
BY DEF Idle, Calls

(* A new call starts at its key's own slot.                                *)
LEMMA CallKeeps ==
    ASSUME MapInv, NEW k \in Keys, NEW op, NEW v, Call(op, k, v),
           \/ op \in {"get", "remove"} /\ v = "none"
           \/ op = "put" /\ v \in Values[k] /\ (k \in HeldKeys \/ count < MaxEntries \/ count = Capacity)
    PROVE  MapInv'
<1>1. /\ call = Idle
      /\ call' = [op |-> op, key |-> k, value |-> v, at |-> hash[k], probes |-> 0]
      /\ UNCHANGED <<hash, slots, count>>
    BY DEF Call
<1>2. hash[k] \in Slots
    BY DEF MapInv, MapTypeOK
<1>3. Occupied' = Occupied /\ HeldKeys' = HeldKeys
    BY <1>1 DEF Occupied, HeldKeys
<1>4. MapTypeOK'
    <2>1. call' \in Calls
        BY <1>1, <1>2 DEF Calls
    <2>2. QED
        BY <1>1, <2>1 DEF MapInv, MapTypeOK
<1>5. Counted'
    BY <1>1, <1>3 DEF MapInv, Counted
<1>6. call.op # "shift" /\ call'.op # "shift"
    BY <1>1, IdleIs
<1>7. Reachable'
    BY <1>1, <1>3, <1>6 DEF MapInv, Reachable, Passed
<1>8. Dist(hash[k], hash[k]) = 0
    BY <1>2, DistIs
<1>9. Passed(k, hash[k]) = {}
    BY <1>2, <1>8, DistIs DEF Passed
<1>10. Searching'
    BY <1>1, <1>3, <1>8, <1>9 DEF Searching, Passed
<1>11. Mending'
    BY <1>6 DEF Mending
<1>12. QED
    BY <1>4, <1>5, <1>7, <1>10, <1>11 DEF MapInv

(* An answer that leaves the table as it was.                              *)
LEMMA ReturnKeeps ==
    ASSUME MapInv, call.op # "shift", call' = Idle, UNCHANGED <<hash, slots, count>>
    PROVE  MapInv'
<1>1. Occupied' = Occupied /\ HeldKeys' = HeldKeys
    BY DEF Occupied, HeldKeys
<1>2. MapTypeOK' /\ Counted'
    BY <1>1, IdleIs DEF MapInv, MapTypeOK, Counted
<1>3. Reachable'
    BY <1>1 DEF MapInv, Reachable, Passed
<1>4. Searching' /\ Mending'
    BY IdleIs DEF Searching, Mending
<1>5. QED
    BY <1>2, <1>3, <1>4 DEF MapInv

(* Clear: nothing is left to be found.                                     *)
LEMMA ClearKeeps ==
    ASSUME MapInv, Clear
    PROVE  MapInv'
<1>1. /\ call' = Idle /\ slots' = [s \in Slots |-> Empty] /\ count' = 0 /\ hash' = hash
    BY DEF Clear
<1>2. Occupied' = {}
    BY <1>1 DEF Occupied
<1>3. MapTypeOK'
    BY <1>1, IdleIs DEF MapInv, MapTypeOK
<1>4. Counted'
    BY <1>1, <1>2, FS_EmptySet DEF Counted
<1>5. Reachable' /\ Searching' /\ Mending'
    BY <1>1, <1>2, IdleIs DEF Reachable, Searching, Mending
<1>6. QED
    BY <1>3, <1>4, <1>5 DEF MapInv

(* A search that moves is a search. *)
LEMMA SearchMoves ==
    ASSUME NEW O, NEW K, NEW V, NEW S,
           NEW c \in [op : O, key : K, value : V, at : S, probes : Nat],
           NEW a \in S, NEW n \in Nat
    PROVE  [c EXCEPT !.at = a, !.probes = n]
                \in [op : O, key : K, value : V, at : S, probes : Nat]
OBVIOUS

(* A step of a search: one more key that is another.                       *)
LEMMA WalkKeeps ==
    ASSUME MapInv, Walk
    PROVE  MapInv'
<1>1. /\ call.op \in {"get", "put", "remove"} /\ Here # Empty /\ Here.key # call.key
      /\ call.op = "put" => call.probes + 1 < Capacity
      /\ call' = [call EXCEPT !.at = After(@), !.probes = IF call.op = "put" THEN @ + 1 ELSE @]
      /\ UNCHANGED <<hash, slots, count>>
    BY DEF Walk
<1>2. call # Idle
    BY <1>1, IdleIs
<1>3. call.at \in Slots /\ call.key \in Keys /\ call.probes \in Nat
    BY <1>1, <1>2, CallAt DEF MapInv
<1>4. /\ call'.op = call.op /\ call'.key = call.key /\ call'.at = After(call.at)
      /\ call'.probes = IF call.op = "put" THEN call.probes + 1 ELSE call.probes
      /\ call' \in Calls
    <2>1. After(call.at) \in Slots
        BY <1>3, AfterIs
    <2>2. CASE call.op = "put"
        <3> DEFINE V == UNION {Values[k] : k \in Keys}
                   P == [op : {"put"}, key : Keys, value : V, at : Slots, probes : Nat]
        <3>1. call \in P
            BY <1>2, <2>2, CallAt DEF MapInv
        <3> HIDE DEF V
        <3>2. /\ call' = [call EXCEPT !.at = After(call.at), !.probes = call.probes + 1]
              /\ call.probes + 1 \in Nat
            BY <1>1, <1>3, <2>2
        <3>3. call' \in P
            BY <1>3, <2>1, <3>1, <3>2, SearchMoves
        <3>4. call' \in Calls
            BY <3>3 DEF V, Calls
        <3>5. QED
            BY <2>2, <3>1, <3>2, <3>4
    <2>3. CASE call.op \in {"get", "remove"}
        BY <1>1, <1>2, <1>3, <2>1, <2>3, CallAt DEF MapInv, Calls
    <2>4. QED
        BY <1>1, <2>2, <2>3
<1>5. Occupied' = Occupied /\ HeldKeys' = HeldKeys
    BY <1>1 DEF Occupied, HeldKeys
<1>6. MapTypeOK' /\ Counted'
    BY <1>1, <1>4, <1>5 DEF MapInv, MapTypeOK, Counted
<1>7. Reachable'
    BY <1>1, <1>4, <1>5 DEF MapInv, Reachable, Passed
<1>8. hash[call.key] \in Slots
    BY <1>3 DEF MapInv, MapTypeOK
<1>9. /\ Dist(hash[call.key], call.at) \in Nat
      /\ Dist(hash[call.key], After(call.at)) =
            IF Dist(hash[call.key], call.at) + 1 = Capacity THEN 0
            ELSE Dist(hash[call.key], call.at) + 1
    BY <1>3, <1>8, DistIs, DistAfter
<1>10. ASSUME NEW t \in Slots, Dist(hash[call.key], t) < Dist(hash[call.key], After(call.at))
       PROVE  t \in Occupied /\ slots[t].key # call.key
    <2>1. Dist(hash[call.key], t) \in Nat
        BY <1>8, DistIs
    <2>2. \/ Dist(hash[call.key], t) < Dist(hash[call.key], call.at)
          \/ Dist(hash[call.key], t) = Dist(hash[call.key], call.at)
        BY <1>9, <1>10, <2>1
    <2>3. CASE Dist(hash[call.key], t) < Dist(hash[call.key], call.at)
        BY <1>1, <2>3 DEF MapInv, Searching, Passed
    <2>4. CASE Dist(hash[call.key], t) = Dist(hash[call.key], call.at)
        <3>1. t = call.at
            BY <1>3, <1>8, <2>4, DistIs
        <3>2. QED
            BY <1>1, <1>3, <3>1, EntryAt DEF MapInv, Here
    <2>5. QED
        BY <2>2, <2>3, <2>4
<1>11. call.op = "put" => call.probes + 1 = Dist(hash[call.key], After(call.at))
    <2>1. call.op = "put" => call.probes = Dist(hash[call.key], call.at)
        BY DEF MapInv, Searching
    <2>2. QED
        BY <1>1, <1>9, <2>1, SlotsAreNumbers
<1>12. Searching'
    <2>1. call.op = "put" => call.key \in HeldKeys \/ count < MaxEntries \/ count = Capacity
        BY DEF MapInv, Searching
    <2>2. \A t \in Passed(call.key, call.at)' : t \in Occupied' /\ slots'[t].key # call'.key
        <3>1. Passed(call.key, call.at)' =
                {t \in Slots : Dist(hash[call.key], t) < Dist(hash[call.key], After(call.at))}
            BY <1>1, <1>4 DEF Passed
        <3>2. QED
            BY <1>1, <1>4, <1>5, <1>10, <3>1
    <2>3. QED
        BY <1>1, <1>4, <1>5, <1>11, <2>1, <2>2 DEF Searching
<1>13. Mending'
    BY <1>1, <1>4 DEF Mending
<1>14. QED
    BY <1>6, <1>7, <1>12, <1>13 DEF MapInv

(* A search that has come to an empty slot, or once round the table, has   *)
(* passed every slot its key could be in.                                  *)
LEMMA NotHeld ==
    ASSUME MapInv, call.op \in {"get", "put", "remove"},
           Here = Empty \/ (Here.key # call.key /\ Dist(hash[call.key], call.at) + 1 = Capacity)
    PROVE  \A s \in Occupied : slots[s].key # call.key
<1> SUFFICES ASSUME NEW s \in Occupied, slots[s].key = call.key
             PROVE  FALSE
    OBVIOUS
<1>1. call.at \in Slots /\ call.key \in Keys
    BY CallAt, IdleIs DEF MapInv
<1>2. hash[call.key] \in Slots /\ s \in Slots
    BY <1>1 DEF MapInv, MapTypeOK, Occupied
<1>3. /\ Dist(hash[call.key], s) \in Nat /\ Dist(hash[call.key], s) < Capacity
      /\ Dist(hash[call.key], call.at) \in Nat /\ Capacity \in Nat
    BY <1>1, <1>2, DistIs, SlotsAreNumbers
<1>4. ~ (Dist(hash[call.key], s) < Dist(hash[call.key], call.at))
    BY <1>2 DEF MapInv, Searching, Passed
<1>5. s # call.at
    BY DEF Here, Occupied
<1>6. Dist(hash[call.key], s) # Dist(hash[call.key], call.at)
    BY <1>1, <1>2, <1>5, DistIs
<1>7. Dist(hash[call.key], call.at) < Dist(hash[call.key], s)
    BY <1>3, <1>4, <1>6
<1>8. Here = Empty
    BY <1>3, <1>7
<1>9. call.at \in Occupied
    BY <1>1, <1>7 DEF MapInv, Reachable, Passed
<1>10. QED
    BY <1>8, <1>9 DEF Occupied, Here

(* Two entries, or an entry and a hole, are in different slots: what an    *)
(* assignment to one slot leaves of the others.                            *)
LEMMA SlotWritten ==
    ASSUME MapTypeOK, NEW at \in Slots, NEW e \in Entries \cup {Empty},
           slots' = [slots EXCEPT ![at] = e]
    PROVE  /\ slots' \in [Slots -> Entries \cup {Empty}]
           /\ slots'[at] = e
           /\ \A s \in Slots : s # at => slots'[s] = slots[s]
           /\ e # Empty => Occupied' = Occupied \cup {at}
           /\ e = Empty => Occupied' = Occupied \ {at}
<1>1. /\ slots' \in [Slots -> Entries \cup {Empty}]
      /\ slots'[at] = e
      /\ \A s \in Slots : s # at => slots'[s] = slots[s]
    BY DEF MapTypeOK
<1>2. QED
    BY <1>1 DEF Occupied

(* An entry is not an empty slot. *)
LEMMA EntriesAreNot == Empty \notin Entries
BY MapAssumption DEF Empty, Entries

(* pb_map_put of a new key. *)
LEMMA InsertKeeps ==
    ASSUME MapInv, Insert
    PROVE  MapInv'
<1> DEFINE at == call.at
           k  == call.key
           e  == [key |-> k, value |-> call.value]
<1>1. /\ call.op = "put" /\ slots[at] = Empty
      /\ slots' = [slots EXCEPT ![at] = e]
      /\ count' = count + 1 /\ call' = Idle /\ hash' = hash
    BY DEF Insert, Here, Return
<1>2. at \in Slots /\ k \in Keys /\ call.value \in UNION {Values[x] : x \in Keys}
    BY <1>1, CallAt, IdleIs DEF MapInv
<1>3. e \in Entries /\ e # Empty /\ e.key = k
    BY <1>2, EntriesAreNot DEF Entries
<1> HIDE DEF e
<1>4. /\ slots' \in [Slots -> Entries \cup {Empty}]
      /\ slots'[at] = e
      /\ \A s \in Slots : s # at => slots'[s] = slots[s]
      /\ Occupied' = Occupied \cup {at}
    BY <1>1, <1>2, <1>3, SlotWritten DEF MapInv
<1>5. at \notin Occupied /\ IsFiniteSet(Occupied) /\ Occupied \subseteq Slots
    BY <1>1, <1>2, EntryAt DEF MapInv
<1>6. MapTypeOK'
    BY <1>1, <1>4, IdleIs DEF MapInv, MapTypeOK
<1>7. \A s \in Occupied : slots[s].key # k
    BY <1>1, NotHeld DEF Here
<1>8. count' = Cardinality(Occupied')
    BY <1>1, <1>4, <1>5, FS_AddElement DEF MapInv, Counted
<1>9. Counted'
    <2>1. ASSUME NEW s \in Occupied', NEW t \in Occupied', slots'[s].key = slots'[t].key
          PROVE  s = t
        BY <1>3, <1>4, <1>5, <1>7, <2>1 DEF MapInv, Counted
    <2>2. QED
        BY <1>8, <2>1 DEF Counted
<1>10. ASSUME NEW s \in Occupied'
       PROVE  Passed(slots'[s].key, s) \subseteq Occupied'
    <2>1. CASE s = at
        <3>1. Passed(k, at) \subseteq Occupied
            BY <1>1 DEF MapInv, Searching
        <3>2. QED
            BY <1>3, <1>4, <2>1, <3>1
    <2>2. CASE s # at
        <3>1. s \in Occupied /\ slots'[s] = slots[s]
            BY <1>4, <1>5, <2>2
        <3>2. Passed(slots[s].key, s) \subseteq Occupied
            BY <1>1, <3>1 DEF MapInv, Reachable
        <3>3. QED
            BY <1>4, <3>1, <3>2
    <2>3. QED
        BY <2>1, <2>2
<1>11. Reachable'
    BY <1>1, <1>10 DEF Reachable, Passed
<1>12. Searching' /\ Mending'
    BY <1>1, IdleIs DEF Searching, Mending
<1>13. QED
    BY <1>6, <1>9, <1>11, <1>12 DEF MapInv

(* pb_map_put of a key that is held. *)
LEMMA UpdateKeeps ==
    ASSUME MapInv, Update
    PROVE  MapInv'
<1> DEFINE at == call.at
           e  == [slots[at] EXCEPT !.value = call.value]
<1>1. /\ call.op = "put" /\ slots[at].key = call.key
      /\ slots' = [slots EXCEPT ![at] = e]
      /\ count' = count /\ call' = Idle /\ hash' = hash
    BY DEF Update, Here, Return
<1>2. at \in Slots /\ call.key \in Keys /\ call.value \in UNION {Values[x] : x \in Keys}
    BY <1>1, CallAt, IdleIs DEF MapInv
<1>3. at \in Occupied /\ slots[at] \in Entries
    BY <1>1, <1>2, EntryAt DEF MapInv
<1>4. e \in Entries /\ e # Empty /\ e.key = slots[at].key
    BY <1>2, <1>3, EntriesAreNot DEF Entries
<1> HIDE DEF e
<1>5. /\ slots' \in [Slots -> Entries \cup {Empty}]
      /\ slots'[at] = e
      /\ \A s \in Slots : s # at => slots'[s] = slots[s]
      /\ Occupied' = Occupied \cup {at}
    BY <1>1, <1>2, <1>4, SlotWritten, ZenonT(30) DEF MapInv
<1>6. Occupied' = Occupied /\ \A s \in Occupied : s \in Slots /\ slots'[s].key = slots[s].key
    BY <1>3, <1>4, <1>5 DEF Occupied
<1>7. MapTypeOK'
    BY <1>1, <1>5, IdleIs DEF MapInv, MapTypeOK
<1>8. Counted'
    BY <1>1, <1>6 DEF MapInv, Counted
<1>9. \A s \in Occupied' : Passed(slots'[s].key, s) \subseteq Occupied'
    BY <1>1, <1>6 DEF MapInv, Reachable
<1>10. Reachable'
    BY <1>1, <1>9 DEF Reachable, Passed
<1>11. Searching' /\ Mending'
    BY <1>1, IdleIs DEF Searching, Mending
<1>12. QED
    BY <1>7, <1>8, <1>10, <1>11 DEF MapInv

(* pb_map_remove, up to the entry's going. *)
LEMMA RemoveKeeps ==
    ASSUME MapInv, Remove
    PROVE  MapInv'
<1> DEFINE at == call.at
<1>1. /\ call.op = "remove" /\ slots[at].key = call.key
      /\ slots' = [slots EXCEPT ![at] = Empty]
      /\ count' = count - 1 /\ hash' = hash
      /\ call' = [op |-> "shift", hole |-> at, at |-> After(at)]
    BY DEF Remove, Here
<1>2. at \in Slots /\ call.key \in Keys
    BY <1>1, CallAt, IdleIs DEF MapInv
<1>3. at \in Occupied /\ IsFiniteSet(Occupied) /\ Occupied \subseteq Slots
    BY <1>1, <1>2, EntryAt DEF MapInv
<1>4. /\ slots' \in [Slots -> Entries \cup {Empty}]
      /\ \A s \in Slots : s # at => slots'[s] = slots[s]
      /\ Occupied' = Occupied \ {at}
    BY <1>1, <1>2, SlotWritten DEF MapInv
<1>5. MapTypeOK'
    <2>1. call' \in Calls
        BY <1>1, <1>2, AfterIs DEF Calls
    <2>2. QED
        BY <1>1, <1>4, <2>1 DEF MapInv, MapTypeOK
<1>6. count' = Cardinality(Occupied')
    BY <1>1, <1>3, <1>4, FS_RemoveElement DEF MapInv, Counted
<1>7. Counted'
    BY <1>3, <1>4, <1>6 DEF MapInv, Counted
<1>8. ASSUME NEW s \in Occupied'
      PROVE  Passed(slots'[s].key, s) \subseteq Occupied' \cup {at}
    <2>1. s \in Occupied /\ slots'[s] = slots[s]
        BY <1>3, <1>4
    <2>2. Passed(slots[s].key, s) \subseteq Occupied
        BY <1>1, <2>1 DEF MapInv, Reachable
    <2>3. QED
        BY <1>4, <2>1, <2>2
<1>9. \A t \in Slots \ {at} : ~ (Dist(at, t) < Round(at, After(at)))
    <2> TAKE t \in Slots \ {at}
    <2>1. Dist(at, t) \in Nat /\ Dist(at, t) # 0 /\ Dist(at, at) = 0
        BY <1>2, DistIs
    <2>2. Round(at, After(at)) = 1
        BY <1>2, <2>1, DistAfter
    <2>3. QED
        BY <2>1, <2>2
<1>10. Mending'
    BY <1>1, <1>4, <1>8, <1>9 DEF Mending, Passed
<1>11. Reachable' /\ Searching'
    BY <1>1 DEF Reachable, Searching
<1>12. QED
    BY <1>5, <1>7, <1>10, <1>11 DEF MapInv

(* Where a walk after a deletion is, and where the hole. *)
LEMMA MendingAt ==
    ASSUME MapInv, call.op = "shift"
    PROVE  /\ call.hole \in Slots /\ call.at \in Slots
           /\ call = [op |-> "shift", hole |-> call.hole, at |-> call.at]
           /\ call.hole \notin Occupied
           /\ Here # Empty =>
                /\ call.at \in Occupied /\ call.at # call.hole
                /\ Here.key \in Keys /\ hash[Here.key] \in Slots
                /\ Round(call.hole, call.at) = Dist(call.hole, call.at)
                /\ MayMoveBack(hash[Here.key], call.hole, call.at)
                        <=> call.hole \in Passed(Here.key, call.at)
<1>1. /\ call.hole \in Slots /\ call.at \in Slots
      /\ call = [op |-> "shift", hole |-> call.hole, at |-> call.at]
    BY CallAt, IdleIs DEF MapInv
<1>2. call.hole \notin Occupied
    BY DEF MapInv, Mending
<1>3. ASSUME Here # Empty
      PROVE  /\ call.at \in Occupied /\ call.at # call.hole
             /\ Here.key \in Keys /\ hash[Here.key] \in Slots
    BY <1>1, <1>2, <1>3, EntryAt DEF MapInv, Here
<1>4. ASSUME Here # Empty
      PROVE  /\ Round(call.hole, call.at) = Dist(call.hole, call.at)
             /\ MayMoveBack(hash[Here.key], call.hole, call.at)
                    <=> call.hole \in Passed(Here.key, call.at)
    BY <1>1, <1>3, <1>4, MayMoveBackIs DEF Round, Passed
<1>5. QED
    BY <1>1, <1>2, <1>3, <1>4

(* An entry that needs the hole moves back into it, and leaves another.    *)
LEMMA ShiftBackKeeps ==
    ASSUME MapInv, ShiftBack
    PROVE  MapInv'
<1> DEFINE at   == call.at
           hole == call.hole
           e    == slots[at]
           i    == hash[e.key]
<1>1. /\ call.op = "shift" /\ Here # Empty /\ MayMoveBack(i, hole, at)
      /\ slots' = [slots EXCEPT ![hole] = e, ![at] = Empty]
      /\ call' = [call EXCEPT !.hole = call.at, !.at = After(@)]
      /\ UNCHANGED <<hash, count>>
    BY DEF ShiftBack, Here
<1>2. /\ hole \in Slots /\ at \in Slots /\ at # hole
      /\ hole \notin Occupied /\ at \in Occupied
      /\ i \in Slots /\ hole \in Passed(e.key, at)
    BY <1>1, MendingAt DEF Here
<1>3. e \in Entries /\ e # Empty /\ slots \in [Slots -> Entries \cup {Empty}]
    BY <1>1, <1>2, EntryAt DEF MapInv, Here, MapTypeOK
<1>4. call' = [op |-> "shift", hole |-> at, at |-> After(at)]
    BY <1>1, MendingAt
<1> HIDE DEF e
<1>5. /\ slots' \in [Slots -> Entries \cup {Empty}]
      /\ slots'[hole] = e /\ slots'[at] = Empty
      /\ \A s \in Slots : s # hole /\ s # at => slots'[s] = slots[s]
    BY <1>1, <1>2, <1>3
<1>6. Occupied' = (Occupied \ {at}) \cup {hole}
    BY <1>2, <1>3, <1>5 DEF Occupied
<1>7. MapTypeOK'
    <2>1. call' \in Calls
        BY <1>2, <1>4, AfterIs DEF Calls
    <2>2. QED
        BY <1>1, <1>5, <2>1 DEF MapInv, MapTypeOK
<1>8. Cardinality(Occupied') = Cardinality(Occupied)
    <2>1. IsFiniteSet(Occupied)
        BY EntryAt DEF MapInv
    <2>2. IsFiniteSet(Occupied \ {at}) /\ Cardinality(Occupied \ {at}) = Cardinality(Occupied) - 1
        BY <1>2, <2>1, FS_RemoveElement
    <2>3. Cardinality(Occupied') = Cardinality(Occupied) - 1 + 1
        BY <1>2, <1>6, <2>2, FS_AddElement
    <2>4. QED
        BY <2>1, <2>3, FS_CardinalityType
<1>9. Counted'
    <2>1. count' = Cardinality(Occupied')
        BY <1>1, <1>8 DEF MapInv, Counted
    <2>2. ASSUME NEW s \in Occupied', NEW t \in Occupied', slots'[s].key = slots'[t].key
          PROVE  s = t
        <3> DEFINE Was(x) == IF x = hole THEN at ELSE x
        <3>1. /\ Was(s) \in Occupied /\ slots[Was(s)] = slots'[s]
              /\ Was(t) \in Occupied /\ slots[Was(t)] = slots'[t]
            BY <1>2, <1>5, <1>6 DEF e, Occupied
        <3>2. Was(s) = Was(t)
            BY <2>2, <3>1 DEF MapInv, Counted
        <3>3. s # at /\ t # at
            BY <1>2, <1>6
        <3>4. QED
            BY <3>2, <3>3
    <2>3. QED
        BY <2>1, <2>2 DEF Counted
<1>10. \A s \in Occupied : Passed(slots[s].key, s) \subseteq Occupied \cup {hole}
    BY <1>1 DEF MapInv, Mending
<1>11. ASSUME NEW s \in Occupied'
       PROVE  Passed(slots'[s].key, s) \subseteq Occupied' \cup {at}
    <2>1. CASE s = hole
        <3>1. Passed(e.key, hole) \subseteq Passed(e.key, at)
            <4>1. Dist(i, hole) < Dist(i, at)
                BY <1>2 DEF Passed
            <4>2. ASSUME NEW t \in Slots, Dist(i, t) < Dist(i, hole)
                  PROVE  Dist(i, t) < Dist(i, at)
                BY <1>2, <4>1, <4>2, DistIs
            <4>3. QED
                BY <4>2 DEF Passed
        <3>2. Passed(e.key, at) \subseteq Occupied \cup {hole}
            BY <1>2, <1>10 DEF e
        <3>3. QED
            BY <1>5, <1>6, <2>1, <3>1, <3>2
    <2>2. CASE s # hole
        <3>1. s \in Occupied /\ slots'[s] = slots[s]
            BY <1>2, <1>5, <1>6, <2>2 DEF Occupied
        <3>2. QED
            BY <1>6, <1>10, <3>1
    <2>3. QED
        BY <2>1, <2>2
<1>12. \A t \in Slots \ {at} : ~ (Dist(at, t) < Round(at, After(at)))
    <2> TAKE t \in Slots \ {at}
    <2>1. Dist(at, t) \in Nat /\ Dist(at, t) # 0 /\ Dist(at, at) = 0
        BY <1>2, DistIs
    <2>2. Round(at, After(at)) = 1
        BY <1>2, <2>1, DistAfter
    <2>3. QED
        BY <2>1, <2>2
<1>13. Mending'
    <2>1. at \notin Occupied'
        BY <1>2, <1>6
    <2>2. QED
        BY <1>1, <1>4, <1>11, <1>12, <2>1 DEF Mending, Passed
<1>14. Reachable' /\ Searching'
    BY <1>4 DEF Reachable, Searching
<1>15. QED
    BY <1>7, <1>9, <1>13, <1>14 DEF MapInv

(* An entry that does not need the hole stays.                             *)
LEMMA ShiftOnKeeps ==
    ASSUME MapInv, ShiftOn
    PROVE  MapInv'
<1> DEFINE at   == call.at
           hole == call.hole
<1>1. /\ call.op = "shift" /\ Here # Empty /\ ~MayMoveBack(hash[Here.key], hole, at)
      /\ call' = [call EXCEPT !.at = After(@)]
      /\ UNCHANGED <<hash, slots, count>>
    BY DEF ShiftOn
<1>2. /\ hole \in Slots /\ at \in Slots /\ at # hole /\ at \in Occupied
      /\ hole \notin Passed(slots[at].key, at)
      /\ Round(hole, at) = Dist(hole, at)
    BY <1>1, MendingAt DEF Here
<1>3. call' = [op |-> "shift", hole |-> hole, at |-> After(at)]
    BY <1>1, MendingAt
<1>4. Occupied' = Occupied
    BY <1>1 DEF Occupied
<1>5. MapTypeOK' /\ Counted'
    <2>1. call' \in Calls
        BY <1>2, <1>3, AfterIs DEF Calls
    <2>2. QED
        BY <1>1, <1>4, <2>1 DEF MapInv, MapTypeOK, Counted
<1>6. ASSUME NEW t \in Slots \ {hole}, Dist(hole, t) < Round(hole, After(at))
      PROVE  t \in Occupied /\ hole \notin Passed(slots[t].key, t)
    <2>1. Dist(hole, t) \in Nat /\ Dist(hole, at) \in Nat
        BY <1>2, DistIs
    <2>2. Dist(hole, t) < Dist(hole, at) \/ Dist(hole, t) = Dist(hole, at)
        BY <1>2, <1>6, <2>1, DistAfter
    <2>3. CASE Dist(hole, t) < Dist(hole, at)
        BY <1>1, <1>2, <2>3 DEF MapInv, Mending
    <2>4. CASE Dist(hole, t) = Dist(hole, at)
        <3>1. t = at
            BY <1>2, <2>4, DistIs
        <3>2. QED
            BY <1>2, <3>1
    <2>5. QED
        BY <2>2, <2>3, <2>4
<1>7. Mending'
    <2>1. hole \notin Occupied
        BY <1>1, MendingAt
    <2>2. \A s \in Occupied : Passed(slots[s].key, s) \subseteq Occupied \cup {hole}
        BY <1>1 DEF MapInv, Mending
    <2>3. QED
        BY <1>1, <1>3, <1>4, <1>6, <2>1, <2>2 DEF Mending, Passed
<1>8. Reachable' /\ Searching'
    BY <1>3 DEF Reachable, Searching
<1>9. QED
    BY <1>5, <1>7, <1>8 DEF MapInv

(* At the end of its cluster no entry needs the hole.                      *)
LEMMA ShiftEndsKeeps ==
    ASSUME MapInv, ShiftEnds
    PROVE  MapInv'
<1> DEFINE at   == call.at
           hole == call.hole
<1>1. /\ call.op = "shift" /\ Here = Empty /\ call' = Idle /\ UNCHANGED <<hash, slots, count>>
    BY DEF ShiftEnds
<1>2. /\ hole \in Slots /\ at \in Slots /\ hole \notin Occupied /\ at \notin Occupied
    BY <1>1, MendingAt DEF Here, Occupied
<1>3. Occupied' = Occupied
    BY <1>1 DEF Occupied
<1>4. MapTypeOK' /\ Counted'
    BY <1>1, <1>3, IdleIs DEF MapInv, MapTypeOK, Counted
<1>5. ASSUME NEW s \in Occupied
      PROVE  Passed(slots[s].key, s) \subseteq Occupied
    <2> DEFINE i == hash[slots[s].key]
    <2>1. s \in Slots /\ i \in Slots /\ s # hole /\ s # at
        BY <1>2, EntryAt DEF MapInv
    <2>2. Passed(slots[s].key, s) \subseteq Occupied \cup {hole}
        BY <1>1 DEF MapInv, Mending
    <2>3. hole \notin Passed(slots[s].key, s)
        <3> SUFFICES ASSUME hole \in Passed(slots[s].key, s)
                     PROVE  FALSE
            OBVIOUS
        <3>1. ~ (Dist(hole, s) < Round(hole, at))
            BY <1>1, <2>1 DEF MapInv, Mending
        <3>2. at # hole /\ Dist(hole, at) < Dist(hole, s)
            <4>1. /\ Dist(hole, s) \in Nat /\ Dist(hole, s) < Capacity
                  /\ Dist(hole, at) \in Nat /\ Capacity \in Nat
                BY <1>2, <2>1, DistIs, SlotsAreNumbers
            <4>2. at # hole
                BY <3>1, <4>1 DEF Round
            <4>3. Dist(hole, at) # Dist(hole, s)
                BY <1>2, <2>1, DistIs
            <4>4. QED
                BY <3>1, <4>1, <4>2, <4>3 DEF Round
        <3>3. Dist(i, hole) < Dist(i, s)
            BY DEF Passed
        <3>4. Dist(i, at) < Dist(i, s)
            BY <1>2, <2>1, <3>2, <3>3, PassedOn
        <3>5. at \in Passed(slots[s].key, s)
            BY <1>2, <3>4 DEF Passed
        <3>6. QED
            BY <1>2, <2>2, <3>2, <3>5
    <2>4. QED
        BY <2>2, <2>3
<1>6. Reachable'
    BY <1>1, <1>3, <1>5 DEF Reachable, Passed
<1>7. Searching' /\ Mending'
    BY <1>1, IdleIs DEF Searching, Mending
<1>8. QED
    BY <1>4, <1>6, <1>7 DEF MapInv

(* The table is as it should be before anything is asked of it.            *)
LEMMA InitMaps == Init => MapInv
<1> SUFFICES ASSUME Init
             PROVE  MapInv
    OBVIOUS
<1>1. Occupied = {}
    BY DEF Init, Occupied
<1>2. MapTypeOK
    BY IdleIs DEF Init, MapTypeOK
<1>3. Counted
    BY <1>1, FS_EmptySet DEF Init, Counted
<1>4. Reachable /\ Searching /\ Mending
    BY <1>1, IdleIs DEF Init, Reachable, Searching, Mending
<1>5. QED
    BY <1>2, <1>3, <1>4 DEF MapInv

(* Every step of every call keeps it. *)
LEMMA NextMaps ==
    ASSUME MapInv, [Next]_vars
    PROVE  MapInv'
<1>1. CASE CallGet
    BY <1>1, CallKeeps DEF CallGet
<1>2. CASE CallRemove
    BY <1>2, CallKeeps DEF CallRemove
<1>3. CASE CallPut
    <2>1. PICK k \in Keys : \E v \in Values[k] :
                (k \in HeldKeys \/ count < MaxEntries \/ count = Capacity) /\ Call("put", k, v)
        BY <1>3 DEF CallPut
    <2>2. QED
        BY <2>1, CallKeeps
<1>4. CASE Clear
    BY <1>4, ClearKeeps
<1>5. CASE Walk
    BY <1>5, WalkKeeps
<1>6. CASE Refuse \/ Absent \/ Get
    <2>1. call.op # "shift" /\ call' = Idle /\ UNCHANGED <<hash, slots, count>>
        BY <1>6 DEF Refuse, Absent, Get, Return
    <2>2. QED
        BY <2>1, ReturnKeeps
<1>7. CASE Insert
    BY <1>7, InsertKeeps
<1>8. CASE Update
    BY <1>8, UpdateKeeps
<1>9. CASE Remove
    BY <1>9, RemoveKeeps
<1>10. CASE ShiftBack
    BY <1>10, ShiftBackKeeps
<1>11. CASE ShiftOn
    BY <1>11, ShiftOnKeeps
<1>12. CASE ShiftEnds
    BY <1>12, ShiftEndsKeeps
<1>13. CASE UNCHANGED vars
    BY <1>13 DEF vars, MapInv, MapTypeOK, Counted, Reachable, Searching, Mending, Occupied,
                 HeldKeys, Passed
<1>14. QED
    BY <1>1, <1>2, <1>3, <1>4, <1>5, <1>6, <1>7, <1>8, <1>9, <1>10, <1>11, <1>12, <1>13
       DEF Next, Proceed

(* Every entry is found by its own probe, whatever was put and removed     *)
(* before, for every hash, capacity and set of keys.                       *)
THEOREM EntriesAreFound == Spec => []Findable
<1>1. MapInv => Findable
    <2> SUFFICES ASSUME MapInv
                 PROVE  Findable
        OBVIOUS
    <2>1. ASSUME call = Idle, NEW s \in Occupied
          PROVE  Before(s) \subseteq Occupied
        <3>1. s \in Slots /\ hash[slots[s].key] \in Slots
            BY EntryAt DEF MapInv
        <3>2. Before(s) = Passed(slots[s].key, s)
            BY <3>1, DistIsModulo DEF Before, Passed
        <3>3. QED
            BY <2>1, <3>2, IdleIs DEF MapInv, Reachable
    <2>2. QED
        BY <2>1 DEF MapInv, Counted, Findable
<1>2. QED
    BY <1>1, InitMaps, NextMaps, PTL DEF Spec

-----------------------------------------------------------------------------
(* The map answers as an index does. *)

(* The contents are the entries: one value for each key held.              *)
LEMMA ContentsAre ==
    MapInv =>
        /\ DOMAIN Contents = HeldKeys
        /\ \A s \in Occupied : slots[s].key \in HeldKeys /\ Contents[slots[s].key] = slots[s].value
        /\ \A k \in HeldKeys : \E s \in Occupied : slots[s].key = k
        /\ Cardinality(HeldKeys) = count
<1> SUFFICES ASSUME MapInv
             PROVE  /\ DOMAIN Contents = HeldKeys
                    /\ \A s \in Occupied :
                            slots[s].key \in HeldKeys /\ Contents[slots[s].key] = slots[s].value
                    /\ \A k \in HeldKeys : \E s \in Occupied : slots[s].key = k
                    /\ Cardinality(HeldKeys) = count
    OBVIOUS
<1>1. DOMAIN Contents = HeldKeys
    BY DEF Contents
<1>2. \A k \in HeldKeys : \E s \in Occupied : slots[s].key = k
    BY DEF HeldKeys
<1>3. ASSUME NEW s \in Occupied
      PROVE  slots[s].key \in HeldKeys /\ Contents[slots[s].key] = slots[s].value
    <2> DEFINE t == CHOOSE t \in Occupied : slots[t].key = slots[s].key
    <2>1. t \in Occupied /\ slots[t].key = slots[s].key
        OBVIOUS
    <2>2. t = s
        BY <2>1 DEF MapInv, Counted
    <2>3. slots[s].key \in HeldKeys
        BY DEF HeldKeys
    <2>4. Contents[slots[s].key] = slots[t].value
        BY <2>3 DEF Contents
    <2>5. QED
        BY <2>2, <2>3, <2>4
<1>4. Cardinality(HeldKeys) = count
    <2> DEFINE f == [s \in Occupied |-> slots[s].key]
    <2>1. f \in Surjection(Occupied, HeldKeys)
        BY DEF Surjection, HeldKeys
    <2>2. f \in Injection(Occupied, HeldKeys)
        BY DEF Injection, IsInjective, HeldKeys, MapInv, Counted
    <2>3. IsFiniteSet(Occupied)
        BY EntryAt DEF MapInv
    <2> HIDE DEF f
    <2>4. Cardinality(HeldKeys) = Cardinality(Occupied)
        BY <2>1, <2>2, <2>3, FS_Surjection
    <2>5. QED
        BY <2>4 DEF MapInv, Counted
<1>5. QED
    BY <1>1, <1>2, <1>3, <1>4

(* They are all that the contents are. *)
LEMMA ContentsAgain ==
    MapInv /\ MapInv' =>
        /\ DOMAIN Contents = HeldKeys /\ DOMAIN Contents' = HeldKeys'
        /\ \A s \in Occupied' :
                slots'[s].key \in HeldKeys' /\ Contents'[slots'[s].key] = slots'[s].value
        /\ \A k \in HeldKeys' : \E s \in Occupied' : slots'[s].key = k
<1> DEFINE Told ==
        /\ DOMAIN Contents = HeldKeys
        /\ \A s \in Occupied : slots[s].key \in HeldKeys /\ Contents[slots[s].key] = slots[s].value
        /\ \A k \in HeldKeys : \E s \in Occupied : slots[s].key = k
<1>1. MapInv => Told
    BY ContentsAre
<1> HIDE DEF Told
<1>2. (MapInv => Told)'
    BY <1>1, PTL
<1>3. QED
    BY <1>1, <1>2 DEF Told

(* The index counts as everyone does.                                      *)
LEMMA SameCardinality == \A S : Index!Cardinality(S) = Cardinality(S)
BY Zenon DEF Index!Cardinality, Cardinality

(* And so it restricts. *)
LEMMA SameRestrict == \A f, S : Index!Restrict(f, S) = Restrict(f, S)
BY Zenon DEF Index!Restrict, Restrict

(* A table that is left alone holds what it held.                          *)
LEMMA SameContents ==
    ASSUME slots' = slots
    PROVE  Contents' = Contents /\ HeldKeys' = HeldKeys /\ Occupied' = Occupied
<1>1. Occupied' = Occupied
    BY DEF Occupied
<1>2. HeldKeys' = HeldKeys
    BY <1>1 DEF HeldKeys
<1>3. QED
    BY <1>1, <1>2 DEF Contents

(* What a search is asked. *)
LEMMA AskedIs ==
    ASSUME MapInv, call.op \in {"get", "put", "remove"}
    PROVE  /\ Asked = [op |-> call.op, key |-> call.key, value |-> call.value]
           /\ Asked.op = call.op /\ Asked.key = call.key /\ Asked.value = call.value
           /\ call.key \in Keys /\ call.at \in Slots /\ call # Idle
           /\ Here.key = call.key => call.at \in Occupied
<1>1. call.key \in Keys /\ call.at \in Slots /\ call # Idle
    BY CallAt, IdleIs DEF MapInv
<1>2. Here.key = call.key => call.at \in Occupied
    BY <1>1, EntryAt DEF MapInv, Here
<1>3. QED
    BY <1>1, <1>2 DEF Asked

(* A new call asks. *)
LEMMA CallAsks ==
    ASSUME MapInv, NEW k \in Keys, NEW op, NEW v, Call(op, k, v),
           \/ op \in {"get", "remove"} /\ v = "none"
           \/ op = "put" /\ v \in Values[k]
    PROVE  Index!Ask
<1>1. Asked = Index!Nothing
    BY IdleIs DEF Call, Asked, Index!Nothing, Idle
<1>2. Asked' = [op |-> op, key |-> k, value |-> v]
    BY DEF Call, Asked
<1>3. Asked' \in [op : {"get", "remove"}, key : Keys, value : {"none"}]
                \cup UNION {[op : {"put"}, key : {x}, value : Values[x]] : x \in Keys}
    <2>1. CASE op \in {"get", "remove"} /\ v = "none"
        BY <1>2, <2>1
    <2>2. CASE op = "put" /\ v \in Values[k]
        <3>1. Asked' \in [op : {"put"}, key : {k}, value : Values[k]]
            BY <1>2, <2>2
        <3>2. QED
            BY <3>1
    <2>3. QED
        BY <2>1, <2>2
<1>4. answer' = "none" /\ Contents' = Contents
    BY SameContents DEF Call
<1>5. QED
    BY <1>1, <1>3, <1>4 DEF Index!Ask

(* A lookup of a key that is held. *)
LEMMA GetAnswers ==
    ASSUME MapInv, Get
    PROVE  Index!Get
<1>1. /\ call.op = "get" /\ Here.key = call.key
      /\ call' = Idle /\ answer' = Here.value /\ slots' = slots
    BY DEF Get, Return
<1>2. Asked.op = "get" /\ Asked.key = call.key /\ call.at \in Occupied
    BY <1>1, AskedIs
<1>3. Asked' = Index!Nothing
    BY <1>1, IdleIs DEF Asked, Index!Nothing, Idle
<1>4. call.key \in DOMAIN Contents /\ Contents[call.key] = Here.value
    BY <1>1, <1>2, ContentsAre DEF Here
<1>5. Contents' = Contents
    BY <1>1, SameContents
<1>6. QED
    BY <1>1, <1>2, <1>3, <1>4, <1>5 DEF Index!Get, Index!Answer, Index!Held

(* A search that has come to its end without its key: the key is not held. *)
LEMMA AbsentIs ==
    ASSUME MapInv, call.op \in {"get", "put", "remove"},
           Here = Empty \/ (Here.key # call.key /\ Dist(hash[call.key], call.at) + 1 = Capacity)
    PROVE  call.key \notin DOMAIN Contents
<1>1. \A s \in Occupied : slots[s].key # call.key
    BY NotHeld
<1>2. QED
    BY <1>1, ContentsAre

(* A lookup or a removal of a key that is not. *)
LEMMA AbsentAnswers ==
    ASSUME MapInv, Absent
    PROVE  Index!Get \/ Index!Remove
<1>1. /\ call.op \in {"get", "remove"} /\ Here = Empty
      /\ call' = Idle /\ answer' = "no" /\ slots' = slots
    BY DEF Absent, Return
<1>2. Asked.op = call.op /\ Asked.key = call.key
    BY <1>1, AskedIs
<1>3. Asked' = Index!Nothing
    BY <1>1, IdleIs DEF Asked, Index!Nothing, Idle
<1>4. call.key \notin DOMAIN Contents
    BY <1>1, AbsentIs
<1>5. Contents' = Contents
    BY <1>1, SameContents
<1>6. CASE call.op = "get"
    BY <1>1, <1>2, <1>3, <1>4, <1>5, <1>6 DEF Index!Get, Index!Answer, Index!Held
<1>7. CASE call.op = "remove"
    <2>1. Restrict(Contents, DOMAIN Contents \ {call.key}) = Contents
        <3>1. DOMAIN Contents \ {call.key} = DOMAIN Contents
            BY <1>4
        <3>2. Contents = [k \in DOMAIN Contents |-> Contents[k]]
            BY DEF Contents
        <3>3. QED
            BY <3>1, <3>2 DEF Restrict
    <2>2. QED
        BY <1>1, <1>2, <1>3, <1>4, <1>5, <1>7, <2>1, SameRestrict
           DEF Index!Remove, Index!Answer, Index!Held
<1>8. QED
    BY <1>1, <1>6, <1>7

(* A put of a new key into a full table. *)
LEMMA RefuseAnswers ==
    ASSUME MapInv, Refuse
    PROVE  Index!Refuse
<1>1. /\ call.op = "put" /\ Here # Empty /\ Here.key # call.key /\ call.probes + 1 = Capacity
      /\ call' = Idle /\ answer' = "no" /\ slots' = slots
    BY DEF Refuse, Return
<1>2. Asked.op = "put" /\ Asked.key = call.key /\ call.key \in Keys /\ call.at \in Slots
    BY <1>1, AskedIs
<1>3. Asked' = Index!Nothing
    BY <1>1, IdleIs DEF Asked, Index!Nothing, Idle
<1>4. hash[call.key] \in Slots
    BY <1>2 DEF MapInv, MapTypeOK
<1>5. Dist(hash[call.key], call.at) + 1 = Capacity
    BY <1>1 DEF MapInv, Searching
<1>6. call.key \notin DOMAIN Contents
    BY <1>1, <1>5, AbsentIs
<1>7. Occupied = Slots
    <2> SUFFICES ASSUME NEW t \in Slots
                 PROVE  t \in Occupied
        BY EntryAt DEF MapInv
    <2>1. CASE t = call.at
        BY <1>1, <2>1 DEF Occupied, Here
    <2>2. CASE t # call.at
        <3>1. /\ Dist(hash[call.key], t) \in Nat /\ Dist(hash[call.key], t) < Capacity
              /\ Dist(hash[call.key], t) # Dist(hash[call.key], call.at)
              /\ Dist(hash[call.key], call.at) \in Nat
            BY <1>2, <1>4, <2>2, DistIs
        <3>2. Dist(hash[call.key], t) < Dist(hash[call.key], call.at)
            BY <1>5, <3>1, SlotsAreNumbers
        <3>3. QED
            BY <1>1, <3>2 DEF MapInv, Searching, Passed
    <2>3. QED
        BY <2>1, <2>2
<1>8. count = Capacity
    <2>1. Cardinality(Slots) = Capacity
        BY SlotsAreNumbers, FS_Interval DEF Slots
    <2>2. QED
        BY <1>7, <2>1 DEF MapInv, Counted
<1>9. Index!Count = Capacity
    <2>1. DOMAIN Contents = HeldKeys /\ Cardinality(HeldKeys) = count
        BY ContentsAre
    <2>2. QED
        BY <1>8, <2>1, SameCardinality DEF Index!Count, Index!Held
<1>10. Contents' = Contents
    BY <1>1, SameContents
<1>11. QED
    BY <1>1, <1>2, <1>3, <1>6, <1>9, <1>10 DEF Index!Refuse, Index!Answer, Index!Held

(* A put of a new key, into a table with room for it.                      *)
LEMMA InsertAnswers ==
    ASSUME MapInv, MapInv', Insert
    PROVE  Index!Put
<1> DEFINE at == call.at
           k  == call.key
           e  == [key |-> k, value |-> call.value]
<1>1. /\ call.op = "put" /\ Here = Empty /\ slots[at] = Empty
      /\ slots' = [slots EXCEPT ![at] = e]
      /\ call' = Idle /\ answer' = "yes" /\ hash' = hash
    BY DEF Insert, Here, Return
<1>2. /\ Asked.op = "put" /\ Asked.key = k /\ Asked.value = call.value
      /\ k \in Keys /\ at \in Slots /\ call # Idle
    BY <1>1, AskedIs
<1>3. Asked' = Index!Nothing
    BY <1>1, IdleIs DEF Asked, Index!Nothing, Idle
<1>4. e \in Entries /\ e # Empty /\ e.key = k /\ e.value = call.value
    BY <1>1, <1>2, CallAt, EntriesAreNot DEF MapInv, Entries
<1> HIDE DEF e
<1>5. /\ slots'[at] = e
      /\ \A s \in Slots : s # at => slots'[s] = slots[s]
      /\ Occupied' = Occupied \cup {at}
    BY <1>1, <1>2, <1>4, SlotWritten DEF MapInv
<1>6. at \notin Occupied /\ Occupied \subseteq Slots
    BY <1>1, <1>2, EntryAt DEF MapInv
<1>7. k \notin DOMAIN Contents
    BY <1>1, AbsentIs
<1>8. Index!Count < MaxEntries
    <2>1. k \in HeldKeys \/ count < MaxEntries \/ count = Capacity
        BY <1>1 DEF MapInv, Searching
    <2>2. DOMAIN Contents = HeldKeys /\ Cardinality(HeldKeys) = count
        BY ContentsAre
    <2>3. count # Capacity
        <3>1. IsFiniteSet(Slots) /\ Cardinality(Slots) = Capacity
            BY SlotsAreNumbers, FS_Interval DEF Slots
        <3>2. Cardinality(Occupied) # Cardinality(Slots)
            BY <1>2, <1>6, <3>1, FS_Subset
        <3>3. QED
            BY <3>1, <3>2 DEF MapInv, Counted
    <2>4. QED
        BY <1>7, <2>1, <2>2, <2>3, SameCardinality DEF Index!Count, Index!Held
<1>9. Contents' = [x \in DOMAIN Contents \cup {k} |->
                      IF x = k THEN call.value ELSE Contents[x]]
    <2>1. HeldKeys' = DOMAIN Contents \cup {k}
        <3>1. HeldKeys' = {slots'[s].key : s \in Occupied'}
            BY DEF HeldKeys
        <3>2. DOMAIN Contents = {slots[s].key : s \in Occupied}
            BY ContentsAre DEF HeldKeys
        <3>3. \A s \in Occupied : s # at /\ slots'[s] = slots[s]
            BY <1>5, <1>6
        <3>4. QED
            BY <1>4, <1>5, <3>1, <3>2, <3>3
    <2>2. Contents'[k] = call.value
        BY <1>4, <1>5, ContentsAgain
    <2>3. ASSUME NEW x \in DOMAIN Contents
          PROVE  x # k /\ Contents'[x] = Contents[x]
        <3>1. PICK s \in Occupied : slots[s].key = x /\ Contents[x] = slots[s].value
            BY ContentsAre
        <3>2. s \in Occupied' /\ slots'[s] = slots[s]
            BY <1>5, <1>6
        <3>3. Contents'[x] = slots[s].value
            BY <3>1, <3>2, ContentsAgain
        <3>4. QED
            BY <1>7, <3>1, <3>3
    <2>4. Contents' = [x \in HeldKeys' |-> Contents'[x]]
        BY DEF Contents
    <2>5. QED
        BY <2>1, <2>2, <2>3, <2>4
<1>10. QED
    BY <1>1, <1>2, <1>3, <1>8, <1>9 DEF Index!Put, Index!Answer, Index!Held

(* A put of a key that is held. *)
LEMMA UpdateAnswers ==
    ASSUME MapInv, MapInv', Update
    PROVE  Index!Put
<1> DEFINE at == call.at
           k  == call.key
           e  == [slots[at] EXCEPT !.value = call.value]
<1>1. /\ call.op = "put" /\ Here.key = k /\ slots[at].key = k
      /\ slots' = [slots EXCEPT ![at] = e]
      /\ call' = Idle /\ answer' = "yes"
    BY DEF Update, Here, Return
<1>2. /\ Asked.op = "put" /\ Asked.key = k /\ Asked.value = call.value
      /\ k \in Keys /\ at \in Slots /\ at \in Occupied /\ call # Idle
    BY <1>1, AskedIs
<1>3. Asked' = Index!Nothing
    BY <1>1, IdleIs DEF Asked, Index!Nothing, Idle
<1>4. e \in Entries /\ e # Empty /\ e.key = k /\ e.value = call.value
    <2>1. slots[at] \in Entries
        BY <1>2, EntryAt DEF MapInv
    <2>2. call.value \in UNION {Values[x] : x \in Keys}
        BY <1>1, <1>2, CallAt DEF MapInv
    <2>3. QED
        BY <1>1, <2>1, <2>2, EntriesAreNot DEF Entries
<1> HIDE DEF e
<1>5. /\ slots'[at] = e
      /\ \A s \in Slots : s # at => slots'[s] = slots[s]
      /\ Occupied' = Occupied \cup {at}
    BY <1>1, <1>2, <1>4, SlotWritten DEF MapInv
<1>6. Occupied' = Occupied /\ Occupied \subseteq Slots
    BY <1>2, <1>5, EntryAt DEF MapInv
<1>7. k \in DOMAIN Contents
    BY <1>1, <1>2, ContentsAre
<1>8. Contents' = [x \in DOMAIN Contents \cup {k} |->
                      IF x = k THEN call.value ELSE Contents[x]]
    <2>1. HeldKeys' = DOMAIN Contents
        <3>1. HeldKeys' = {slots'[s].key : s \in Occupied}
            BY <1>6 DEF HeldKeys
        <3>2. DOMAIN Contents = {slots[s].key : s \in Occupied}
            BY ContentsAre DEF HeldKeys
        <3>3. \A s \in Occupied : slots'[s].key = slots[s].key
            BY <1>1, <1>4, <1>5, <1>6
        <3>4. QED
            BY <3>1, <3>2, <3>3
    <2>2. Contents'[k] = call.value
        BY <1>2, <1>4, <1>5, <1>6, ContentsAgain
    <2>3. ASSUME NEW x \in DOMAIN Contents, x # k
          PROVE  Contents'[x] = Contents[x]
        <3>1. PICK s \in Occupied : slots[s].key = x /\ Contents[x] = slots[s].value
            BY ContentsAre
        <3>2. s \in Occupied' /\ slots'[s] = slots[s]
            BY <1>1, <1>5, <1>6, <2>3, <3>1
        <3>3. QED
            BY <3>1, <3>2, ContentsAgain
    <2>4. Contents' = [x \in HeldKeys' |-> Contents'[x]]
        BY DEF Contents
    <2>5. QED
        BY <1>7, <2>1, <2>2, <2>3, <2>4
<1>9. QED
    BY <1>1, <1>2, <1>3, <1>7, <1>8 DEF Index!Put, Index!Answer, Index!Held

(* A removal of a key that is held. *)
LEMMA RemoveAnswers ==
    ASSUME MapInv, MapInv', Remove
    PROVE  Index!Remove
<1> DEFINE at == call.at
           k  == call.key
<1>1. /\ call.op = "remove" /\ Here.key = k /\ slots[at].key = k
      /\ slots' = [slots EXCEPT ![at] = Empty]
      /\ call' = [op |-> "shift", hole |-> at, at |-> After(at)] /\ answer' = "yes"
    BY DEF Remove, Here
<1>2. /\ Asked.op = "remove" /\ Asked.key = k
      /\ at \in Slots /\ at \in Occupied
    BY <1>1, AskedIs
<1>3. Asked' = Index!Nothing
    BY <1>1 DEF Asked, Index!Nothing, Idle
<1>4. /\ \A s \in Slots : s # at => slots'[s] = slots[s]
      /\ Occupied' = Occupied \ {at} /\ Occupied \subseteq Slots
    BY <1>1, <1>2, SlotWritten, EntryAt DEF MapInv
<1>5. k \in DOMAIN Contents
    BY <1>1, <1>2, ContentsAre
<1>6. \A s \in Occupied : slots[s].key = k => s = at
    BY <1>1, <1>2 DEF MapInv, Counted
<1>7. HeldKeys' = DOMAIN Contents \ {k}
    <2>1. HeldKeys' = {slots'[s].key : s \in Occupied'}
        BY DEF HeldKeys
    <2>2. DOMAIN Contents = {slots[s].key : s \in Occupied}
        BY ContentsAre DEF HeldKeys
    <2>3. \A s \in Occupied' : s \in Occupied /\ slots'[s] = slots[s] /\ slots[s].key # k
        BY <1>4, <1>6
    <2>4. \A s \in Occupied : slots[s].key # k => s \in Occupied'
        BY <1>1, <1>4
    <2>5. QED
        BY <2>1, <2>2, <2>3, <2>4
<1>8. ASSUME NEW x \in HeldKeys'
      PROVE  Contents'[x] = Contents[x]
    <2>1. PICK s \in Occupied' : slots'[s].key = x /\ Contents'[x] = slots'[s].value
        BY ContentsAgain
    <2>2. s \in Occupied /\ slots'[s] = slots[s]
        BY <1>4
    <2>3. QED
        BY <2>1, <2>2, ContentsAre
<1>9. Contents' = Restrict(Contents, DOMAIN Contents \ {k})
    <2>1. Contents' = [x \in HeldKeys' |-> Contents'[x]]
        BY DEF Contents
    <2>2. QED
        BY <1>7, <1>8, <2>1 DEF Restrict
<1>10. QED
    BY <1>1, <1>2, <1>3, <1>5, <1>9, SameRestrict DEF Index!Remove, Index!Answer, Index!Held

(* An entry moved is still there. *)
LEMMA ShiftBackHides ==
    ASSUME MapInv, MapInv', ShiftBack
    PROVE  UNCHANGED Index!vars
<1> DEFINE at   == call.at
           hole == call.hole
<1>1. /\ call.op = "shift" /\ Here # Empty
      /\ slots' = [slots EXCEPT ![hole] = slots[at], ![at] = Empty]
      /\ call' = [call EXCEPT !.hole = call.at, !.at = After(@)] /\ answer' = answer
    BY DEF ShiftBack, Here
<1>2. /\ hole \in Slots /\ at \in Slots /\ at # hole /\ at \in Occupied /\ hole \notin Occupied
      /\ call = [op |-> "shift", hole |-> call.hole, at |-> call.at]
    BY <1>1, MendingAt
<1>3. slots \in [Slots -> Entries \cup {Empty}] /\ Occupied \subseteq Slots
    BY EntryAt DEF MapInv, MapTypeOK
<1>4. /\ slots'[hole] = slots[at] /\ slots'[at] = Empty
      /\ \A s \in Slots : s # hole /\ s # at => slots'[s] = slots[s]
    BY <1>1, <1>2, <1>3
<1>5. Occupied' = (Occupied \ {at}) \cup {hole}
    BY <1>2, <1>3, <1>4 DEF Occupied
<1>6. /\ \A s \in Occupied : \E t \in Occupied' : slots'[t] = slots[s]
      /\ \A t \in Occupied' : \E s \in Occupied : slots'[t] = slots[s]
    BY <1>2, <1>3, <1>4, <1>5
<1>7. HeldKeys' = HeldKeys
    BY <1>6 DEF HeldKeys
<1>8. ASSUME NEW x \in HeldKeys'
      PROVE  Contents'[x] = Contents[x]
    <2>1. PICK t \in Occupied' : slots'[t].key = x /\ Contents'[x] = slots'[t].value
        BY ContentsAgain
    <2>2. PICK s \in Occupied : slots'[t] = slots[s]
        BY <1>6
    <2>3. QED
        BY <2>1, <2>2, ContentsAre
<1>9. Contents' = Contents
    <2>1. Contents' = [x \in HeldKeys' |-> Contents'[x]] /\ Contents = [x \in HeldKeys |-> Contents[x]]
        BY DEF Contents
    <2>2. QED
        BY <1>7, <1>8, <2>1
<1>10. Asked' = Asked
    BY <1>1, <1>2 DEF Asked
<1>11. QED
    BY <1>1, <1>9, <1>10 DEF Index!vars

(* Nor does a step that leaves the table alone show.                       *)
LEMMA StepHides ==
    ASSUME MapInv, Walk \/ ShiftOn \/ ShiftEnds
    PROVE  UNCHANGED Index!vars
<1>1. slots' = slots /\ answer' = answer
    BY DEF Walk, ShiftOn, ShiftEnds
<1>2. Asked' = Asked
    <2>1. CASE Walk
        <3>1. /\ call.op \in {"get", "put", "remove"}
              /\ call' = [call EXCEPT !.at = After(@), !.probes = IF call.op = "put" THEN @ + 1 ELSE @]
            BY <2>1 DEF Walk
        <3>2. call # Idle
            BY <3>1, IdleIs
        <3>3. call'.op = call.op /\ call'.key = call.key /\ call'.value = call.value
            <4>1. CASE call.op = "put"
                BY <3>1, <3>2, <4>1, CallAt DEF MapInv
            <4>2. CASE call.op \in {"get", "remove"}
                BY <3>1, <3>2, <4>2, CallAt DEF MapInv
            <4>3. QED
                BY <3>1, <4>1, <4>2
        <3>4. QED
            BY <3>1, <3>3 DEF Asked
    <2>2. CASE ShiftOn
        <3>1. call.op = "shift" /\ call' = [call EXCEPT !.at = After(@)]
            BY <2>2 DEF ShiftOn
        <3>2. call'.op = "shift"
            BY <3>1, MendingAt
        <3>3. QED
            BY <3>1, <3>2 DEF Asked
    <2>3. CASE ShiftEnds
        BY <2>3, IdleIs DEF ShiftEnds, Asked
    <2>4. QED
        BY <2>1, <2>2, <2>3
<1>3. QED
    BY <1>1, <1>2, SameContents DEF Index!vars

(* An empty table holds nothing. *)
LEMMA NothingHeld == Occupied = {} => Contents = <<>>
<1> SUFFICES ASSUME Occupied = {}
             PROVE  Contents = <<>>
    OBVIOUS
<1>1. HeldKeys = {}
    BY DEF HeldKeys
<1>2. Contents = [k \in {} |-> slots[CHOOSE s \in Occupied : slots[s].key = k].value]
    BY <1>1 DEF Contents
<1>3. QED
    BY <1>2

(* Clearing the table clears the index. *)
LEMMA ClearAnswers ==
    Clear => Index!Clear
<1> SUFFICES ASSUME Clear
             PROVE  Index!Clear
    OBVIOUS
<1>1. call = Idle /\ slots' = [s \in Slots |-> Empty] /\ call' = call /\ answer' = answer
    BY DEF Clear
<1>2. Occupied' = {}
    BY <1>1 DEF Occupied
<1>3. (Occupied = {} => Contents = <<>>)'
    BY NothingHeld, PTL
<1>4. Asked = Index!Nothing /\ Asked' = Asked
    BY <1>1, IdleIs DEF Asked, Index!Nothing, Idle
<1>5. QED
    BY <1>1, <1>2, <1>3, <1>4 DEF Index!Clear

(* Every step of the map is one of the index, or none that can be seen.    *)
LEMMA StepAnswers ==
    ASSUME MapInv, MapInv', [Next]_vars
    PROVE  [Index!Next]_(Index!vars)
<1>1. CASE CallGet
    BY <1>1, CallAsks DEF CallGet, Index!Next
<1>2. CASE CallRemove
    BY <1>2, CallAsks DEF CallRemove, Index!Next
<1>3. CASE CallPut
    BY <1>3, CallAsks DEF CallPut, Index!Next
<1>4. CASE Clear
    BY <1>4, ClearAnswers DEF Index!Next
<1>5. CASE Walk \/ ShiftOn \/ ShiftEnds
    BY <1>5, StepHides
<1>6. CASE Refuse
    BY <1>6, RefuseAnswers DEF Index!Next
<1>7. CASE Absent
    BY <1>7, AbsentAnswers DEF Index!Next
<1>8. CASE Get
    BY <1>8, GetAnswers DEF Index!Next
<1>9. CASE Insert
    BY <1>9, InsertAnswers DEF Index!Next
<1>10. CASE Update
    BY <1>10, UpdateAnswers DEF Index!Next
<1>11. CASE Remove
    BY <1>11, RemoveAnswers DEF Index!Next
<1>12. CASE ShiftBack
    BY <1>12, ShiftBackHides
<1>13. CASE UNCHANGED vars
    BY <1>13, SameContents DEF vars, Asked, Index!vars
<1>14. QED
    BY <1>1, <1>2, <1>3, <1>4, <1>5, <1>6, <1>7, <1>8, <1>9, <1>10, <1>11, <1>12, <1>13
       DEF Next, Proceed

(* The map is an index: every call takes effect at once and on its own     *)
(* entry alone, however many entries a deletion then moves.                *)
THEOREM MapIsAnIndex == Spec => ImplementsKeyIndex
<1>1. Init => Index!Init
    <2> SUFFICES ASSUME Init
                 PROVE  Index!Init
        OBVIOUS
    <2>1. Occupied = {} /\ Asked = Index!Nothing /\ answer = "no"
        BY IdleIs DEF Init, Occupied, Asked, Index!Nothing, Idle
    <2>2. QED
        BY <2>1, NothingHeld DEF Index!Init
<1>2. MapInv /\ MapInv' /\ [Next]_vars => [Index!Next]_(Index!vars)
    BY StepAnswers
<1>3. QED
    BY <1>1, <1>2, InitMaps, NextMaps, PTL DEF Spec, ImplementsKeyIndex, Index!Spec

-----------------------------------------------------------------------------
(* What the ring's arithmetic rests on: its head and its length stay inside *)
(* its slots.                                                              *)
Rings == [slots : [RingSlots -> Int], head : RingSlots, length : 0..RingCapacity]

RingOK == ring \in Rings

(* A ring's contents are a sequence, of its length. *)
LEMMA QueueIsASequence ==
    ASSUME NEW r \in Rings
    PROVE  /\ QueueIn(r) \in Seq(Int)
           /\ Len(QueueIn(r)) = r.length
           /\ \A j \in 1..r.length : PlaceIn(r, j) \in RingSlots
<1>1. /\ RingCapacity \in Nat /\ RingCapacity > 0
      /\ r.length \in Nat /\ r.length <= RingCapacity
      /\ r.head \in Nat /\ r.head < RingCapacity
      /\ r.slots \in [RingSlots -> Int]
    BY ContainersAssumption DEF Rings, RingSlots
<1>2. \A j \in 1..r.length : PlaceIn(r, j) \in RingSlots
    BY <1>1 DEF RingSlots, PlaceIn
<1>3. \A j \in 1..r.length : r.slots[PlaceIn(r, j)] \in Int
    BY <1>1, <1>2
<1>4. QueueIn(r) \in [1..r.length -> Int]
    BY <1>3 DEF QueueIn
<1>5. QueueIn(r) \in Seq(Int) /\ Len(QueueIn(r)) = r.length
    BY <1>1, <1>4
<1>6. QED
    BY <1>2, <1>5

(* The word is wide enough for the sum of a head and an offset. *)
LEMMA PlaceIsInside ==
    ASSUME RingOK, NEW offset \in 0..(RingCapacity - 1)
    PROVE  /\ RingPlace(offset) \in RingSlots
           /\ RingPlace(offset) = PlaceIn(ring, offset + 1)
<1>1. /\ RingCapacity \in Nat /\ RingCapacity > 0
      /\ Word \in Nat /\ 2 * RingCapacity <= Word
      /\ ring.head \in Nat /\ ring.head < RingCapacity
      /\ offset \in Nat /\ offset < RingCapacity
    BY ContainersAssumption DEF RingOK, Rings, RingSlots
<1>2. ring.head + offset \in Nat /\ ring.head + offset < Word
    BY <1>1
<1>3. (ring.head + offset) % Word = ring.head + offset
    BY <1>1, <1>2
<1>4. RingPlace(offset) = IF ring.head + offset >= RingCapacity
                          THEN ring.head + offset - RingCapacity ELSE ring.head + offset
    BY <1>1, <1>3 DEF RingPlace
<1>5. ring.head + (offset + 1) - 1 = ring.head + offset
    BY <1>1
<1>6. PlaceIn(ring, offset + 1) = IF ring.head + offset < RingCapacity
                                  THEN ring.head + offset ELSE ring.head + offset - RingCapacity
    BY <1>5 DEF PlaceIn
<1>7. QED
    BY <1>1, <1>4, <1>6 DEF RingSlots

(* A push goes behind everything else. *)
LEMMA PushAppends ==
    ASSUME NEW r \in Rings, NEW v \in Int, r.length < RingCapacity,
           NEW s,
           s = [slots  |-> [r.slots EXCEPT ![PlaceIn(r, r.length + 1)] = v],
                head   |-> r.head,
                length |-> r.length + 1]
    PROVE  s \in Rings /\ QueueIn(s) = Append(QueueIn(r), v)
<1>1. /\ RingCapacity \in Nat /\ RingCapacity > 0
      /\ r.length \in Nat /\ r.length + 1 \in 0..RingCapacity
      /\ r.head \in Nat /\ r.head < RingCapacity /\ r.head \in RingSlots
      /\ r.slots \in [RingSlots -> Int]
    BY ContainersAssumption DEF Rings, RingSlots
<1>2. PlaceIn(r, r.length + 1) \in RingSlots
    <2>1. r.head + (r.length + 1) - 1 = r.head + r.length
        BY <1>1
    <2>2. PlaceIn(r, r.length + 1) = IF r.head + r.length < RingCapacity
                                     THEN r.head + r.length ELSE r.head + r.length - RingCapacity
        BY <1>1, <2>1 DEF PlaceIn
    <2>3. QED
        BY <1>1, <2>2, SMTT(30) DEF RingSlots
<1>3. s \in Rings
    BY <1>1, <1>2 DEF Rings
<1>4. s.length = r.length + 1 /\ \A j \in 1..s.length : PlaceIn(s, j) = PlaceIn(r, j)
    BY DEF PlaceIn
<1>5. \A j \in 1..r.length : PlaceIn(r, j) # PlaceIn(r, r.length + 1)
    BY <1>1 DEF PlaceIn
<1>6. /\ QueueIn(r) \in Seq(Int) /\ Len(QueueIn(r)) = r.length
      /\ QueueIn(s) \in Seq(Int) /\ Len(QueueIn(s)) = r.length + 1
      /\ \A j \in 1..r.length : PlaceIn(r, j) \in RingSlots
    BY <1>3, <1>4, QueueIsASequence
<1>7. /\ \A j \in 1..r.length : QueueIn(r)[j] = r.slots[PlaceIn(r, j)]
      /\ \A j \in 1..s.length : QueueIn(s)[j] = s.slots[PlaceIn(s, j)]
    BY DEF QueueIn
<1>8. ASSUME NEW j \in 1..r.length
      PROVE  QueueIn(s)[j] = QueueIn(r)[j]
    <2>1. j \in 1..s.length
        BY <1>1, <1>4
    <2>2. QueueIn(s)[j] = s.slots[PlaceIn(r, j)]
        BY <1>4, <1>7, <2>1
    <2>3. s.slots[PlaceIn(r, j)] = r.slots[PlaceIn(r, j)]
        BY <1>1, <1>2, <1>5, <1>6
    <2>4. QED
        BY <1>7, <2>2, <2>3
<1>9. QueueIn(s)[r.length + 1] = v
    <2>1. r.length + 1 \in 1..s.length
        BY <1>1, <1>4
    <2>2. QueueIn(s)[r.length + 1] = s.slots[PlaceIn(r, r.length + 1)]
        BY <1>4, <1>7, <2>1
    <2>3. QED
        BY <1>1, <1>2, <2>2
<1>10. /\ Append(QueueIn(r), v) \in Seq(Int)
       /\ Len(Append(QueueIn(r), v)) = r.length + 1
       /\ \A j \in 1..r.length : Append(QueueIn(r), v)[j] = QueueIn(r)[j]
       /\ Append(QueueIn(r), v)[r.length + 1] = v
    BY <1>6, AppendProperties
<1>11. \A j \in 1..(r.length + 1) : QueueIn(s)[j] = Append(QueueIn(r), v)[j]
    <2> TAKE j \in 1..(r.length + 1)
    <2>1. j \in 1..r.length \/ j = r.length + 1
        BY <1>1
    <2>2. QED
        BY <1>8, <1>9, <1>10, <2>1
<1>12. QueueIn(s) = Append(QueueIn(r), v)
    BY <1>6, <1>10, <1>11, SeqEqual
<1>13. QED
    BY <1>3, <1>12

(* A pop takes the first. *)
LEMMA PopTakesTheFirst ==
    ASSUME NEW r \in Rings, r.length > 0,
           NEW s,
           s = [slots  |-> r.slots,
                head   |-> IF r.head + 1 >= RingCapacity THEN 0 ELSE r.head + 1,
                length |-> r.length - 1]
    PROVE  /\ s \in Rings
           /\ QueueIn(r) # <<>>
           /\ QueueIn(s) = Tail(QueueIn(r))
           /\ r.slots[r.head] = Head(QueueIn(r))
<1>1. /\ RingCapacity \in Nat /\ RingCapacity > 0
      /\ r.length \in Nat /\ r.length - 1 \in 0..RingCapacity
      /\ r.head \in Nat /\ r.head < RingCapacity
      /\ r.slots \in [RingSlots -> Int]
    BY ContainersAssumption DEF Rings, RingSlots
<1>2. s.head \in RingSlots
    <2>1. s.head = IF r.head + 1 >= RingCapacity THEN 0 ELSE r.head + 1
        OBVIOUS
    <2>2. QED
        BY <1>1, <2>1, SMTT(30) DEF RingSlots
<1>3. s \in Rings
    BY <1>1, <1>2 DEF Rings
<1>4. \A j \in 1..(r.length - 1) : PlaceIn(s, j) = PlaceIn(r, j + 1)
    <2>1. CASE r.head + 1 >= RingCapacity
        <3>1. r.head + 1 = RingCapacity /\ s.head = 0
            BY <1>1, <2>1
        <3>2. QED
            BY <1>1, <3>1 DEF PlaceIn
    <2>2. CASE r.head + 1 < RingCapacity
        <3>1. s.head = r.head + 1
            BY <1>1, <2>2
        <3>2. QED
            BY <1>1, <3>1 DEF PlaceIn
    <2>3. QED
        BY <1>1, <2>1, <2>2
<1>5. /\ QueueIn(r) \in Seq(Int) /\ Len(QueueIn(r)) = r.length
      /\ QueueIn(s) \in Seq(Int) /\ Len(QueueIn(s)) = r.length - 1
    BY <1>3, QueueIsASequence
<1>6. /\ \A j \in 1..r.length : QueueIn(r)[j] = r.slots[PlaceIn(r, j)]
      /\ \A j \in 1..(r.length - 1) : QueueIn(s)[j] = r.slots[PlaceIn(s, j)]
    BY DEF QueueIn
<1>7. QueueIn(r) # <<>>
    BY <1>1, <1>5
<1>8. /\ Tail(QueueIn(r)) \in Seq(Int)
      /\ Len(Tail(QueueIn(r))) = r.length - 1
      /\ \A j \in 1..(r.length - 1) : Tail(QueueIn(r))[j] = QueueIn(r)[j + 1]
    BY <1>5, <1>7, HeadTailProperties
<1>9. ASSUME NEW j \in 1..(r.length - 1)
      PROVE  QueueIn(s)[j] = Tail(QueueIn(r))[j]
    <2>1. j + 1 \in 1..r.length
        BY <1>1
    <2>2. QueueIn(r)[j + 1] = r.slots[PlaceIn(r, j + 1)]
        BY <1>6, <2>1
    <2>3. QED
        BY <1>4, <1>6, <1>8, <2>2
<1>10. QueueIn(s) = Tail(QueueIn(r))
    BY <1>5, <1>8, <1>9, SeqEqual
<1>11. Head(QueueIn(r)) = r.slots[r.head]
    <2>1. Head(QueueIn(r)) = QueueIn(r)[1]
        OBVIOUS
    <2>2. 1 \in 1..r.length /\ PlaceIn(r, 1) = r.head
        BY <1>1 DEF PlaceIn
    <2>3. QED
        BY <1>6, <2>1, <2>2
<1>12. QED
    BY <1>3, <1>7, <1>10, <1>11

(* The ring stays a ring, and each call does what a queue would. *)
LEMMA RingStepServes ==
    ASSUME RingOK, RingNext
    PROVE  RingOK' /\ RingStep
<1>1. /\ RingCapacity \in Nat /\ RingCapacity > 0
      /\ ring.length \in Nat /\ ring.length <= RingCapacity
      /\ ring = [slots |-> ring.slots, head |-> ring.head, length |-> ring.length]
    BY ContainersAssumption DEF RingOK, Rings
<1>2. Queued \in Seq(Int) /\ Len(Queued) = ring.length
    BY QueueIsASequence DEF RingOK, Queued
<1>3. Queued # <<>> <=> ring.length > 0
    BY <1>1, <1>2
<1>4. (UNCHANGED ring) => RingOK' /\ Queued' = Queued
    BY DEF RingOK, Queued
<1>5. CASE PushBack
    <2>1. PICK v \in RingValues :
             IF ring.length >= RingCapacity
             THEN UNCHANGED ring /\ ringReply' = Reply("push_back", v, FALSE, Nil)
             ELSE /\ ring' = [ring EXCEPT !.slots[RingPlace(ring.length)] = v, !.length = @ + 1]
                  /\ ringReply' = Reply("push_back", v, TRUE, Nil)
        BY <1>5 DEF PushBack
    <2>2. CASE ring.length >= RingCapacity
        <3>1. ringReply' = Reply("push_back", v, FALSE, Nil) /\ UNCHANGED ring
            BY <2>1, <2>2
        <3>2. ~ (Len(Queued) < RingCapacity)
            BY <1>1, <1>2, <2>2
        <3>3. QED
            BY <1>4, <3>1, <3>2 DEF RingStep, Reply
    <2>3. CASE ring.length < RingCapacity
        <3>0. ~ (ring.length >= RingCapacity)
            BY <1>1, <2>3
        <3>1. RingPlace(ring.length) = PlaceIn(ring, ring.length + 1)
            BY <1>1, <2>3, PlaceIsInside
        <3>2. ring' = [slots  |-> [ring.slots EXCEPT ![PlaceIn(ring, ring.length + 1)] = v],
                       head   |-> ring.head,
                       length |-> ring.length + 1]
            <4>1. ring' = [ring EXCEPT !.slots[RingPlace(ring.length)] = v, !.length = @ + 1]
                BY <2>1, <3>0
            <4>2. QED
                BY <1>1, <3>1, <4>1
        <3>3. v \in Int
            BY ContainersAssumption
        <3>4. ring' \in Rings /\ QueueIn(ring') = Append(QueueIn(ring), v)
            BY <2>3, <3>2, <3>3, PushAppends DEF RingOK
        <3>5. RingOK' /\ Queued' = Append(Queued, v)
            BY <3>4 DEF RingOK, Queued
        <3>6. ringReply' = Reply("push_back", v, TRUE, Nil)
            BY <2>1, <3>0
        <3>7. QED
            BY <1>2, <2>3, <3>5, <3>6 DEF RingStep, Reply
    <2>4. QED
        BY <1>1, <2>2, <2>3
<1>6. CASE PopFront
    <2>1. CASE ring.length = 0
        <3>1. (UNCHANGED ring) /\ ringReply' = Reply("pop_front", Nil, FALSE, Nil)
            BY <1>6, <2>1 DEF PopFront
        <3>2. ~ (Queued # <<>>)
            BY <1>3, <2>1
        <3>3. QED
            BY <1>4, <3>1, <3>2 DEF RingStep, Reply
    <2>2. CASE ring.length # 0
        <3>1. /\ ring' = [slots  |-> ring.slots,
                          head   |-> IF ring.head + 1 >= RingCapacity THEN 0 ELSE ring.head + 1,
                          length |-> ring.length - 1]
              /\ ringReply' = Reply("pop_front", Nil, TRUE, ring.slots[ring.head])
            BY <1>1, <1>6, <2>2 DEF PopFront
        <3>2. ring.length > 0
            BY <1>1, <2>2
        <3>3. /\ ring' \in Rings
              /\ QueueIn(ring) # <<>>
              /\ QueueIn(ring') = Tail(QueueIn(ring))
              /\ ring.slots[ring.head] = Head(QueueIn(ring))
            BY <3>1, <3>2, PopTakesTheFirst DEF RingOK
        <3>4. RingOK' /\ Queued' = Tail(Queued) /\ Queued # <<>>
            BY <3>3 DEF RingOK, Queued
        <3>5. ring.slots[ring.head] = Head(Queued)
            BY <3>3 DEF Queued
        <3>6. QED
            BY <3>1, <3>4, <3>5 DEF RingStep, Reply
    <2>3. QED
        BY <2>1, <2>2
<1>7. CASE PeekFront
    <2>1. RingOK' /\ Queued' = Queued
        BY <1>4, <1>7 DEF PeekFront
    <2>2. CASE ring.length = 0
        <3>1. ringReply' = Reply("peek_front", Nil, FALSE, Nil)
            BY <1>7, <2>2 DEF PeekFront
        <3>2. ~ (Queued # <<>>)
            BY <1>3, <2>2
        <3>3. QED
            BY <2>1, <3>1, <3>2 DEF RingStep, Reply
    <2>3. CASE ring.length # 0
        <3>1. ringReply' = Reply("peek_front", Nil, TRUE, ring.slots[ring.head])
            BY <1>7, <2>3 DEF PeekFront
        <3>2. ring.length > 0
            BY <1>1, <2>3
        <3>3. ring.slots[ring.head] = Head(Queued)
            BY <3>2, PopTakesTheFirst DEF RingOK, Queued
        <3>4. QED
            BY <1>3, <2>1, <3>1, <3>2, <3>3 DEF RingStep, Reply
    <2>4. QED
        BY <2>2, <2>3
<1>8. CASE RingAt
    <2>1. PICK offset \in 0..RingCapacity :
             /\ UNCHANGED ring
             /\ ringReply' =
                   IF offset >= ring.length THEN Reply("at", offset, FALSE, Nil)
                   ELSE Reply("at", offset, TRUE, ring.slots[RingPlace(offset)])
        BY <1>8 DEF RingAt
    <2>2. RingOK' /\ Queued' = Queued
        BY <1>4, <2>1
    <2>3. offset \in Nat
        BY <1>1
    <2>4. CASE offset >= ring.length
        <3>1. ringReply' = Reply("at", offset, FALSE, Nil)
            BY <2>1, <2>4
        <3>2. ~ (offset < Len(Queued))
            BY <1>1, <1>2, <2>3, <2>4
        <3>3. QED
            BY <2>2, <3>1, <3>2 DEF RingStep, Reply
    <2>5. CASE offset < ring.length
        <3>1. offset \in 0..(RingCapacity - 1) /\ offset + 1 \in 1..ring.length
            BY <1>1, <2>3, <2>5
        <3>2. RingPlace(offset) = PlaceIn(ring, offset + 1)
            BY <3>1, PlaceIsInside
        <3>3. Queued[offset + 1] = ring.slots[RingPlace(offset)]
            BY <3>1, <3>2 DEF Queued, QueueIn
        <3>4. ringReply' = Reply("at", offset, TRUE, ring.slots[RingPlace(offset)])
            <4>1. ~ (offset >= ring.length)
                BY <1>1, <2>3, <2>5
            <4>2. QED
                BY <2>1, <4>1
        <3>5. QED
            BY <1>2, <2>2, <2>5, <3>3, <3>4 DEF RingStep, Reply
    <2>6. QED
        BY <1>1, <2>3, <2>4, <2>5
<1>9. CASE ClearRing
    <2>1. /\ ring' = [slots |-> ring.slots, head |-> 0, length |-> 0]
          /\ ringReply' = Reply("clear", Nil, TRUE, Nil)
        BY <1>1, <1>9 DEF ClearRing
    <2>2. RingOK'
        BY <1>1, <2>1 DEF RingOK, Rings, RingSlots
    <2>3. QueueIn(ring') \in Seq(Int) /\ Len(QueueIn(ring')) = 0
        BY <2>1, <2>2, QueueIsASequence DEF RingOK
    <2>4. Queued' = <<>>
        BY <2>3 DEF Queued
    <2>5. QED
        BY <2>1, <2>2, <2>4 DEF RingStep, Reply
<1>10. QED
    BY <1>5, <1>6, <1>7, <1>8, <1>9 DEF RingNext

(* For every size of ring, and of word that holds twice it. *)
THEOREM RingIsAQueue == ContainersSpec => RingServes
<1>1. ContainersInit => RingOK
    BY ContainersAssumption DEF ContainersInit, EmptyRing, RingOK, Rings, RingSlots, Unset
<1>2. RingOK /\ [ContainersNext]_containerVars => RingOK' /\ [RingStep]_ringVars
    <2> SUFFICES ASSUME RingOK, [ContainersNext]_containerVars
                 PROVE  RingOK' /\ [RingStep]_ringVars
        OBVIOUS
    <2>1. CASE RingNext
        BY <2>1, RingStepServes
    <2>2. CASE UNCHANGED ringVars
        BY <2>2 DEF ringVars, RingOK
    <2>3. QED
        BY <2>1, <2>2 DEF ContainersNext, HeapNext, containerVars
<1>3. QED
    BY <1>1, <1>2, PTL DEF ContainersSpec, RingServes
=============================================================================
