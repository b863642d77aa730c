------------------------------ MODULE OpenMap -------------------------------
(***************************************************************************)
(* pb_map, the index of every C policy: open addressing with linear        *)
(* probing and backward-shift deletion, probe by probe.                    *)
(***************************************************************************)
EXTENDS Integers, FiniteSets, Functions

CONSTANTS
    Keys,
    Values,         \* what each key may be mapped to
    Capacity,       \* slots in the table, a power of two
    MaxEntries      \* bound: entries the caller ever holds

ASSUME MapAssumption ==
    /\ Capacity \in Nat \ {0}
    /\ MaxEntries \in 1..Capacity
    /\ DOMAIN Values = Keys
    /\ "none" \notin Keys

VARIABLES
    hash,       \* where each key's probe starts: any function at all
    slots,      \* an entry or Empty
    count,
    call,       \* the call in progress: its operation, arguments and position
    answer      \* what the last call says, once it can say it: a value,
                \* "yes" or "no"

vars == <<hash, slots, count, call, answer>>

Slots == 0..(Capacity - 1)

Empty == [key |-> "none", value |-> "none"]

Idle == [op |-> "idle"]

Occupied == {s \in Slots : slots[s] # Empty}

HeldKeys == {slots[s].key : s \in Occupied}

(* mutant of After: a stride that shares a factor with the table *)
AfterNext(s) == (s + 2) % Capacity

After(s) == (s + 1) % Capacity

Init ==
    /\ hash \in [Keys -> Slots]
    /\ slots = [s \in Slots |-> Empty]
    /\ count = 0
    /\ call = Idle
    /\ answer = "no"

-----------------------------------------------------------------------------
Call(op, k, v) ==
    /\ call = Idle
    /\ call' = [op |-> op, key |-> k, value |-> v, at |-> hash[k], probes |-> 0]
    /\ answer' = "none"
    /\ UNCHANGED <<hash, slots, count>>

CallGet == \E k \in Keys : Call("get", k, "none")

CallRemove == \E k \in Keys : Call("remove", k, "none")

(* The caller holds to its own number of entries. *)
CallPut ==
    \E k \in Keys : \E v \in Values[k] :
        /\ k \in HeldKeys \/ count < MaxEntries \/ count = Capacity
        /\ Call("put", k, v)

Clear ==
    /\ call = Idle
    /\ slots' = [s \in Slots |-> Empty]
    /\ count' = 0
    /\ UNCHANGED <<hash, call, answer>>

Return(result) == call' = Idle /\ answer' = result

Here == slots[call.at]

(* Another key is in the way.  Only pb_map_put counts its probes. *)
Walk ==
    /\ call.op \in {"get", "put", "remove"}
    /\ Here # Empty /\ Here.key # call.key
    /\ call.op = "put" => call.probes + 1 < Capacity
    /\ call' = [call EXCEPT !.at = After(@),
                            !.probes = IF call.op = "put" THEN @ + 1 ELSE @]
    /\ UNCHANGED <<hash, slots, count, answer>>

Refuse ==
    /\ call.op = "put"
    /\ Here # Empty /\ Here.key # call.key
    /\ call.probes + 1 = Capacity
    /\ Return("no")
    /\ UNCHANGED <<hash, slots, count>>

Absent ==
    /\ call.op \in {"get", "remove"}
    /\ Here = Empty
    /\ Return("no")
    /\ UNCHANGED <<hash, slots, count>>

Get ==
    /\ call.op = "get"
    /\ Here.key = call.key
    /\ Return(Here.value)
    /\ UNCHANGED <<hash, slots, count>>

Insert ==
    /\ call.op = "put"
    /\ Here = Empty
    /\ slots' = [slots EXCEPT ![call.at] = [key |-> call.key, value |-> call.value]]
    /\ count' = count + 1
    /\ Return("yes")
    /\ UNCHANGED hash

Update ==
    /\ call.op = "put"
    /\ Here.key = call.key
    /\ slots' = [slots EXCEPT ![call.at].value = call.value]
    /\ Return("yes")
    /\ UNCHANGED <<hash, count>>

(* mutant of Remove: the entry goes and its neighbours stay *)
RemoveLeavesHole ==
    /\ call.op = "remove"
    /\ Here.key = call.key
    /\ slots' = [slots EXCEPT ![call.at] = Empty]
    /\ count' = count - 1
    /\ Return("yes")
    /\ UNCHANGED hash

(* The entry goes, and the walk on from its slot begins. *)
Remove ==
    /\ call.op = "remove"
    /\ Here.key = call.key
    /\ slots' = [slots EXCEPT ![call.at] = Empty]
    /\ count' = count - 1
    /\ call' = [op |-> "shift", hole |-> call.at, at |-> After(call.at)]
    /\ answer' = "yes"
    /\ UNCHANGED hash

(* mutant of MayMoveBack: without regard to where the table wraps *)
MayMoveBackUnwrapped(ideal, hole, probe) == ideal <= hole

(* Whether the hole is on the way from an entry's ideal slot to its own. *)
MayMoveBack(ideal, hole, probe) ==
    IF probe > hole THEN ideal <= hole \/ ideal > probe
                    ELSE ideal <= hole /\ ideal > probe

ShiftBack ==
    /\ call.op = "shift"
    /\ Here # Empty
    /\ MayMoveBack(hash[Here.key], call.hole, call.at)
    /\ slots' = [slots EXCEPT ![call.hole] = Here, ![call.at] = Empty]
    /\ call' = [call EXCEPT !.hole = call.at, !.at = After(@)]
    /\ UNCHANGED <<hash, count, answer>>

ShiftOn ==
    /\ call.op = "shift"
    /\ Here # Empty
    /\ ~MayMoveBack(hash[Here.key], call.hole, call.at)
    /\ call' = [call EXCEPT !.at = After(@)]
    /\ UNCHANGED <<hash, slots, count, answer>>

ShiftEnds ==
    /\ call.op = "shift"
    /\ Here = Empty
    /\ call' = Idle
    /\ UNCHANGED <<hash, slots, count, answer>>

-----------------------------------------------------------------------------
Proceed ==
    \/ Walk \/ Refuse \/ Absent \/ Get \/ Insert \/ Update \/ Remove
    \/ ShiftBack \/ ShiftOn \/ ShiftEnds

Next == CallGet \/ CallPut \/ CallRemove \/ Clear \/ Proceed

(* A call runs on: nothing in it waits. *)
Spec == Init /\ [][Next]_vars /\ WF_vars(Proceed)

-----------------------------------------------------------------------------
(* The slots a probe for the key of slot s passes on its way there. *)
Before(s) ==
    LET ideal == hash[slots[s].key]
    IN  {t \in Slots : (t - ideal) % Capacity < (s - ideal) % Capacity}

(* Between calls no entry is behind an empty slot of its own probe, after  *)
(* any sequence of insertions and deletions, whatever the hash and however *)
(* a cluster wraps: deletion leaves no trace (map.c:187-210).  At all      *)
(* times no key is held twice and the count is the number of entries.      *)
Findable ==
    /\ call = Idle => \A s \in Occupied : Before(s) \subseteq Occupied
    /\ count = Cardinality(Occupied)
    /\ \A s, t \in Occupied : slots[s].key = slots[t].key => s = t

Contents == [k \in HeldKeys |-> slots[CHOOSE s \in Occupied : slots[s].key = k].value]

(* The call, until it has taken effect. *)
Asked ==
    IF call.op \in {"idle", "shift"} THEN Idle
    ELSE [op |-> call.op, key |-> call.key, value |-> call.value]

Index == INSTANCE KeyIndex WITH contents <- Contents, asked <- Asked

(* Every answer is the one the table's contents give for the key it was    *)
(* asked about, and nothing but the call changes them (map.h:56-75).       *)
ImplementsKeyIndex == Index!Spec

(* The table is full and the call walks it for a key it does not hold. *)
Endless ==
    /\ count = Capacity
    /\ call # Idle
    /\ call.op \in {"get", "remove"} /\ call.key \notin HeldKeys

(* Every call returns but one on a full table: the walks of pb_map_put and *)
(* of a removal are bounded whatever is stored where (map.c:123-148 and    *)
(* 187-210).                                                               *)
ReturnsUnlessFull == call # Idle ~> call = Idle \/ Endless

(* Every call returns (tests/test_ds.c:569-570 of the full table: "the     *)
(* walk must be bounded by the table").                                    *)
CallsReturn == call # Idle ~> call = Idle
=============================================================================
