------------------------------ MODULE KeyIndex ------------------------------
(***************************************************************************)
(* What a fixed table from keys to slots promises its caller (map.h): each *)
(* call takes effect at one instant, on the entry it was asked about.      *)
(***************************************************************************)
EXTENDS Integers, FiniteSets, Functions

CONSTANTS
    Keys,
    Values,         \* what each key may be mapped to
    Capacity,       \* what the table has room for
    MaxEntries      \* how many entries the caller ever holds

VARIABLES
    contents,   \* the entries: a function from the keys held
    asked,      \* the call that has not taken effect: [op, key, value]
    answer      \* what the last call said: a value, "yes" or "no"

vars == <<contents, asked, answer>>

Nothing == [op |-> "idle"]

Init == contents = <<>> /\ asked = Nothing /\ answer = "no"

Held == DOMAIN contents

Count == Cardinality(Held)

Ask ==
    /\ asked = Nothing
    /\ asked' \in [op : {"get", "remove"}, key : Keys, value : {"none"}]
           \cup UNION {[op : {"put"}, key : {k}, value : Values[k]] : k \in Keys}
    /\ answer' = "none"
    /\ UNCHANGED contents

Answer(op, result) ==
    /\ asked.op = op
    /\ asked' = Nothing
    /\ answer' = result

(* pb_map_get *)
Get ==
    /\ Answer("get", IF asked.key \in Held THEN contents[asked.key] ELSE "no")
    /\ UNCHANGED contents

(* pb_map_put *)
Put ==
    /\ Answer("put", "yes")
    /\ asked.key \in Held \/ Count < MaxEntries
    /\ contents' = [k \in Held \cup {asked.key} |->
                        IF k = asked.key THEN asked.value ELSE contents[k]]

(* pb_map_put, of a new key into a full table *)
Refuse ==
    /\ Answer("put", "no")
    /\ asked.key \notin Held /\ Count = Capacity
    /\ UNCHANGED contents

(* pb_map_remove *)
Remove ==
    /\ Answer("remove", IF asked.key \in Held THEN "yes" ELSE "no")
    /\ contents' = Restrict(contents, Held \ {asked.key})

(* pb_map_clear *)
Clear == asked = Nothing /\ contents' = <<>> /\ UNCHANGED <<asked, answer>>

Next == Ask \/ Get \/ Put \/ Refuse \/ Remove \/ Clear

Spec == Init /\ [][Next]_vars
=============================================================================
