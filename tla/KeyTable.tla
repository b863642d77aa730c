------------------------------ MODULE KeyTable ------------------------------
(***************************************************************************)
(* The bounded table of keys every C limiter keeps (its `index`, `used`    *)
(* and `max_keys`): the first MaxKeys keys seen are each given a slot and  *)
(* keep it for good.  Requests are followed for the harness's Keys; of all *)
(* the others only the slots they hold matter.  `tracked` is the set of    *)
(* followed keys that hold one, the domain of the policy's own state.      *)
(***************************************************************************)
EXTENDS RateLimiterHarness, FiniteSets

CONSTANT MaxKeys        \* slots in the table

ASSUME TableAssumption == MaxKeys \in Nat \ {0}

VARIABLE taken          \* the slots held by other keys

-----------------------------------------------------------------------------
Unknown == 2147483647   \* PB_RATELIMITER_RETRY_UNKNOWN: no wait is that long

(* mutant of TableFull: a slot too many is handed out *)
TableFullLate(tracked) == Cardinality(tracked) + taken > MaxKeys

TableFull(tracked) == Cardinality(tracked) + taken >= MaxKeys

(* A slot is found or claimed for k. *)
HasRoom(k, tracked) == k \in tracked \/ ~ TableFull(tracked)

(* With the table full a new key is never admitted, and zero would lie. *)
WaitUntracked(tracked) == IF TableFull(tracked) THEN Unknown ELSE 0

TableInit == taken = 0

(* A request for some other key, the first one to need a slot. *)
AnotherKey(tracked) ==
    /\ ~ TableFull(tracked)
    /\ taken' = taken + 1
    /\ reply' = [op |-> "none"]
    /\ UNCHANGED <<now, since, spent>>

(* Fail closed: a key with no slot is refused, and costs no slot. *)
TurnAway(k, cost, tracked) ==
    /\ ~ HasRoom(k, tracked)
    /\ AnswerAllow(k, cost, FALSE)
    /\ UNCHANGED taken

(* A key with no slot asks for its wait, and is given none for asking. *)
AnswerUntracked(k, tracked) ==
    /\ k \notin tracked
    /\ Answer("retryAfter", k, WaitUntracked(tracked))
    /\ UNCHANGED taken

-----------------------------------------------------------------------------
TableOK(tracked) ==
    /\ tracked \subseteq Keys
    /\ taken \in Nat
    /\ Cardinality(tracked) + taken <= MaxKeys

(* The steps an unbounded limiter would not take: another key's claim, and *)
(* what a key that will never be tracked is told.                          *)
AtTheTable(tracked) ==
    \/ AnotherKey(tracked)
    \/ \E k \in Keys \ tracked :
          /\ TableFull(tracked)
          /\ AnswerUntracked(k, tracked) \/ \E cost \in Costs : TurnAway(k, cost, tracked)
=============================================================================
