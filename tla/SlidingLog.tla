----------------------------- MODULE SlidingLog -----------------------------
(***************************************************************************)
(* The sliding log: per key, a ring of the timestamps admitted, exactly    *)
(* Limit slots because no more can be in the window at once.  Expiry is    *)
(* lazy, from the oldest end, and stops at the first live timestamp; every *)
(* call that looks at a log expires it first.                              *)
(***************************************************************************)
EXTENDS WindowHarness, KeyTable, FiniteSetsExt

VARIABLE logs           \* the tracked keys' [times, head, count]

vars == <<windowVars, logs, taken>>

-----------------------------------------------------------------------------
Slots == 0..(Limit - 1)

Log == [times : [Slots -> 0..MaxTime], head : Slots, count : 0..Limit]

NewLog == [times |-> [i \in Slots |-> 0], head |-> 0, count |-> 0]

(* The slot of the i-th oldest timestamp; i = count is the next free one.  *)
SlotOf(log, i) == (log.head + i) % Limit

(* mutant of Expire: a timestamp exactly WindowMs old stays *)
ExpireOneLate(log, t) ==
    LET dead == Min({i \in 0..log.count :
                        i = log.count \/ log.times[SlotOf(log, i)] >= t - WindowMs})
    IN  [log EXCEPT !.head = SlotOf(log, dead), !.count = @ - dead]

(* Drop from the oldest end every timestamp that has left the window: one  *)
(* exactly WindowMs old has left it.                                       *)
Expire(log, t) ==
    LET dead == Min({i \in 0..log.count :
                        i = log.count \/ log.times[SlotOf(log, i)] > t - WindowMs})
    IN  [log EXCEPT !.head = SlotOf(log, dead), !.count = @ - dead]

(* A request costing n occupies n slots. *)
Append(log, cost) ==
    LET written == {SlotOf(log, log.count + i) : i \in 0..(cost - 1)}
    IN  [log EXCEPT !.times = [i \in Slots |-> IF i \in written THEN now ELSE @[i]],
                    !.count = @ + cost]

LogFor(k) == Expire(IF k \in DOMAIN logs THEN logs[k] ELSE NewLog, now)

Keep(k, log) ==
    logs' = [x \in DOMAIN logs \cup {k} |-> IF x = k THEN log ELSE logs[x]]

Fits(log, cost) == log.count + cost <= Limit

(* Admission waits on the oldest entry leaving the window. *)
WaitFor(log) ==
    IF log.count < Limit THEN 0 ELSE log.times[log.head] + WindowMs - now

-----------------------------------------------------------------------------
Init ==
    /\ WindowInit
    /\ TableInit
    /\ logs = [k \in {} |-> NewLog]

Tick(t) ==
    /\ Elapse(t)
    /\ UNCHANGED <<logs, taken>>

Admit(k, cost) ==
    /\ HasRoom(k, DOMAIN logs)
    /\ Fits(LogFor(k), cost)
    /\ Keep(k, Append(LogFor(k), cost))
    /\ Decide(k, cost, TRUE)
    /\ UNCHANGED taken

Refuse(k, cost) ==
    /\ HasRoom(k, DOMAIN logs)
    /\ ~ Fits(LogFor(k), cost)
    /\ Keep(k, LogFor(k))
    /\ Decide(k, cost, FALSE)
    /\ UNCHANGED taken

RefuseNewKey(k, cost) ==
    /\ TurnAway(k, cost, DOMAIN logs)
    /\ UNCHANGED <<logs, admitted>>

RetryAfterUntracked(k) ==
    /\ AnswerUntracked(k, DOMAIN logs)
    /\ UNCHANGED <<logs, admitted>>

RetryAfterTracked(k) ==
    /\ k \in DOMAIN logs
    /\ Keep(k, LogFor(k))
    /\ Read("retryAfter", k, WaitFor(LogFor(k)))
    /\ UNCHANGED taken

Next ==
    \/ \E t \in Later : Tick(t)
    \/ AnotherKey(DOMAIN logs) /\ UNCHANGED <<logs, admitted>>
    \/ \E k \in Keys :
          \/ \E cost \in Costs : Admit(k, cost) \/ Refuse(k, cost) \/ RefuseNewKey(k, cost)
          \/ RetryAfterUntracked(k) \/ RetryAfterTracked(k)

Spec == Init /\ [][Next]_vars

-----------------------------------------------------------------------------
(* Read from the head, a ring is never out of order, which is what lets    *)
(* expiry stop at the first live timestamp.                                *)
TypeOK ==
    /\ WindowTypeOK
    /\ TableOK(DOMAIN logs)
    /\ \A k \in DOMAIN logs :
          /\ logs[k] \in Log
          /\ \A i, j \in 0..(logs[k].count - 1) :
                i <= j => logs[k].times[SlotOf(logs[k], i)]
                              <= logs[k].times[SlotOf(logs[k], j)]

(* "At most `limit` in any `windowMs` interval", "true as stated rather    *)
(* than off by one at the edge" (sliding_log_expire): the interval may start  *)
(* at any instant, not only at a request.                                  *)
WindowCeiling ==
    \A k \in Keys : \A from \in 0..now :
        AdmittedIn(k, from, from + WindowMs - 1) <= Limit

(* A ring of Limit slots, expired lazily, is the exact trailing window for *)
(* every key it tracks: it never refuses what fits and its waits are exact. *)
E == INSTANCE ExactWindow

ExactStep == E!Next \/ (AtTheTable(DOMAIN logs) /\ UNCHANGED admitted)

ImplementsExactWindow == E!Init /\ [][ExactStep]_windowVars
=============================================================================
