----------------------------- MODULE SimWorker ------------------------------
(***************************************************************************)
(* The simulation worker behind a runner: one simulation per policy, all   *)
(* stepped in lockstep, driven by messages and by a timer.  Each message   *)
(* and each timer is handled to completion except an init, which awaits an *)
(* import per policy and then the reference curve; anything can be handled *)
(* in between.  With it what a page knows, and how it folds in what the    *)
(* worker tells it, message by message, and what its own buttons say.      *)
(***************************************************************************)
EXTENDS Integers, Sequences, Functions, SequencesExt

CONSTANTS
    TotalSteps,     \* the length of every trace
    MaxMail         \* bound: messages in flight to the page

ASSUME StepsAssumption == TotalSteps \in Nat \ {0}

VARIABLES
    worker,     \* the worker's own state: see NewWorker
    inbox,      \* messages to the worker, in order
    outbox      \* messages from it, in order

workerVars == <<worker, inbox, outbox>>

-----------------------------------------------------------------------------
Lesser(x, y) == IF x < y THEN x ELSE y

NoFrames == <<>>

(* A page that has just been opened. *)
InitialView ==
    [status |-> "idle", epoch |-> 0, step |-> 0, total |-> 0,
     playing |-> FALSE, policies |-> <<>>, frames |-> NoFrames]

(* A page that is waiting for the configuration of an epoch. *)
LoadingView(epoch) ==
    [InitialView EXCEPT !.status = "loading", !.epoch = epoch]

(* mutant of Reduce: a frame that goes backwards is taken for a late one *)
ReduceForwardOnly(view, m) ==
    CASE m.epoch = view.epoch /\ m.type = "ready" ->
            [view EXCEPT !.status = "ready", !.total = m.total, !.policies = m.policies]
      [] m.epoch = view.epoch /\ m.type = "frame" /\ m.step >= view.step ->
            [view EXCEPT !.step = m.step, !.frames = m.frames]
      [] m.epoch = view.epoch /\ m.type = "error" ->
            [view EXCEPT !.status = "error", !.playing = FALSE]
      [] OTHER -> view

(* One message from the worker.  One from a configuration the page has     *)
(* moved past changes nothing, nor does a frame behind an error.           *)
Reduce(view, m) ==
    CASE m.epoch # view.epoch -> view
      [] m.epoch = view.epoch /\ m.type = "ready" ->
            [view EXCEPT !.status = "ready", !.total = m.total, !.policies = m.policies]
      [] m.epoch = view.epoch /\ m.type = "frame" ->
            IF view.status = "error" THEN view
            ELSE [view EXCEPT !.step = m.step, !.frames = m.frames]
      [] m.epoch = view.epoch /\ m.type = "error" ->
            [view EXCEPT !.status = "error", !.playing = FALSE]

(* Playing from the end restarts instead. *)
Play(view) ==
    [view EXCEPT !.playing = TRUE, !.step = IF @ >= view.total THEN 0 ELSE @]

Pause(view) == [view EXCEPT !.playing = FALSE]

-----------------------------------------------------------------------------
NewWorker ==
    [epoch   |-> 0,         \* the latest init's
     sims    |-> <<>>,      \* [policy, step], in the order asked for
     playing |-> FALSE,
     perTick |-> 1,
     timers  |-> 0,         \* timeouts pending
     held    |-> FALSE,     \* whether `timer` is one of them
     inits   |-> {}]        \* inits awaiting something: [epoch, policies, next]

(* mutant of Stopped: the timeout is not cleared *)
StoppedLater(w) == [w EXCEPT !.playing = FALSE]

(* clearTimeout knows the latest timeout and no other. *)
Stopped(w) ==
    [w EXCEPT !.playing = FALSE,
              !.timers = IF w.held THEN @ - 1 ELSE @,
              !.held = FALSE]

(* mutant of SoughtBefore: past the end of the trace *)
SoughtPastTheEnd(w, k, step) ==
    [w EXCEPT !.sims = [i \in DOMAIN @ |-> IF i < k THEN [@[i] EXCEPT !.step = step] ELSE @[i]]]

(* The simulations before the k-th moved to a step, forwards or backwards. *)
SoughtBefore(w, k, step) ==
    [w EXCEPT !.sims =
        [i \in DOMAIN @ |-> IF i < k THEN [@[i] EXCEPT !.step = Lesser(step, TotalSteps)]
                            ELSE @[i]]]

Sought(w, step) == SoughtBefore(w, Len(w.sims) + 1, step)

StepOf(w) == IF w.sims = <<>> THEN 0 ELSE w.sims[1].step

Frames(w) ==
    [p \in {s.policy : s \in Range(w.sims)} |->
        (CHOOSE s \in Range(w.sims) : s.policy = p).step]

Frame(w) == [type |-> "frame", epoch |-> w.epoch, step |-> StepOf(w), frames |-> Frames(w)]

Error(epoch) == [type |-> "error", epoch |-> epoch]

(* mutant of Ticked: on, but the next tick is not scheduled *)
TickedOnce(w) == Sought(w, StepOf(w) + w.perTick)

(* One animation tick of a worker that plays: on by perTick steps, and the *)
(* next tick is scheduled unless that was the end.                         *)
Ticked(w) ==
    LET moved == Sought(w, StepOf(w) + w.perTick)
    IN  IF StepOf(moved) >= TotalSteps
        THEN Stopped(moved)
        ELSE [moved EXCEPT !.timers = @ + 1, !.held = TRUE]

-----------------------------------------------------------------------------
Receive(type) ==
    /\ inbox # <<>>
    /\ Head(inbox).type = type
    /\ Len(outbox) < MaxMail
    /\ inbox' = Tail(inbox)

(* The epoch changes at once; then everything is stopped and dropped and   *)
(* the first import is awaited.                                            *)
HandleInit ==
    /\ Receive("init")
    /\ LET m == Head(inbox)
       IN  worker' = [Stopped(worker) EXCEPT
                        !.epoch = m.epoch,
                        !.sims = <<>>,
                        !.inits = @ \cup {[epoch |-> m.epoch, policies |-> m.policies, next |-> 1]}]
    /\ UNCHANGED outbox

HandleSeek ==
    /\ Receive("seek")
    /\ worker' = Sought(Stopped(worker), Head(inbox).step)
    /\ outbox' = Append(outbox, Frame(worker'))

(* Dropped while there is nothing to play. *)
HandlePlay ==
    /\ Receive("play")
    /\ IF worker.sims = <<>>
       THEN UNCHANGED <<worker, outbox>>
       ELSE /\ worker' = Ticked([worker EXCEPT !.playing = TRUE, !.perTick = Head(inbox).perTick])
            /\ outbox' = Append(outbox, Frame(worker'))

HandlePause ==
    /\ Receive("pause")
    /\ worker' = Stopped(worker)
    /\ UNCHANGED outbox

(* A policy throws while a message steps it, its predecessors already moved. *)
HandlerFails ==
    /\ Receive("seek") \/ Receive("play")
    /\ \E k \in 1..Len(worker.sims), step \in 0..TotalSteps :
            worker' = Stopped(SoughtBefore(worker, k, step))
    /\ outbox' = Append(outbox, Error(worker.epoch))

TimerFires ==
    /\ worker.timers > 0
    /\ Len(outbox) < MaxMail
    /\ LET fired == [worker EXCEPT !.timers = @ - 1, !.held = FALSE]
       IN  IF worker.playing /\ worker.sims # <<>>
           THEN /\ worker' = Ticked(fired)
                /\ outbox' = Append(outbox, Frame(worker'))
           ELSE /\ worker' = fired
                /\ UNCHANGED outbox
    /\ UNCHANGED inbox

(* A policy throws in a timer, outside any try: the browser reports the    *)
(* error to the page, and no tick is scheduled.                            *)
TimerFails ==
    /\ worker.timers > 0
    /\ worker.playing
    /\ Len(outbox) < MaxMail
    /\ \E k \in 1..Len(worker.sims) :
            worker' = [SoughtBefore(worker, k, StepOf(worker) + worker.perTick)
                        EXCEPT !.timers = @ - 1, !.held = FALSE]
    /\ outbox' = Append(outbox, Error(worker.epoch))
    /\ UNCHANGED inbox

Current(i) == i.epoch = worker.epoch

Without(i) == [worker EXCEPT !.inits = @ \ {i}]

(* Work for an epoch that has been taken over is abandoned at its next     *)
(* step.                                                                   *)
InitAbandoned(i) ==
    /\ ~Current(i)
    /\ worker' = Without(i)
    /\ UNCHANGED <<inbox, outbox>>

(* A policy's import arrives: its simulation is added, and the next import *)
(* or, after the last, the reference curve is awaited.                     *)
InitLoads(i) ==
    /\ Current(i)
    /\ i.next <= Len(i.policies)
    /\ worker' = [Without(i) EXCEPT
                    !.sims = Append(@, [policy |-> i.policies[i.next], step |-> 0]),
                    !.inits = @ \cup {[i EXCEPT !.next = @ + 1]}]
    /\ UNCHANGED <<inbox, outbox>>

InitReady(i) ==
    /\ Current(i)
    /\ i.next > Len(i.policies)
    /\ Len(outbox) < MaxMail
    /\ worker' = Without(i)
    /\ outbox' = outbox \o
            << [type |-> "ready", epoch |-> i.epoch, total |-> TotalSteps,
                policies |-> [j \in DOMAIN worker.sims |-> worker.sims[j].policy]],
               Frame(worker) >>
    /\ UNCHANGED inbox

(* An import fails, or a policy refuses its parameters.  The worker stops  *)
(* whatever it is doing; the error is reported against the init's epoch.   *)
InitFails(i) ==
    /\ i.next <= Len(i.policies)
    /\ Len(outbox) < MaxMail
    /\ worker' = Stopped(Without(i))
    /\ outbox' = Append(outbox, Error(i.epoch))
    /\ UNCHANGED inbox

-----------------------------------------------------------------------------
WorkerInit ==
    /\ worker = NewWorker
    /\ inbox = <<>>
    /\ outbox = <<>>

HandleMessage == HandleInit \/ HandleSeek \/ HandlePlay \/ HandlePause \/ HandlerFails

HandleTimer == TimerFires \/ TimerFails

ProceedInit ==
    \E i \in worker.inits : InitAbandoned(i) \/ InitLoads(i) \/ InitReady(i) \/ InitFails(i)

WorkerNext == HandleMessage \/ HandleTimer \/ ProceedInit
=============================================================================
