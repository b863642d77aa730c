------------------------------- MODULE Runner -------------------------------
(***************************************************************************)
(* A runner: the page of RunnerShell.tsx and the worker of sim-worker.ts.  *)
(* The page renders after every handler that changed something.  A         *)
(* render's effects run some time after it, at the latest when the next    *)
(* render begins, and see what that render saw: other handlers may run in  *)
(* between.                                                                *)
(***************************************************************************)
EXTENDS SimWorker

CONSTANTS
    Configs,        \* the choices of policies, sequences without repetition
    Speeds,         \* the steps per tick to choose from
    LinkedStep,     \* the step of the link that was followed; 0 for none
    MaxClicks       \* bound: what the reader does

ASSUME RunnerAssumption ==
    /\ Configs # {} /\ \A c \in Configs : c \in Seq(Range(c)) /\ c # <<>>
    /\ Speeds \subseteq Nat \ {0}
    /\ LinkedStep \in Nat

VARIABLES
    page,       \* the page: see Init
    clicks      \* what the reader has done so far

vars == <<workerVars, page, clicks>>

NoStep == -1

Init ==
    /\ WorkerInit
    /\ \E c \in Configs, own \in BOOLEAN :
        page = [view     |-> InitialView,
                config   |-> c,
                seen     |-> [view |-> InitialView, config |-> c],  \* as rendered last
                due      |-> {"worker", "restore", "fragment"},     \* effects to run
                epoch    |-> 0,
                asked    |-> <<>>,  \* what the worker was asked for
                own      |-> own,   \* every configuration has its own worker, as
                                    \* in RunnerShell, or one worker gets every
                                    \* init, as the protocol allows
                restore  |-> IF LinkedStep > 0 THEN LinkedStep ELSE NoStep,
                fragment |-> [config |-> c, step |-> LinkedStep]]
    /\ clicks = 0

-----------------------------------------------------------------------------
(* mutant of InitMessage: posted with the epoch before *)
InitMessageStale(p) == [type |-> "init", epoch |-> p.epoch - 1, policies |-> p.asked]

InitMessage(p) == [type |-> "init", epoch |-> p.epoch, policies |-> p.asked]

(* The effect of a changed configuration. *)
StartWorker(p) ==
    IF "worker" \in p.due
    THEN [p EXCEPT !.epoch = @ + 1,
                   !.asked = p.seen.config,
                   !.view = LoadingView(p.epoch + 1)]
    ELSE p

(* mutant of RestoreSeek: as soon as the worker is loading *)
RestoreSeekAtOnce(p) ==
    IF "restore" \in p.due /\ p.seen.view.status = "loading" /\ p.restore # NoStep
    THEN << [type |-> "seek", step |-> Lesser(p.restore, p.seen.view.total)] >>
    ELSE <<>>

(* The effect that walks the worker to the linked step. *)
RestoreSeek(p) ==
    IF "restore" \in p.due /\ p.seen.view.status = "ready" /\ p.restore # NoStep
    THEN << [type |-> "seek", step |-> Lesser(p.restore, p.seen.view.total)] >>
    ELSE <<>>

(* mutant of WriteFragment: the linked step need not have been reached *)
WriteFragmentEarly(p) ==
    LET v == p.seen.view
    IN  IF "fragment" \notin p.due \/ v.status # "ready" THEN p
        ELSE IF v.playing /\ v.step < v.total
        THEN [p EXCEPT !.restore = NoStep]
        ELSE [p EXCEPT !.restore = NoStep,
                       !.fragment = [config |-> p.seen.config, step |-> v.step]]

(* The effect that keeps the address current: not before the linked step   *)
(* has been reached, and not while frames go by.                           *)
WriteFragment(p) ==
    LET v       == p.seen.view
        reached == p.restore = NoStep \/ v.step >= Lesser(p.restore, v.total)
    IN  IF "fragment" \notin p.due \/ v.status # "ready" \/ ~reached THEN p
        ELSE IF v.playing /\ v.step < v.total
        THEN [p EXCEPT !.restore = NoStep]
        ELSE [p EXCEPT !.restore = NoStep,
                       !.fragment = [config |-> p.seen.config, step |-> v.step]]

Fields(v) == <<v.status, v.total, v.step, v.playing>>

(* The effects whose dependencies differ from one render to the next. *)
Changed(old, new) ==
    (IF new.config # old.config THEN {"worker", "fragment"} ELSE {})
        \cup (IF <<new.view.status, new.view.total>> # <<old.view.status, old.view.total>>
              THEN {"restore"} ELSE {})
        \cup (IF Fields(new.view) # Fields(old.view) THEN {"fragment"} ELSE {})

(* The effects that are due, in the order of the component, and the render *)
(* of what the page is then.                                               *)
Rendered(p) ==
    LET done == WriteFragment(StartWorker(p))
        new  == [view |-> done.view, config |-> done.config]
    IN  [done EXCEPT !.seen = new, !.due = Changed(p.seen, new)]

(* A handler made the page p and sent something.  What a terminated worker *)
(* had already posted may or may not be delivered.                         *)
Turn(p, sent, mail, renders) ==
    LET starts == renders /\ "worker" \in p.due
    IN  /\ page' = IF renders THEN Rendered(p) ELSE p
        /\ IF starts /\ p.own
           THEN /\ worker' = NewWorker
                /\ inbox' = <<InitMessage(page')>>
                /\ outbox' \in {<<>>, mail}
           ELSE /\ worker' = worker
                /\ inbox' = inbox \o sent
                                \o (IF starts THEN <<InitMessage(page')>> ELSE <<>>)
                                \o (IF renders THEN RestoreSeek(p) ELSE <<>>)
                /\ outbox' = mail

Handled(p, sent, mail) ==
    Turn(p, sent, mail, p.view # page.view \/ p.config # page.config)

(* The effects of the last render, run after it was painted. *)
RunEffects ==
    /\ page.due # {}
    /\ Turn(page, <<>>, outbox, TRUE)
    /\ UNCHANGED clicks

Deliver ==
    /\ outbox # <<>>
    /\ Handled([page EXCEPT !.view = Reduce(@, Head(outbox))], <<>>, Tail(outbox))
    /\ UNCHANGED clicks

-----------------------------------------------------------------------------
Click ==
    /\ clicks < MaxClicks
    /\ clicks' = clicks + 1

(* Another choice of policies or trace; an error has replaced the picker. *)
Reconfigure ==
    /\ Click
    /\ page.view.status # "error"
    /\ \E c \in Configs \ {page.config} :
        Handled([page EXCEPT !.config = c], <<>>, outbox)

PressPause ==
    /\ Click
    /\ page.view.status = "ready" /\ page.view.playing
    /\ Handled([page EXCEPT !.view = Pause(@)], << [type |-> "pause"] >>, outbox)

PressPlay ==
    /\ Click
    /\ page.view.status = "ready" /\ ~page.view.playing
    /\ \E speed \in Speeds :
        LET next == Play(page.view)
            rewind == IF next.step # page.view.step
                      THEN << [type |-> "seek", step |-> next.step] >> ELSE <<>>
        IN  Handled([page EXCEPT !.view = next],
                    Append(rewind, [type |-> "play", perTick |-> speed]), outbox)

(* The scrubber, the step buttons and the arrow keys. *)
Seek ==
    /\ Click
    /\ page.view.status = "ready"
    /\ \E step \in 0..page.view.total :
        Handled([page EXCEPT !.view = Pause(@)], << [type |-> "seek", step |-> step] >>, outbox)

-----------------------------------------------------------------------------
WorkerStep == WorkerNext /\ UNCHANGED <<page, clicks>>

Reader == Reconfigure \/ PressPause \/ PressPlay \/ Seek

EventLoops == WorkerStep \/ RunEffects \/ Deliver

Next == EventLoops \/ Reader

(* The event loops do not stop while anything is waiting; the reader need  *)
(* not do anything.                                                        *)
Spec == Init /\ [][Next]_vars /\ WF_vars(EventLoops)

-----------------------------------------------------------------------------
(* What the page shows belongs to the configuration its worker was asked   *)
(* for, whatever was still in flight when the reader changed it, and every *)
(* row is at the same event, also with every init sent to one worker       *)
(* (RunnerShell.tsx:119-121, sim-worker.ts:8-10 and 27-35); no simulation  *)
(* is past the end of its trace.                                           *)
Lockstep ==
    /\ page.view.status = "ready" => page.view.policies = page.asked
    /\ page.view.frames # NoFrames =>
        /\ DOMAIN page.view.frames = Range(page.asked)
        /\ Cardinality(Range(page.view.frames)) = 1
    /\ \A i \in DOMAIN worker.sims : worker.sims[i].step <= TotalSteps

Quiet == inbox = <<>> /\ outbox = <<>> /\ page.due = {}

(* Once nothing is on its way, the page shows the step the worker is at,   *)
(* and never offers "Play" while the worker plays (worker-protocol.ts:     *)
(* 117, RunnerShell.tsx:177-193).                                          *)
SettledAgreement ==
    Quiet /\ page.view.status = "ready" =>
        /\ page.view.step = StepOf(worker)
        /\ worker.playing => page.view.playing

(* However play, pause, seek and the end of a run follow each other, at    *)
(* most one chain of ticks is ever scheduled, and none once the worker has *)
(* stopped: two would play at double speed and one could not be cancelled  *)
(* (sim-worker.ts stop and tick).                                          *)
OneTickAtATime == worker.timers = IF worker.playing /\ worker.held THEN 1 ELSE 0

(* Following a link and touching nothing never loses it: the address holds *)
(* the linked configuration and step throughout (RunnerShell.tsx:125-130). *)
LinkIsKept == clicks = 0 => page.fragment.step = LinkedStep /\ page.fragment.config = page.config

(* Loading always ends, in a runner that is ready or in an error, however  *)
(* often the configuration changed meanwhile (sim-worker.ts init and its   *)
(* message handler).                                                       *)
LoadingEnds == page.view.status = "loading" ~> page.view.status # "loading"

(* A worker that plays gets to the end, or is stopped, or the page shows   *)
(* its error: the chain of ticks does not break (sim-worker.ts tick).      *)
PlaybackEnds == worker.playing ~> ~worker.playing \/ page.view.status = "error"

(* A followed link is reached, unless the runner fails or the reader does  *)
(* something first (RunnerShell.tsx:197-201).                              *)
LinkIsReached ==
    <>(clicks > 0 \/ page.view.status = "error"
        \/ (page.view.status = "ready" /\ page.view.step = Lesser(LinkedStep, TotalSteps)))

(* What RunnerShell.tsx:226-229 sets out to avoid: "Pause" showing over a  *)
(* stopped runner, at the end of a run.                                    *)
EndShowsReplay ==
    Quiet /\ page.view.status = "ready" /\ page.view.step = page.view.total =>
        ~page.view.playing

(* The same, before the end. *)
PauseMeansMoving ==
    Quiet /\ page.view.status = "ready" /\ page.view.playing =>
        worker.playing \/ page.view.step = page.view.total
=============================================================================
