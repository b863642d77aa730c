---------------------------- MODULE RunnerProofs ----------------------------
(***************************************************************************)
(* That page and worker stay in step, for every set of configurations,     *)
(* every trace length, every choice of speeds and however many clicks.     *)
(*                                                                         *)
(* The invariant is stated of a page p, a worker w, what is on its way to  *)
(* the worker (in) and to the page (out), and the clicks so far (c), so    *)
(* that a handler of the page can be taken in two: what it does, and the   *)
(* render after it.                                                        *)
(***************************************************************************)
EXTENDS Runner, FiniteSetTheorems, SequenceTheorems, TLAPS

(* What the variables range over. *)
Policies == UNION {Range(c) : c \in Configs}

Rows == UNION {[P -> 0..TotalSteps] : P \in SUBSET Policies}

Views ==
    [status : {"idle", "loading", "ready", "error"}, epoch : Nat, step : 0..TotalSteps,
     total : {0, TotalSteps}, playing : BOOLEAN, policies : Seq(Policies), frames : Rows]

Pages ==
    [view : Views, config : Configs, seen : [view : Views, config : Configs],
     due : SUBSET {"worker", "restore", "fragment"}, epoch : Nat,
     asked : Configs \cup {<<>>}, own : BOOLEAN, restore : Nat \cup {NoStep},
     fragment : [config : Configs, step : Nat]]

Sims == [policy : Policies, step : 0..TotalSteps]

Loads == [epoch : Nat, policies : Configs, next : Nat \ {0}]

Workers ==
    [epoch : Nat, sims : Seq(Sims), playing : BOOLEAN, perTick : Nat, timers : Int,
     held : BOOLEAN, inits : SUBSET Loads]

Orders ==
    [type : {"init"}, epoch : Nat \ {0}, policies : Configs]
        \cup [type : {"seek"}, step : Nat]
        \cup [type : {"play"}, perTick : Nat]
        \cup [type : {"pause"}]

Reports ==
    [type : {"ready"}, epoch : Nat, total : {TotalSteps}, policies : Seq(Policies)]
        \cup [type : {"frame"}, epoch : Nat, step : 0..TotalSteps, frames : Rows]
        \cup [type : {"error"}, epoch : Nat]

Typed(p, w, in, out) ==
    /\ p \in Pages
    /\ w \in Workers
    /\ in \in Seq(Orders)
    /\ out \in Seq(Reports)

-----------------------------------------------------------------------------
(* Nobody is ahead of the page, inits are queued in the order of their     *)
(* epochs, and only the worker of an epoch speaks for it.                  *)
Numbered(p, w, in, out) ==
    /\ p.view.epoch = p.epoch
    /\ w.epoch <= p.epoch
    /\ \A i \in w.inits : i.epoch <= w.epoch
    /\ \A k \in DOMAIN in : in[k].type = "init" => w.epoch < in[k].epoch /\ in[k].epoch <= p.epoch
    /\ \A j, k \in DOMAIN in :
            j < k /\ in[j].type = "init" /\ in[k].type = "init" => in[j].epoch < in[k].epoch
    /\ \A k \in DOMAIN out :
            out[k].epoch <= p.epoch /\ (out[k].epoch = p.epoch => w.epoch = p.epoch)
    /\ p.view.status \in {"ready", "error"} => w.epoch = p.epoch

(* Before its first effects have run, a page has asked for nothing. *)
Idle(p, w, in, out) ==
    /\ p.view.status = "idle" =>
        /\ "worker" \in p.due
        /\ p.view = InitialView
        /\ p.epoch = 0
        /\ w = NewWorker
        /\ in = <<>>
        /\ out = <<>>
    /\ p.view.status # "idle" => p.asked \in Configs

(* The init of the page's epoch, while it is queued, is the last message. *)
Asked(p, in) ==
    \A k \in DOMAIN in : in[k].type = "init" /\ in[k].epoch = p.epoch =>
        /\ k = Len(in)
        /\ in[k].policies = p.asked
        /\ p.view.status = "loading"

(* A page that is loading knows nothing yet; once its init has been taken  *)
(* the worker is left alone, and no frame comes before the ready.          *)
Loading(p, w, in, out) ==
    p.view.status = "loading" =>
        /\ p.view = LoadingView(p.epoch)
        /\ w.epoch = p.epoch => in = <<>> /\ ~w.playing
        /\ \A k \in DOMAIN out : out[k].type = "frame" /\ out[k].epoch = p.epoch =>
                k > 1 /\ out[k - 1].type = "ready" /\ out[k - 1].epoch = p.epoch

(* The one init of the page's epoch that is awaiting something has added   *)
(* one simulation per import so far, and nothing has been said of it.      *)
Fetching(p, w, out) ==
    \A i \in w.inits : i.epoch = p.epoch =>
        /\ p.view.status = "loading"
        /\ i.policies = p.asked
        /\ i.next <= Len(p.asked) + 1
        /\ Len(w.sims) = i.next - 1
        /\ \A j \in DOMAIN w.sims : w.sims[j] = [policy |-> p.asked[j], step |-> 0]
        /\ \A j \in w.inits : j.epoch = p.epoch => j = i
        /\ \A k \in DOMAIN out : out[k].epoch # p.epoch

(* A ready on its way is for what was asked, and what follows it is the    *)
(* frame the worker still shows.                                           *)
Announced(p, w, out) ==
    \A k \in DOMAIN out : out[k].type = "ready" /\ out[k].epoch = p.epoch =>
        /\ p.view.status = "loading"
        /\ out[k].policies = p.asked
        /\ k < Len(out)
        /\ out[k + 1].type = "frame"
        /\ out[k + 1].epoch = p.epoch
        /\ out[k + 1].step = StepOf(w)
        /\ \A j \in DOMAIN out : out[j].epoch = p.epoch => j \in {k, k + 1}

(* One simulation for each policy asked for, in their order. *)
Complete(p, w) ==
    /\ Len(w.sims) = Len(p.asked)
    /\ \A j \in DOMAIN w.sims : w.sims[j].policy = p.asked[j]

(* A worker that is told something, plays or has shown itself has a        *)
(* simulation for every policy asked for.                                  *)
Equipped(p, w, in, out) ==
    /\ w.epoch = p.epoch
    /\ \/ in # <<>>
       \/ w.playing
       \/ p.view.status = "ready"
       \/ \E k \in DOMAIN out : out[k].epoch = p.epoch /\ out[k].type # "error"
    => Complete(p, w)

(* Every frame has one row per policy asked for, all at one step, and so   *)
(* has the page.                                                           *)
Aligned(p, out) ==
    /\ \A k \in DOMAIN out : out[k].type = "frame" /\ out[k].epoch = p.epoch =>
            out[k].frames = [q \in Range(p.asked) |-> out[k].step]
    /\ p.view.frames # NoFrames =>
            \E s \in 0..TotalSteps : p.view.frames = [q \in Range(p.asked) |-> s]
    /\ p.view.status = "ready" => p.view.total = TotalSteps /\ p.view.policies = p.asked

(* A timeout is pending exactly while the worker holds one, and a play     *)
(* never meets another: whatever comes before it stops the worker.         *)
Ticking(w, in) ==
    /\ w.held => w.playing
    /\ w.timers = IF w.held THEN 1 ELSE 0
    /\ in # <<>> /\ in[1].type = "play" => ~w.held
    /\ \A k \in DOMAIN in : k > 1 /\ in[k].type = "play" => in[k - 1].type # "play"

(* Behind a page that shows "Play" the worker stands, or will be stopped   *)
(* by the last thing it was told.                                          *)
Standing(p, w, in) ==
    p.view.status # "error" /\ ~p.view.playing =>
        IF in = <<>> THEN ~w.playing ELSE in[Len(in)].type # "play"

(* What the page will show once it has heard everything is where the       *)
(* worker is, unless it is being moved or has failed.                      *)
Agreeing(p, w, in, out) ==
    /\ p.view.status = "ready"
    /\ \A k \in DOMAIN in : in[k].type # "seek"
    /\ \A k \in DOMAIN out : out[k].epoch = p.epoch => out[k].type # "error"
    =>
    \/ \E k \in DOMAIN out :
            /\ out[k].epoch = p.epoch
            /\ out[k].type = "frame"
            /\ out[k].step = StepOf(w)
            /\ \A j \in DOMAIN out : j > k => out[j].epoch # p.epoch
    \/ /\ \A k \in DOMAIN out : out[k].epoch # p.epoch
       /\ p.view.step = StepOf(w)

(* Where a followed link leads to. *)
Goal == Lesser(LinkedStep, TotalSteps)

(* Until the reader does something, the worker is only ever sent to the    *)
(* linked step, and nothing shows a step after it has been shown.          *)
Following(p, w, in, out, c) ==
    c = 0 =>
        /\ p.fragment.config = p.config /\ p.fragment.step \in {LinkedStep, Goal}
        /\ "worker" \in p.due => p.view.status = "idle"
        /\ ~p.view.playing /\ ~w.playing
        /\ \A k \in DOMAIN in : in[k].type # "init" => in[k].type = "seek" /\ in[k].step = Goal
        /\ p.restore \in {NoStep, LinkedStep}
        /\ p.view.step \in {0, Goal}
        /\ p.restore = NoStep => p.view.step = Goal
        /\ \A k \in DOMAIN out : out[k].type = "frame" /\ out[k].epoch = p.epoch =>
            /\ out[k].step \in {0, Goal}
            /\ p.view.step = Goal => out[k].step = Goal
            /\ \A j \in DOMAIN out :
                    /\ j < k /\ out[j].type = "frame" /\ out[j].epoch = p.epoch
                    /\ out[j].step = Goal
                    => out[k].step = Goal

(* What holds of a page between a handler and its render as well. *)
Kept(p, w, in, out, c) ==
    /\ Typed(p, w, in, out)
    /\ Numbered(p, w, in, out)
    /\ Idle(p, w, in, out)
    /\ Asked(p, in)
    /\ Loading(p, w, in, out)
    /\ Fetching(p, w, out)
    /\ Announced(p, w, out)
    /\ Equipped(p, w, in, out)
    /\ Aligned(p, out)
    /\ Ticking(w, in)
    /\ Standing(p, w, in)
    /\ Agreeing(p, w, in, out)
    /\ Following(p, w, in, out, c)

(* A page as it was rendered: nothing has changed since, and the effects   *)
(* that start a worker and that restore a step are not due together.       *)
Painted(p) ==
    /\ p.seen = [view |-> p.view, config |-> p.config]
    /\ {"worker", "restore"} \subseteq p.due => p.view.status # "ready"

(* The inductive invariant. *)
IInv == Kept(page, worker, inbox, outbox, clicks) /\ Painted(page)

-----------------------------------------------------------------------------
(* What the worker's own operators do to it. *)

(* Everything but play, timer and handle is left alone; what was pending   *)
(* is cancelled.                                                           *)
LEMMA StoppedIs ==
    ASSUME NEW w \in Workers
    PROVE  /\ Stopped(w) \in Workers
           /\ Stopped(w).epoch = w.epoch
           /\ Stopped(w).sims = w.sims
           /\ Stopped(w).inits = w.inits
           /\ ~Stopped(w).playing
           /\ ~Stopped(w).held
           /\ Stopped(w).timers = IF w.held THEN w.timers - 1 ELSE w.timers
<1> DEFINE n == IF w.held THEN w.timers - 1 ELSE w.timers
<1>1. n \in Int
    BY DEF Workers
<1>2. Stopped(w) = [w EXCEPT !.playing = FALSE, !.timers = n, !.held = FALSE]
    BY DEF Stopped
<1> HIDE DEF n
<1>3. /\ Stopped(w) \in Workers
      /\ Stopped(w).epoch = w.epoch
      /\ Stopped(w).sims = w.sims
      /\ Stopped(w).inits = w.inits
      /\ Stopped(w).playing = FALSE
      /\ Stopped(w).held = FALSE
      /\ Stopped(w).timers = n
    BY <1>1, <1>2 DEF Workers
<1>4. QED
    BY <1>3 DEF n

(* Simulations keep their policies, and none goes past its end. *)
LEMMA SoughtBeforeIs ==
    ASSUME NEW w \in Workers, NEW k \in Nat, NEW step \in Nat, TotalSteps \in Nat
    PROVE  /\ SoughtBefore(w, k, step) \in Workers
           /\ Len(SoughtBefore(w, k, step).sims) = Len(w.sims)
           /\ \A j \in 1..Len(w.sims) :
                 /\ SoughtBefore(w, k, step).sims[j].policy = w.sims[j].policy
                 /\ j < k => SoughtBefore(w, k, step).sims[j].step = Lesser(step, TotalSteps)
           /\ SoughtBefore(w, k, step).epoch = w.epoch
           /\ SoughtBefore(w, k, step).inits = w.inits
           /\ SoughtBefore(w, k, step).playing = w.playing
           /\ SoughtBefore(w, k, step).perTick = w.perTick
           /\ SoughtBefore(w, k, step).timers = w.timers
           /\ SoughtBefore(w, k, step).held = w.held
<1> DEFINE moved == [i \in DOMAIN w.sims |->
                        IF i < k THEN [w.sims[i] EXCEPT !.step = Lesser(step, TotalSteps)]
                        ELSE w.sims[i]]
<1>1. /\ w.sims \in Seq(Sims)
      /\ Len(w.sims) \in Nat
      /\ DOMAIN w.sims = 1..Len(w.sims)
      /\ \A i \in 1..Len(w.sims) : w.sims[i] \in Sims
    BY DEF Workers
<1>2. Lesser(step, TotalSteps) \in 0..TotalSteps
    BY DEF Lesser
<1>3. \A i \in 1..Len(w.sims) :
        /\ moved[i] \in Sims
        /\ moved[i].policy = w.sims[i].policy
        /\ i < k => moved[i].step = Lesser(step, TotalSteps)
    BY <1>1, <1>2 DEF Sims
<1>4. moved \in [1..Len(w.sims) -> Sims]
    BY <1>1, <1>3
<1>5. moved \in Seq(Sims) /\ Len(moved) = Len(w.sims)
    BY <1>1, <1>4
<1>6. SoughtBefore(w, k, step) = [w EXCEPT !.sims = moved]
    BY DEF SoughtBefore
<1> HIDE DEF moved
<1>7. QED
    BY <1>1, <1>3, <1>5, <1>6 DEF Workers

(* Every simulation is at the step s. *)
AllAt(w, s) == \A j \in 1..Len(w.sims) : w.sims[j].step = s

(* All of them are moved. *)
LEMMA SoughtIs ==
    ASSUME NEW w \in Workers, NEW step \in Nat, TotalSteps \in Nat
    PROVE  /\ Sought(w, step) \in Workers
           /\ Len(Sought(w, step).sims) = Len(w.sims)
           /\ \A j \in 1..Len(w.sims) : Sought(w, step).sims[j].policy = w.sims[j].policy
           /\ AllAt(Sought(w, step), Lesser(step, TotalSteps))
           /\ Sought(w, step).epoch = w.epoch
           /\ Sought(w, step).inits = w.inits
           /\ Sought(w, step).playing = w.playing
           /\ Sought(w, step).perTick = w.perTick
           /\ Sought(w, step).timers = w.timers
           /\ Sought(w, step).held = w.held
<1>1. Len(w.sims) \in Nat
    BY DEF Workers
<1> DEFINE k == Len(w.sims) + 1
<1>2. Sought(w, step) = SoughtBefore(w, k, step) /\ k \in Nat
    BY <1>1 DEF Sought
<1>3. \A j \in 1..Len(w.sims) : j < k
    BY <1>1
<1> HIDE DEF k
<1>4. /\ SoughtBefore(w, k, step) \in Workers
      /\ Len(SoughtBefore(w, k, step).sims) = Len(w.sims)
      /\ \A j \in 1..Len(w.sims) :
            /\ SoughtBefore(w, k, step).sims[j].policy = w.sims[j].policy
            /\ SoughtBefore(w, k, step).sims[j].step = Lesser(step, TotalSteps)
      /\ SoughtBefore(w, k, step).epoch = w.epoch
      /\ SoughtBefore(w, k, step).inits = w.inits
      /\ SoughtBefore(w, k, step).playing = w.playing
      /\ SoughtBefore(w, k, step).perTick = w.perTick
      /\ SoughtBefore(w, k, step).timers = w.timers
      /\ SoughtBefore(w, k, step).held = w.held
    BY <1>2, <1>3, SoughtBeforeIs, ZenonT(30)
<1>5. AllAt(Sought(w, step), Lesser(step, TotalSteps))
    BY <1>2, <1>4, Zenon DEF AllAt
<1>6. QED
    BY <1>2, <1>4, <1>5, Zenon

(* The worker's step is that of its simulations, once they agree. *)
LEMMA StepOfIs ==
    ASSUME NEW w \in Workers, TotalSteps \in Nat
    PROVE  /\ StepOf(w) \in 0..TotalSteps
           /\ \A s \in Nat : w.sims # <<>> /\ AllAt(w, s) => StepOf(w) = s
<1>1. w.sims \in Seq(Sims)
    BY DEF Workers
<1>2. w.sims # <<>> => w.sims[1] \in Sims /\ 1 \in 1..Len(w.sims)
    BY <1>1
<1>3. QED
    BY <1>2 DEF StepOf, AllAt, Sims

(* On by a tick: everybody at one step, and one timeout more unless that   *)
(* was the end, where the one it held is cancelled.                        *)
LEMMA TickedIs ==
    ASSUME NEW w \in Workers, TotalSteps \in Nat
    PROVE  /\ Ticked(w) \in Workers
           /\ Len(Ticked(w).sims) = Len(w.sims)
           /\ \A j \in 1..Len(w.sims) : Ticked(w).sims[j].policy = w.sims[j].policy
           /\ \E s \in 0..TotalSteps : AllAt(Ticked(w), s)
           /\ Ticked(w).epoch = w.epoch
           /\ Ticked(w).inits = w.inits
           /\ \/ /\ ~Ticked(w).playing /\ ~Ticked(w).held
                 /\ Ticked(w).timers = IF w.held THEN w.timers - 1 ELSE w.timers
              \/ /\ Ticked(w).playing = w.playing /\ Ticked(w).held
                 /\ Ticked(w).timers = w.timers + 1
<1> DEFINE moved == Sought(w, StepOf(w) + w.perTick)
           s == Lesser(StepOf(w) + w.perTick, TotalSteps)
<1>1. StepOf(w) + w.perTick \in Nat
    BY StepOfIs DEF Workers
<1>2. s \in 0..TotalSteps
    BY <1>1 DEF Lesser
<1>3. /\ moved \in Workers
      /\ Len(moved.sims) = Len(w.sims)
      /\ \A j \in 1..Len(w.sims) : moved.sims[j].policy = w.sims[j].policy
      /\ AllAt(moved, s)
      /\ moved.epoch = w.epoch
      /\ moved.inits = w.inits
      /\ moved.playing = w.playing
      /\ moved.timers = w.timers
      /\ moved.held = w.held
    BY <1>1, SoughtIs
<1>4. Ticked(w) = IF StepOf(moved) >= TotalSteps THEN Stopped(moved)
                  ELSE [moved EXCEPT !.timers = @ + 1, !.held = TRUE]
    BY DEF Ticked
<1> HIDE DEF moved, s
<1>5. CASE StepOf(moved) >= TotalSteps
    BY <1>2, <1>3, <1>4, <1>5, StoppedIs DEF AllAt
<1>6. CASE ~(StepOf(moved) >= TotalSteps)
    <2>1. Ticked(w) = [moved EXCEPT !.timers = @ + 1, !.held = TRUE]
        BY <1>4, <1>6
    <2>2. /\ Ticked(w) \in Workers
          /\ Ticked(w).sims = moved.sims
          /\ Ticked(w).epoch = moved.epoch
          /\ Ticked(w).inits = moved.inits
          /\ Ticked(w).held = TRUE
          /\ Ticked(w).timers = moved.timers + 1
          /\ Ticked(w).playing = moved.playing
        <3> DEFINE n == moved.timers + 1
        <3>1. moved \in Workers /\ n \in Int
            BY <1>3 DEF Workers
        <3>2. Ticked(w) = [moved EXCEPT !.timers = n, !.held = TRUE]
            BY <2>1
        <3> HIDE DEF n
        <3>3. /\ Ticked(w) \in Workers
              /\ Ticked(w).sims = moved.sims
              /\ Ticked(w).epoch = moved.epoch
              /\ Ticked(w).inits = moved.inits
              /\ Ticked(w).held = TRUE
              /\ Ticked(w).timers = n
            BY <3>1, <3>2 DEF Workers
        <3>4. Ticked(w).playing = moved.playing
            BY <3>1, <3>2 DEF Workers
        <3>5. QED
            BY <3>3, <3>4 DEF n
    <2>3. QED
        BY <1>2, <1>3, <2>2 DEF AllAt
<1>7. QED
    BY <1>5, <1>6

(* A frame of any worker is a report. *)
LEMMA FrameIsAReport ==
    ASSUME NEW w \in Workers, TotalSteps \in Nat
    PROVE  /\ Frame(w) \in Reports
           /\ Frame(w).type = "frame"
           /\ Frame(w).epoch = w.epoch
           /\ Frame(w).step = StepOf(w)
<1> DEFINE P == {s.policy : s \in Range(w.sims)}
           f == [q \in P |-> (CHOOSE s \in Range(w.sims) : s.policy = q).step]
<1>1. \A s \in Range(w.sims) : s \in Sims
    BY DEF Workers, Range
<1>2. P \subseteq Policies
    BY <1>1 DEF Sims
<1>3. \A q \in P : (CHOOSE s \in Range(w.sims) : s.policy = q).step \in 0..TotalSteps
    <2> TAKE q \in P
    <2>1. \E s \in Range(w.sims) : s.policy = q
        OBVIOUS
    <2>2. (CHOOSE s \in Range(w.sims) : s.policy = q) \in Range(w.sims)
        BY <2>1
    <2>3. QED
        BY <1>1, <2>2 DEF Sims
<1>4. f \in [P -> 0..TotalSteps]
    BY <1>3
<1>5. f \in Rows
    BY <1>2, <1>4 DEF Rows
<1>6. Frame(w) = [type |-> "frame", epoch |-> w.epoch, step |-> StepOf(w), frames |-> f]
    BY DEF Frame, Frames
<1>7. w.epoch \in Nat /\ StepOf(w) \in 0..TotalSteps
    BY StepOfIs DEF Workers
<1> HIDE DEF f, P
<1>8. QED
    BY <1>5, <1>6, <1>7 DEF Reports

(* With a simulation for every policy asked for, all at one step, it is a  *)
(* row for each of them at that step.                                      *)
LEMMA FrameIsAligned ==
    ASSUME NEW w \in Workers, TotalSteps \in Nat, NEW config \in Seq(Policies), config # <<>>,
           NEW s \in Nat, AllAt(w, s),
           Len(w.sims) = Len(config), \A j \in 1..Len(w.sims) : w.sims[j].policy = config[j]
    PROVE  /\ StepOf(w) = s
           /\ Frame(w).frames = [q \in Range(config) |-> s]
<1>1. /\ w.sims \in Seq(Sims)
      /\ DOMAIN w.sims = 1..Len(w.sims)
      /\ DOMAIN config = 1..Len(w.sims)
    BY DEF Workers
<1>2. w.sims # <<>>
    BY <1>1
<1>3. {x.policy : x \in Range(w.sims)} = Range(config)
    BY <1>1 DEF Range
<1>4. \A x \in Range(w.sims) : x.step = s
    BY <1>1 DEF Range, AllAt
<1>5. \A q \in Range(config) : (CHOOSE x \in Range(w.sims) : x.policy = q).step = s
    <2> TAKE q \in Range(config)
    <2>1. \E x \in Range(w.sims) : x.policy = q
        BY <1>3
    <2>2. QED
        BY <1>4, <2>1
<1>6. Frames(w) = [q \in Range(config) |-> s]
    BY <1>3, <1>5, ZenonT(30) DEF Frames
<1>7. QED
    BY <1>2, <1>6, StepOfIs DEF Frame
-----------------------------------------------------------------------------
(* The worker's steps. *)

(* A configuration names its policies in order, and at least one. *)
LEMMA ConfigsAreSequences ==
    ASSUME NEW config \in Configs
    PROVE  config \in Seq(Policies) /\ config # <<>>
<1>1. config \in Seq(Range(config)) /\ config # <<>>
    BY RunnerAssumption
<1>2. Range(config) \subseteq Policies
    BY DEF Policies
<1>3. QED
    BY <1>1, <1>2, SeqMonotonic

(* The worker goes on within an epoch: w becomes w2, d messages are taken  *)
(* off its queue, and n reports put on the page's.                         *)
Goes(p, w, w2, in, in2, d, out, out2, n) ==
    /\ w2 \in Workers
    /\ w2.epoch = w.epoch
    /\ w2.inits \subseteq w.inits
    /\ Len(w2.sims) = Len(w.sims)
    /\ \A j \in 1..Len(w.sims) : w2.sims[j].policy = w.sims[j].policy
    /\ d \in {0, 1}
    /\ in2 \in Seq(Orders)
    /\ Len(in2) = Len(in) - d
    /\ \A k \in 1..Len(in2) : in2[k] = in[k + d]
    /\ n \in {0, 1}
    /\ out2 \in Seq(Reports)
    /\ Len(out2) = Len(out) + n
    /\ \A k \in 1..Len(out) : out2[k] = out[k]

(* What it says of the page's epoch is true of it, and not said while a    *)
(* load of that epoch is still to be reported.                             *)
Says(p, w, w2, out, m, c) ==
    /\ m.type \in {"frame", "error"}
    /\ m.epoch <= w.epoch
    /\ m.epoch = p.epoch =>
        /\ \A i \in w2.inits : i.epoch # p.epoch
        /\ \A k \in 1..Len(out) : out[k].epoch = p.epoch => out[k].type # "ready"
        /\ m.type = "frame" =>
            /\ p.view.status # "loading"
            /\ Complete(p, w)
            /\ m.frames = [q \in Range(p.asked) |-> m.step]
            /\ m.step = StepOf(w2)
            /\ c = 0 => m.step = Goal

(* Timers and handles stay matched, the page is told of every move, and    *)
(* nothing starts to play unequipped.                                      *)
GoesWell(p, w, w2, in, in2, d, out, out2, n, c) ==
    /\ p.view.status # "idle"
    /\ Goes(p, w, w2, in, in2, d, out, out2, n)
    /\ n = 1 => Says(p, w, w2, out, out2[Len(out) + 1], c)
    /\ Ticking(w2, in2)
    /\ Standing(p, w2, in2)
    /\ c = 0 => ~w2.playing
    /\ w.epoch = p.epoch => w2.sims = w.sims \/ (n = 1 /\ out2[Len(out) + 1].epoch = p.epoch)
    /\ w.epoch = p.epoch /\ d = 1 /\ in[1].type = "seek" =>
            n = 1 /\ out2[Len(out) + 1].epoch = p.epoch
    /\ w2.playing /\ w.epoch = p.epoch => Complete(p, w) /\ p.view.status # "loading"

(* A step of the worker of that kind keeps the invariant, whatever the     *)
(* step.                                                                   *)
LEMMA GoingKeeps ==
    ASSUME NEW p, NEW w, NEW in, NEW out, NEW c, Kept(p, w, in, out, c),
           NEW w2, NEW in2, NEW d, NEW out2, NEW n,
           GoesWell(p, w, w2, in, in2, d, out, out2, n, c)
    PROVE  Kept(p, w2, in2, out2, c)
<1> DEFINE m == out2[Len(out) + 1]
<1>0. /\ p.view.status # "idle"
      /\ Goes(p, w, w2, in, in2, d, out, out2, n)
      /\ n = 1 => Says(p, w, w2, out, m, c)
      /\ Ticking(w2, in2)
      /\ Standing(p, w2, in2)
      /\ c = 0 => ~w2.playing
      /\ w.epoch = p.epoch => w2.sims = w.sims \/ (n = 1 /\ m.epoch = p.epoch)
      /\ w.epoch = p.epoch /\ d = 1 /\ in[1].type = "seek" => n = 1 /\ m.epoch = p.epoch
      /\ w2.playing /\ w.epoch = p.epoch => Complete(p, w) /\ p.view.status # "loading"
    BY DEF GoesWell
<1>1. /\ p \in Pages /\ w \in Workers /\ in \in Seq(Orders) /\ out \in Seq(Reports)
      /\ DOMAIN in = 1..Len(in) /\ Len(in) \in Nat
      /\ DOMAIN out = 1..Len(out) /\ Len(out) \in Nat
    BY DEF Kept, Typed
<1>2. /\ w2 \in Workers /\ in2 \in Seq(Orders) /\ out2 \in Seq(Reports)
      /\ DOMAIN in2 = 1..Len(in2) /\ Len(in2) \in Nat
      /\ DOMAIN out2 = 1..Len(out2) /\ Len(out2) \in Nat
      /\ Len(in2) = Len(in) - d
      /\ d \in {0, 1} /\ n \in {0, 1}
      /\ Len(out2) = Len(out) + n
    BY <1>0 DEF Goes
<1>3. /\ p.epoch \in Nat /\ w.epoch \in Nat
      /\ p.asked \in Configs \cup {<<>>}
      /\ DOMAIN w.sims = 1..Len(w.sims) /\ DOMAIN w2.sims = 1..Len(w2.sims)
      /\ Len(w.sims) \in Nat /\ Len(w2.sims) = Len(w.sims)
    BY <1>0, <1>1, <1>2 DEF Pages, Workers, Goes
<1>4. \A k \in 1..Len(in2) : in2[k] = in[k + d] /\ k + d \in 1..Len(in)
    BY <1>0, <1>1, <1>2 DEF Goes
<1>5. \A k \in 1..Len(out2) : (k \in 1..Len(out) /\ out2[k] = out[k]) \/ (n = 1 /\ k = Len(out) + 1)
    BY <1>0, <1>1, <1>2 DEF Goes
<1>6. Len(out) + 1 \in 1..Len(out2) <=> n = 1
    BY <1>1, <1>2
<1>7. w2.epoch = w.epoch /\ w2.inits \subseteq w.inits
    BY <1>0 DEF Goes
<1>8. n = 1 => Says(p, w, w2, out, m, c)
    BY <1>0
<1>9. \A k \in 1..Len(out) : k \in 1..Len(out2) /\ out2[k] = out[k]
    BY <1>0, <1>1, <1>2 DEF Goes
<1> HIDE DEF m
<1>10. w.epoch <= p.epoch
    BY DEF Kept, Numbered
<1>11. Typed(p, w2, in2, out2)
    BY <1>1, <1>2 DEF Typed
<1>12. Numbered(p, w2, in2, out2)
    <2>1. \A k \in 1..Len(in2) : in2[k].type = "init" => w.epoch < in2[k].epoch /\ in2[k].epoch <= p.epoch
        BY <1>1, <1>4 DEF Kept, Numbered
    <2>2. \A j, k \in 1..Len(in2) :
            j < k /\ in2[j].type = "init" /\ in2[k].type = "init" => in2[j].epoch < in2[k].epoch
        <3> TAKE j, k \in 1..Len(in2)
        <3>1. /\ in2[j] = in[j + d] /\ j + d \in 1..Len(in)
              /\ in2[k] = in[k + d] /\ k + d \in 1..Len(in)
            BY <1>4
        <3>2. j < k => j + d < k + d
            BY <1>2
        <3>3. \A x, y \in 1..Len(in) :
                x < y /\ in[x].type = "init" /\ in[y].type = "init" => in[x].epoch < in[y].epoch
            BY <1>1 DEF Kept, Numbered
        <3>4. QED
            BY <3>1, <3>2, <3>3
    <2>3. n = 1 => m.epoch <= p.epoch /\ (m.epoch = p.epoch => w.epoch = p.epoch)
        <3>1. n = 1 => m \in Reports
            BY <1>2, <1>6 DEF m
        <3>2. n = 1 => m.epoch \in Nat
            BY <3>1 DEF Reports
        <3>3. QED
            BY <1>3, <1>8, <1>10, <3>2 DEF Says
    <2>4. \A k \in 1..Len(out2) :
            out2[k].epoch <= p.epoch /\ (out2[k].epoch = p.epoch => w.epoch = p.epoch)
        BY <1>1, <1>5, <2>3 DEF Kept, Numbered, m
    <2>5. QED
        BY <1>2, <1>7, <2>1, <2>2, <2>4 DEF Kept, Numbered
<1>13. Idle(p, w2, in2, out2)
    BY <1>0 DEF Kept, Idle
<1>14. Asked(p, in2)
    <2> SUFFICES ASSUME NEW k \in 1..Len(in2), in2[k].type = "init", in2[k].epoch = p.epoch
                 PROVE  k = Len(in2) /\ in2[k].policies = p.asked /\ p.view.status = "loading"
        BY <1>2 DEF Asked
    <2>1. in2[k] = in[k + d] /\ k + d \in 1..Len(in)
        BY <1>4
    <2>2. k + d = Len(in) /\ in[k + d].policies = p.asked /\ p.view.status = "loading"
        BY <1>1, <2>1 DEF Kept, Asked
    <2>3. QED
        BY <1>2, <2>1, <2>2
<1>15. Loading(p, w2, in2, out2)
    <2>1. p.view.status = "loading" /\ w.epoch = p.epoch => in2 = <<>> /\ ~w2.playing
        <3>1. p.view.status = "loading" /\ w.epoch = p.epoch => Len(in) = 0
            BY DEF Kept, Loading
        <3>2. QED
            BY <1>0, <1>2, <3>1
    <2>2. p.view.status = "loading" /\ n = 1 /\ m.epoch = p.epoch => m.type # "frame"
        BY <1>8 DEF Says
    <2>3. p.view.status = "loading" => \A k \in 1..Len(out2) :
            out2[k].type = "frame" /\ out2[k].epoch = p.epoch =>
                k > 1 /\ out2[k - 1].type = "ready" /\ out2[k - 1].epoch = p.epoch
        <3> SUFFICES ASSUME p.view.status = "loading", NEW k \in 1..Len(out2),
                            out2[k].type = "frame", out2[k].epoch = p.epoch
                     PROVE  k > 1 /\ out2[k - 1].type = "ready" /\ out2[k - 1].epoch = p.epoch
            OBVIOUS
        <3>1. k \in 1..Len(out) /\ out2[k] = out[k]
            BY <1>5, <2>2 DEF m
        <3>2. k > 1 /\ out[k - 1].type = "ready" /\ out[k - 1].epoch = p.epoch
            BY <1>1, <3>1 DEF Kept, Loading
        <3>3. k - 1 \in 1..Len(out)
            BY <3>1, <3>2
        <3>4. QED
            BY <1>9, <3>2, <3>3
    <2>4. QED
        BY <1>2, <1>7, <2>1, <2>3 DEF Kept, Loading
<1>16. Fetching(p, w2, out2)
    <2> SUFFICES ASSUME NEW i \in w2.inits, i.epoch = p.epoch
                 PROVE  /\ p.view.status = "loading"
                        /\ i.policies = p.asked
                        /\ i.next <= Len(p.asked) + 1
                        /\ Len(w2.sims) = i.next - 1
                        /\ \A j \in DOMAIN w2.sims : w2.sims[j] = [policy |-> p.asked[j], step |-> 0]
                        /\ \A j \in w2.inits : j.epoch = p.epoch => j = i
                        /\ \A k \in DOMAIN out2 : out2[k].epoch # p.epoch
        BY DEF Fetching
    <2>1. i \in w.inits
        BY <1>7
    <2>2. n = 1 => m.epoch # p.epoch
        BY <1>8 DEF Says
    <2>3. \A k \in 1..Len(out2) : out2[k].epoch # p.epoch
        BY <1>1, <1>5, <2>1, <2>2 DEF Kept, Fetching, m
    <2>4. w.epoch = p.epoch
        <3>1. i.epoch <= w.epoch
            BY <2>1 DEF Kept, Numbered
        <3>2. QED
            BY <1>3, <1>10, <3>1
    <2>5. w2.sims = w.sims
        BY <1>0, <2>2, <2>4
    <2>6. QED
        BY <1>2, <1>7, <2>1, <2>3, <2>5 DEF Kept, Fetching
<1>17. Announced(p, w2, out2)
    <2> SUFFICES ASSUME NEW k \in 1..Len(out2), out2[k].type = "ready", out2[k].epoch = p.epoch
                 PROVE  /\ p.view.status = "loading"
                        /\ out2[k].policies = p.asked
                        /\ k < Len(out2)
                        /\ out2[k + 1].type = "frame"
                        /\ out2[k + 1].epoch = p.epoch
                        /\ out2[k + 1].step = StepOf(w2)
                        /\ \A j \in DOMAIN out2 : out2[j].epoch = p.epoch => j \in {k, k + 1}
        BY <1>2 DEF Announced
    <2>1. k \in 1..Len(out) /\ out2[k] = out[k]
        BY <1>5, <1>8 DEF Says, m
    <2>2. n = 1 => m.epoch # p.epoch
        BY <1>8, <2>1 DEF Says
    <2>3. w.epoch = p.epoch
        BY <1>1, <2>1 DEF Kept, Numbered
    <2>4. w2.sims = w.sims
        BY <1>0, <2>2, <2>3
    <2>5. /\ p.view.status = "loading"
          /\ out[k].policies = p.asked
          /\ k < Len(out)
          /\ out[k + 1].type = "frame"
          /\ out[k + 1].epoch = p.epoch
          /\ out[k + 1].step = StepOf(w)
          /\ \A j \in 1..Len(out) : out[j].epoch = p.epoch => j \in {k, k + 1}
        BY <1>1, <2>1 DEF Kept, Announced
    <2>6. k + 1 \in 1..Len(out) /\ out2[k + 1] = out[k + 1]
        BY <1>9, <2>1, <2>5
    <2>7. StepOf(w2) = StepOf(w)
        BY <2>4 DEF StepOf
    <2>8. \A j \in 1..Len(out2) : out2[j].epoch = p.epoch => j \in {k, k + 1}
        BY <1>5, <2>2, <2>5 DEF m
    <2>9. k < Len(out2)
        BY <1>1, <1>2, <2>5
    <2>10. /\ out2[k].policies = p.asked
           /\ out2[k + 1].type = "frame"
           /\ out2[k + 1].epoch = p.epoch
           /\ out2[k + 1].step = StepOf(w2)
        BY <2>1, <2>5, <2>6, <2>7
    <2>11. \A j \in DOMAIN out2 : out2[j].epoch = p.epoch => j \in {k, k + 1}
        BY <1>2, <2>8
    <2>12. QED
        BY <2>5, <2>9, <2>10, <2>11, Zenon
<1>18. Complete(p, w) => Complete(p, w2)
    BY <1>0, <1>3 DEF Goes, Complete
<1>19. Equipped(p, w2, in2, out2)
    <2> SUFFICES ASSUME w2.epoch = p.epoch,
                        \/ in2 # <<>>
                        \/ w2.playing
                        \/ p.view.status = "ready"
                        \/ \E k \in DOMAIN out2 : out2[k].epoch = p.epoch /\ out2[k].type # "error"
                 PROVE  Complete(p, w)
        BY <1>18 DEF Equipped
    <2>1. in2 # <<>> => in # <<>>
        BY <1>1, <1>2
    <2>2. CASE \E k \in DOMAIN out2 : out2[k].epoch = p.epoch /\ out2[k].type # "error"
        <3>1. PICK k \in 1..Len(out2) : out2[k].epoch = p.epoch /\ out2[k].type # "error"
            BY <1>2, <2>2
        <3>2. CASE k \in 1..Len(out) /\ out2[k] = out[k]
            BY <1>1, <1>7, <3>1, <3>2 DEF Kept, Equipped
        <3>3. CASE n = 1 /\ k = Len(out) + 1
            BY <1>8, <3>1, <3>3 DEF Says, m
        <3>4. QED
            BY <1>5, <3>2, <3>3
    <2>3. QED
        BY <1>0, <1>7, <2>1, <2>2 DEF Kept, Equipped
<1>20. Aligned(p, out2)
    <2>1. \A k \in 1..Len(out2) : out2[k].type = "frame" /\ out2[k].epoch = p.epoch =>
            out2[k].frames = [q \in Range(p.asked) |-> out2[k].step]
        <3> SUFFICES ASSUME NEW k \in 1..Len(out2), out2[k].type = "frame", out2[k].epoch = p.epoch
                     PROVE  out2[k].frames = [q \in Range(p.asked) |-> out2[k].step]
            OBVIOUS
        <3>1. CASE k \in 1..Len(out) /\ out2[k] = out[k]
            <4>1. out[k].frames = [q \in Range(p.asked) |-> out[k].step]
                BY <1>1, <3>1 DEF Kept, Aligned
            <4>2. QED
                BY <3>1, <4>1, Zenon
        <3>2. CASE n = 1 /\ k = Len(out) + 1
            BY <1>8, <3>2 DEF Says, m
        <3>3. QED
            BY <1>5, <3>1, <3>2
    <2>2. QED
        BY <1>2, <2>1 DEF Kept, Aligned
<1>21. Agreeing(p, w2, in2, out2)
    <2> SUFFICES ASSUME p.view.status = "ready",
                        \A k \in 1..Len(in2) : in2[k].type # "seek",
                        \A k \in 1..Len(out2) : out2[k].epoch = p.epoch => out2[k].type # "error"
                 PROVE  \/ \E k \in 1..Len(out2) :
                            /\ out2[k].epoch = p.epoch
                            /\ out2[k].type = "frame"
                            /\ out2[k].step = StepOf(w2)
                            /\ \A j \in 1..Len(out2) : j > k => out2[j].epoch # p.epoch
                        \/ /\ \A k \in 1..Len(out2) : out2[k].epoch # p.epoch
                           /\ p.view.step = StepOf(w2)
        BY <1>2 DEF Agreeing
    <2>1. w.epoch = p.epoch
        BY DEF Kept, Numbered
    <2>2. CASE n = 1 /\ m.epoch = p.epoch
        <3>1. m.type = "frame" /\ m.step = StepOf(w2)
            BY <1>6, <1>8, <2>2 DEF Says, m
        <3>2. \A j \in 1..Len(out2) : ~(j > Len(out) + 1)
            BY <1>1, <1>2
        <3>3. QED
            BY <1>6, <2>2, <3>1, <3>2 DEF m
    <2>3. CASE ~(n = 1 /\ m.epoch = p.epoch)
        <3>1. w2.sims = w.sims /\ ~(d = 1 /\ in[1].type = "seek")
            BY <1>0, <2>1, <2>3
        <3>2. StepOf(w2) = StepOf(w)
            BY <3>1 DEF StepOf
        <3>3. \A k \in 1..Len(in) : in[k].type # "seek"
            <4> TAKE k \in 1..Len(in)
            <4>1. CASE d = 1 /\ k = 1
                BY <3>1, <4>1
            <4>2. CASE ~(d = 1 /\ k = 1)
                <5>1. k - d \in 1..Len(in2) /\ (k - d) + d = k
                    BY <1>1, <1>2, <4>2
                <5>2. in2[k - d] = in[(k - d) + d]
                    BY <1>4, <5>1
                <5>3. QED
                    BY <5>1, <5>2
            <4>3. QED
                BY <4>1, <4>2
        <3>4. \A k \in 1..Len(out) : out[k].epoch = p.epoch => out[k].type # "error"
            BY <1>9
        <3>5. \/ \E k \in 1..Len(out) :
                    /\ out[k].epoch = p.epoch
                    /\ out[k].type = "frame"
                    /\ out[k].step = StepOf(w)
                    /\ \A j \in 1..Len(out) : j > k => out[j].epoch # p.epoch
              \/ /\ \A k \in 1..Len(out) : out[k].epoch # p.epoch
                 /\ p.view.step = StepOf(w)
            BY <1>1, <3>3, <3>4 DEF Kept, Agreeing
        <3>6. \A k \in 1..Len(out2) : out2[k].epoch = p.epoch => k \in 1..Len(out)
            BY <1>5, <2>3 DEF m
        <3>7. QED
            BY <1>9, <3>2, <3>5, <3>6
    <2>4. QED
        BY <2>2, <2>3
<1>22. Following(p, w2, in2, out2, c)
    <2> SUFFICES ASSUME c = 0
                 PROVE  Following(p, w2, in2, out2, 0)
        BY DEF Following
    <2>1. Following(p, w, in, out, 0)
        BY DEF Kept
    <2>2. \A k \in 1..Len(in2) : in2[k].type # "init" => in2[k].type = "seek" /\ in2[k].step = Goal
        BY <1>1, <1>4, <2>1 DEF Following
    <2>3. n = 1 /\ m.type = "frame" /\ m.epoch = p.epoch => m.step = Goal
        BY <1>8 DEF Says
    <2>4. ASSUME NEW k \in 1..Len(out2), out2[k].type = "frame", out2[k].epoch = p.epoch
          PROVE  /\ out2[k].step \in {0, Goal}
                 /\ p.view.step = Goal => out2[k].step = Goal
                 /\ \A j \in 1..Len(out2) :
                        /\ j < k /\ out2[j].type = "frame" /\ out2[j].epoch = p.epoch
                        /\ out2[j].step = Goal
                        => out2[k].step = Goal
        <3>1. CASE n = 1 /\ k = Len(out) + 1
            BY <2>3, <2>4, <3>1 DEF m
        <3>2. CASE k \in 1..Len(out) /\ out2[k] = out[k]
            <4>1. /\ out[k].step \in {0, Goal}
                  /\ p.view.step = Goal => out[k].step = Goal
                  /\ \A j \in 1..Len(out) :
                        /\ j < k /\ out[j].type = "frame" /\ out[j].epoch = p.epoch
                        /\ out[j].step = Goal
                        => out[k].step = Goal
                BY <1>1, <2>1, <2>4, <3>2 DEF Following
            <4>2. \A j \in 1..Len(out2) : j < k => j \in 1..Len(out) /\ out2[j] = out[j]
                BY <1>1, <1>5, <3>2
            <4>3. QED
                BY <3>2, <4>1, <4>2
        <3>3. QED
            BY <1>5, <3>1, <3>2
    <2>5. QED
        BY <1>0, <1>2, <2>1, <2>2, <2>4 DEF Following
<1>23. QED
    BY <1>0, <1>11, <1>12, <1>13, <1>14, <1>15, <1>16, <1>17, <1>19, <1>20, <1>21, <1>22 DEF Kept

(* A worker that is told something or plays has nothing to report of the   *)
(* epoch's load any more.                                                  *)
Free(p, w, out) ==
    w.epoch = p.epoch =>
        /\ p.view.status # "loading"
        /\ Complete(p, w)
        /\ \A i \in w.inits : i.epoch # p.epoch
        /\ \A k \in 1..Len(out) : out[k].epoch = p.epoch => out[k].type # "ready"

(* A queue of orders or a timer is enough to know that the load is over. *)
LEMMA BusyIsFree ==
    ASSUME NEW p, NEW w, NEW in, NEW out, NEW c, Kept(p, w, in, out, c),
           in # <<>> \/ w.playing
    PROVE  p.view.status # "idle" /\ Free(p, w, out)
<1>1. w.playing => w # NewWorker
    BY DEF NewWorker
<1>2. p.view.status # "idle"
    BY <1>1 DEF Kept, Idle
<1>3. ASSUME w.epoch = p.epoch
      PROVE  p.view.status # "loading" /\ Complete(p, w)
    BY <1>3 DEF Kept, Loading, Equipped
<1>4. DOMAIN out = 1..Len(out)
    BY DEF Kept, Typed
<1>5. QED
    BY <1>2, <1>3, <1>4 DEF Free, Kept, Fetching, Announced

(* Taking a message off the queue. *)
LEMMA Taken ==
    ASSUME NEW in \in Seq(Orders), in # <<>>
    PROVE  /\ Head(in) = in[1] /\ in[1] \in Orders
           /\ Tail(in) \in Seq(Orders)
           /\ Len(in) \in Nat /\ Len(in) >= 1
           /\ Len(Tail(in)) = Len(in) - 1
           /\ \A k \in 1..Len(Tail(in)) : Tail(in)[k] = in[k + 1]
           /\ DOMAIN in = 1..Len(in)
           /\ DOMAIN Tail(in) = 1..Len(Tail(in))
OBVIOUS

(* Putting a report on the page's. *)
LEMMA Posted ==
    ASSUME NEW out \in Seq(Reports), NEW m \in Reports
    PROVE  /\ Append(out, m) \in Seq(Reports)
           /\ Len(out) \in Nat
           /\ Len(Append(out, m)) = Len(out) + 1
           /\ \A k \in 1..Len(out) : Append(out, m)[k] = out[k]
           /\ Append(out, m)[Len(out) + 1] = m
OBVIOUS

(* What is left of the queue finds no timeout, if the message stopped the  *)
(* worker or was a play.                                                   *)
LEMMA TickingOn ==
    ASSUME NEW w, NEW w2, NEW in \in Seq(Orders), in # <<>>, Ticking(w, in),
           w2.held => w2.playing,
           w2.timers = IF w2.held THEN 1 ELSE 0,
           w2.held => in[1].type = "play"
    PROVE  Ticking(w2, Tail(in))
<1>1. Tail(in) # <<>> => Len(in) > 1 /\ Tail(in)[1] = in[2]
    BY Taken
<1>2. \A x, y \in 1..Len(in) : y = x + 1 /\ in[y].type = "play" => in[x].type # "play"
    <2> SUFFICES ASSUME NEW x \in 1..Len(in), NEW y \in 1..Len(in), y = x + 1, in[y].type = "play"
                 PROVE  in[x].type # "play"
        OBVIOUS
    <2>1. y > 1 /\ y - 1 = x
        OBVIOUS
    <2>2. y \in DOMAIN in
        BY Taken
    <2>3. in[y - 1].type # "play"
        BY <2>1, <2>2 DEF Ticking
    <2>4. QED
        BY <2>1, <2>3
<1>3. Tail(in) # <<>> /\ Tail(in)[1].type = "play" => ~w2.held
    <2>1. Tail(in) # <<>> => 1 \in 1..Len(in) /\ 2 \in 1..Len(in) /\ 2 = 1 + 1
        BY <1>1, Taken
    <2>2. QED
        BY <1>1, <1>2, <2>1
<1>4. \A k \in 1..Len(Tail(in)) :
        k > 1 /\ Tail(in)[k].type = "play" => Tail(in)[k - 1].type # "play"
    <2> SUFFICES ASSUME NEW k \in 1..Len(Tail(in)), k > 1, Tail(in)[k].type = "play"
                 PROVE  Tail(in)[k - 1].type # "play"
        OBVIOUS
    <2>1. k + 1 \in 1..Len(in) /\ k \in 1..Len(in) /\ k - 1 \in 1..Len(Tail(in))
        BY Taken
    <2>2. (k - 1) + 1 = k
        OBVIOUS
    <2>3. Tail(in)[k] = in[k + 1] /\ Tail(in)[k - 1] = in[k]
        BY <2>1, <2>2, Taken
    <2>4. QED
        BY <1>2, <2>1, <2>3
<1>5. QED
    BY <1>3, <1>4, Taken DEF Ticking

(* Taking a message may leave a page's "Play" as true as it was. *)
LEMMA StandingOn ==
    ASSUME NEW p, NEW w, NEW w2, NEW in \in Seq(Orders), in # <<>>, Standing(p, w, in),
           w2.playing => in[1].type = "play"
    PROVE  Standing(p, w2, Tail(in))
<1>1. Tail(in) # <<>> => Tail(in)[Len(Tail(in))] = in[Len(in)]
    BY Taken
<1>2. Tail(in) = <<>> => Len(in) = 1
    <2>1. Len(<<>>) = 0
        OBVIOUS
    <2>2. Tail(in) = <<>> => Len(Tail(in)) = 0
        BY <2>1, Zenon
    <2>3. QED
        BY <2>2, Taken
<1>3. QED
    BY <1>1, <1>2 DEF Standing
-----------------------------------------------------------------------------
(* The handlers of the worker, one by one. *)

(* What the lemmas on a worker's step start from. *)
K == Kept(page, worker, inbox, outbox, clicks)

(* What is known when a message is taken. *)
LEMMA Received ==
    ASSUME K, NEW type, Receive(type)
    PROVE  /\ inbox \in Seq(Orders) /\ inbox # <<>> /\ inbox' = Tail(inbox)
           /\ Head(inbox) = inbox[1]
           /\ inbox[1] \in Orders /\ inbox[1].type = type
           /\ worker \in Workers /\ outbox \in Seq(Reports)
           /\ Ticking(worker, inbox) /\ Standing(page, worker, inbox)
           /\ page.view.status # "idle"
           /\ Free(page, worker, outbox)
           /\ clicks = 0 /\ type # "init" => type = "seek" /\ inbox[1].step = Goal
<1>1. inbox \in Seq(Orders) /\ inbox # <<>> /\ inbox' = Tail(inbox) /\ Head(inbox).type = type
    BY DEF K, Kept, Typed, Receive
<1>2. /\ Head(inbox) = inbox[1] /\ inbox[1] \in Orders
      /\ 1 \in DOMAIN inbox
    BY <1>1, Taken
<1>3. clicks = 0 /\ type # "init" => type = "seek" /\ inbox[1].step = Goal
    BY <1>1, <1>2 DEF K, Kept, Following
<1>4. page.view.status # "idle" /\ Free(page, worker, outbox)
    BY <1>1, BusyIsFree DEF K
<1>5. QED
    BY <1>1, <1>2, <1>3, <1>4 DEF K, Kept, Typed

(* A worker that is equipped for the page's epoch shows a true frame of it. *)
LEMMA AlignedFrame ==
    ASSUME K, Free(page, worker, outbox), page.view.status # "idle",
           NEW w2 \in Workers, NEW s \in 0..TotalSteps,
           Len(w2.sims) = Len(worker.sims),
           \A j \in 1..Len(worker.sims) : w2.sims[j].policy = worker.sims[j].policy,
           AllAt(w2, s), worker.epoch = page.epoch
    PROVE  StepOf(w2) = s /\ Frame(w2).frames = [q \in Range(page.asked) |-> s]
<1>1. Complete(page, worker)
    BY DEF Free
<1>2. page.asked \in Configs
    BY DEF K, Kept, Idle
<1>3. page.asked \in Seq(Policies) /\ page.asked # <<>>
    BY <1>2, ConfigsAreSequences
<1>4. /\ Len(w2.sims) = Len(page.asked)
      /\ \A j \in 1..Len(w2.sims) : w2.sims[j].policy = page.asked[j]
    BY <1>1 DEF Complete, K, Kept, Typed, Workers
<1>5. TotalSteps \in Nat /\ s \in Nat
    BY StepsAssumption
<1>6. StepOf(w2) = s /\ Frame(w2).frames = [q \in Range(page.asked) |-> s]
    BY <1>3, <1>4, <1>5, FrameIsAligned, ZenonT(30)
<1>7. QED
    BY <1>6

(* A seek moves every simulation and shows the frame. *)
LEMMA SeekKeeps ==
    ASSUME K, HandleSeek
    PROVE  Kept(page, worker', inbox', outbox', clicks)
<1> DEFINE step == inbox[1].step
           w2 == Sought(Stopped(worker), step)
           m == Frame(w2)
           s == Lesser(step, TotalSteps)
<1>1. Receive("seek") /\ worker' = Sought(Stopped(worker), Head(inbox).step)
      /\ outbox' = Append(outbox, Frame(worker'))
    BY DEF HandleSeek
<1>2. /\ inbox \in Seq(Orders) /\ inbox # <<>> /\ inbox' = Tail(inbox)
      /\ Head(inbox) = inbox[1]
      /\ inbox[1] \in Orders /\ inbox[1].type = "seek"
      /\ worker \in Workers /\ outbox \in Seq(Reports)
      /\ Ticking(worker, inbox) /\ Standing(page, worker, inbox)
      /\ page.view.status # "idle"
      /\ Free(page, worker, outbox)
      /\ clicks = 0 => step = Goal
    BY <1>1, Received
<1>3. step \in Nat /\ TotalSteps \in Nat /\ Goal \in 0..TotalSteps
    <2>1. step \in Nat
        BY <1>2 DEF Orders
    <2>2. QED
        BY <2>1, StepsAssumption, RunnerAssumption DEF Goal, Lesser
<1>4. s \in 0..TotalSteps /\ (clicks = 0 => s = Goal)
    BY <1>2, <1>3 DEF Lesser
<1>5. /\ Stopped(worker) \in Workers
      /\ Stopped(worker).epoch = worker.epoch
      /\ Stopped(worker).sims = worker.sims
      /\ Stopped(worker).inits = worker.inits
      /\ ~Stopped(worker).playing
      /\ ~Stopped(worker).held
      /\ Stopped(worker).timers = 0
    BY <1>2, StoppedIs DEF Ticking
<1>6. /\ w2 \in Workers
      /\ w2.epoch = worker.epoch
      /\ w2.inits = worker.inits
      /\ Len(w2.sims) = Len(worker.sims)
      /\ \A j \in 1..Len(worker.sims) : w2.sims[j].policy = worker.sims[j].policy
      /\ AllAt(w2, s)
      /\ ~w2.playing /\ ~w2.held /\ w2.timers = 0
    <2> DEFINE w1 == Stopped(worker)
    <2> HIDE DEF w1
    <2>1. /\ w1 \in Workers
          /\ w1.epoch = worker.epoch
          /\ w1.sims = worker.sims
          /\ w1.inits = worker.inits
          /\ ~w1.playing
          /\ ~w1.held
          /\ w1.timers = 0
        BY <1>5 DEF w1
    <2>2. w2 = Sought(w1, step)
        BY DEF w1
    <2>3. /\ w2 \in Workers
          /\ Len(w2.sims) = Len(w1.sims)
          /\ \A j \in 1..Len(w1.sims) : w2.sims[j].policy = w1.sims[j].policy
          /\ AllAt(w2, s)
          /\ w2.epoch = w1.epoch
          /\ w2.inits = w1.inits
          /\ w2.playing = w1.playing
          /\ w2.timers = w1.timers
          /\ w2.held = w1.held
        <3> HIDE DEF w2
        <3>1. step \in Nat /\ w1 \in Workers /\ TotalSteps \in Nat
            BY <1>3, <2>1
        <3> HIDE DEF step
        <3>2. QED
            BY <2>2, <3>1, SoughtIs
    <2> HIDE DEF w2, s
    <2>4. QED
        BY <2>1, <2>3
<1>7. worker' = w2 /\ outbox' = Append(outbox, m)
    BY <1>1, <1>2
<1> HIDE DEF w2, s
<1>8. m \in Reports /\ m.type = "frame" /\ m.epoch = worker.epoch /\ m.step = StepOf(w2)
    BY <1>3, <1>6, FrameIsAReport
<1>9. worker.epoch = page.epoch =>
            m.step = s /\ m.frames = [q \in Range(page.asked) |-> s]
    BY <1>2, <1>3, <1>4, <1>6, <1>8, AlignedFrame
<1> HIDE DEF m
<1>10. Goes(page, worker, w2, inbox, Tail(inbox), 1, outbox, Append(outbox, m), 1)
    BY <1>2, <1>6, <1>8, Taken, Posted DEF Goes
<1>11. Append(outbox, m)[Len(outbox) + 1] = m
    BY <1>2, <1>8, Posted
<1>12. Says(page, worker, w2, outbox, m, clicks)
    BY <1>2, <1>4, <1>6, <1>8, <1>9 DEF Says, Free, Workers
<1>13. Ticking(w2, Tail(inbox)) /\ Standing(page, w2, Tail(inbox))
    BY <1>2, <1>6, TickingOn, StandingOn
<1>14. GoesWell(page, worker, w2, inbox, Tail(inbox), 1, outbox, Append(outbox, m), 1, clicks)
    BY <1>2, <1>6, <1>8, <1>10, <1>11, <1>12, <1>13 DEF GoesWell
<1>15. QED
    BY <1>2, <1>7, <1>14, GoingKeeps DEF K

(* A play starts the one chain of ticks. *)
LEMMA PlayKeeps ==
    ASSUME K, HandlePlay
    PROVE  Kept(page, worker', inbox', outbox', clicks)
<1>1. /\ inbox \in Seq(Orders) /\ inbox # <<>> /\ inbox' = Tail(inbox)
      /\ Head(inbox) = inbox[1]
      /\ inbox[1] \in Orders /\ inbox[1].type = "play"
      /\ worker \in Workers /\ outbox \in Seq(Reports)
      /\ Ticking(worker, inbox) /\ Standing(page, worker, inbox)
      /\ page.view.status # "idle"
      /\ Free(page, worker, outbox)
      /\ clicks # 0
    BY Received DEF HandlePlay
<1>2. ~worker.held /\ worker.timers = 0
    BY <1>1 DEF Ticking
<1>3. CASE worker.sims = <<>>
    <2>1. worker' = worker /\ outbox' = outbox
        BY <1>3 DEF HandlePlay
    <2>2. Goes(page, worker, worker, inbox, Tail(inbox), 1, outbox, outbox, 0)
        BY <1>1, Taken DEF Goes
    <2>3. Ticking(worker, Tail(inbox)) /\ Standing(page, worker, Tail(inbox))
        BY <1>1, <1>2, TickingOn, StandingOn DEF Ticking
    <2>4. GoesWell(page, worker, worker, inbox, Tail(inbox), 1, outbox, outbox, 0, clicks)
        BY <1>1, <2>2, <2>3 DEF GoesWell, Free
    <2>5. QED
        BY <1>1, <2>1, <2>4, GoingKeeps DEF K
<1>4. CASE worker.sims # <<>>
    <2> DEFINE w1 == [worker EXCEPT !.playing = TRUE, !.perTick = inbox[1].perTick]
               w2 == Ticked(w1)
               m == Frame(w2)
    <2>1. worker' = w2 /\ outbox' = Append(outbox, m)
        BY <1>1, <1>4 DEF HandlePlay
    <2>2. inbox[1].perTick \in Nat
        BY <1>1 DEF Orders
    <2>3. /\ w1 \in Workers
          /\ w1.epoch = worker.epoch /\ w1.sims = worker.sims /\ w1.inits = worker.inits
          /\ w1.playing = TRUE /\ w1.held = worker.held /\ w1.timers = worker.timers
        BY <1>1, <2>2 DEF Workers
    <2> HIDE DEF w1
    <2>4. TotalSteps \in Nat
        BY StepsAssumption
    <2>5. /\ w2 \in Workers
          /\ Len(w2.sims) = Len(worker.sims)
          /\ \A j \in 1..Len(worker.sims) : w2.sims[j].policy = worker.sims[j].policy
          /\ \E s \in 0..TotalSteps : AllAt(w2, s)
          /\ w2.epoch = worker.epoch
          /\ w2.inits = worker.inits
        BY <2>3, <2>4, TickedIs
    <2>6. (w2.held => w2.playing) /\ w2.timers = IF w2.held THEN 1 ELSE 0
        BY <1>2, <2>3, <2>4, TickedIs
    <2> HIDE DEF w2
    <2>7. m \in Reports /\ m.type = "frame" /\ m.epoch = worker.epoch /\ m.step = StepOf(w2)
        BY <2>4, <2>5, FrameIsAReport
    <2>8. worker.epoch = page.epoch => m.frames = [q \in Range(page.asked) |-> m.step]
        <3>1. PICK s \in 0..TotalSteps : AllAt(w2, s)
            BY <2>5
        <3>2. worker.epoch = page.epoch =>
                StepOf(w2) = s /\ Frame(w2).frames = [q \in Range(page.asked) |-> s]
            BY <1>1, <2>5, <3>1, AlignedFrame
        <3>3. QED
            BY <2>7, <3>2, Zenon
    <2> HIDE DEF m
    <2>9. Goes(page, worker, w2, inbox, Tail(inbox), 1, outbox, Append(outbox, m), 1)
        BY <1>1, <2>5, <2>7, Taken, Posted DEF Goes
    <2>10. Append(outbox, m)[Len(outbox) + 1] = m
        BY <1>1, <2>7, Posted
    <2>11. Says(page, worker, w2, outbox, m, clicks)
        BY <1>1, <2>5, <2>7, <2>8 DEF Says, Free, Workers
    <2>12. Ticking(w2, Tail(inbox)) /\ Standing(page, w2, Tail(inbox))
        BY <1>1, <2>6, TickingOn, StandingOn
    <2>13. GoesWell(page, worker, w2, inbox, Tail(inbox), 1, outbox, Append(outbox, m), 1, clicks)
        BY <1>1, <2>7, <2>9, <2>10, <2>11, <2>12 DEF GoesWell, Free
    <2>14. QED
        BY <1>1, <2>1, <2>13, GoingKeeps DEF K
<1>5. QED
    BY <1>3, <1>4

(* A pause ends it. *)
LEMMA PauseKeeps ==
    ASSUME K, HandlePause
    PROVE  Kept(page, worker', inbox', outbox', clicks)
<1> DEFINE w2 == Stopped(worker)
<1>1. /\ inbox \in Seq(Orders) /\ inbox # <<>> /\ inbox' = Tail(inbox)
      /\ inbox[1] \in Orders /\ inbox[1].type = "pause"
      /\ worker \in Workers /\ outbox \in Seq(Reports)
      /\ Ticking(worker, inbox) /\ Standing(page, worker, inbox)
      /\ page.view.status # "idle"
    BY Received DEF HandlePause
<1>2. worker' = w2 /\ outbox' = outbox
    BY DEF HandlePause
<1>3. /\ w2 \in Workers
      /\ w2.epoch = worker.epoch /\ w2.sims = worker.sims /\ w2.inits = worker.inits
      /\ ~w2.playing /\ ~w2.held /\ w2.timers = 0
    BY <1>1, StoppedIs DEF Ticking
<1> HIDE DEF w2
<1>4. Goes(page, worker, w2, inbox, Tail(inbox), 1, outbox, outbox, 0)
    BY <1>1, <1>3, Taken DEF Goes
<1>5. Ticking(w2, Tail(inbox)) /\ Standing(page, w2, Tail(inbox))
    BY <1>1, <1>3, TickingOn, StandingOn
<1>6. GoesWell(page, worker, w2, inbox, Tail(inbox), 1, outbox, outbox, 0, clicks)
    BY <1>1, <1>3, <1>4, <1>5 DEF GoesWell
<1>7. QED
    BY <1>1, <1>2, <1>6, GoingKeeps DEF K

(* An error is a report that says nothing but its epoch. *)
LEMMA ErrorIsAReport ==
    ASSUME NEW e \in Nat
    PROVE  Error(e) \in Reports /\ Error(e).type = "error" /\ Error(e).epoch = e
BY DEF Error, Reports

(* A handler that throws stops the worker, moved in part, and says so. *)
LEMMA HandlerFailureKeeps ==
    ASSUME K, HandlerFails
    PROVE  Kept(page, worker', inbox', outbox', clicks)
<1>1. PICK type \in {"seek", "play"} : Receive(type)
    BY DEF HandlerFails
<1>2. PICK k \in 1..Len(worker.sims), step \in 0..TotalSteps :
            worker' = Stopped(SoughtBefore(worker, k, step))
    BY DEF HandlerFails
<1> DEFINE w1 == SoughtBefore(worker, k, step)
           w2 == Stopped(w1)
           m == Error(worker.epoch)
<1>3. /\ inbox \in Seq(Orders) /\ inbox # <<>> /\ inbox' = Tail(inbox)
      /\ worker \in Workers /\ outbox \in Seq(Reports)
      /\ Ticking(worker, inbox) /\ Standing(page, worker, inbox)
      /\ page.view.status # "idle"
      /\ Free(page, worker, outbox)
    BY <1>1, Received
<1>4. worker.epoch \in Nat /\ TotalSteps \in Nat /\ Len(worker.sims) \in Nat
    BY <1>3, StepsAssumption DEF Workers
<1>5. k \in Nat /\ step \in Nat
    BY <1>4
<1>6. /\ w1 \in Workers
      /\ Len(w1.sims) = Len(worker.sims)
      /\ \A j \in 1..Len(worker.sims) : w1.sims[j].policy = worker.sims[j].policy
      /\ w1.epoch = worker.epoch
      /\ w1.inits = worker.inits
      /\ w1.timers = worker.timers
      /\ w1.held = worker.held
    <2>1. /\ w1 \in Workers
          /\ Len(w1.sims) = Len(worker.sims)
          /\ \A j \in 1..Len(worker.sims) :
                /\ w1.sims[j].policy = worker.sims[j].policy
                /\ j < k => w1.sims[j].step = Lesser(step, TotalSteps)
          /\ w1.epoch = worker.epoch
          /\ w1.inits = worker.inits
          /\ w1.playing = worker.playing
          /\ w1.perTick = worker.perTick
          /\ w1.timers = worker.timers
          /\ w1.held = worker.held
        BY <1>3, <1>4, <1>5, SoughtBeforeIs, Zenon
    <2> HIDE DEF w1
    <2>2. QED
        BY <2>1
<1> HIDE DEF w1
<1>7. /\ w2 \in Workers
      /\ w2.epoch = worker.epoch
      /\ w2.sims = w1.sims
      /\ w2.inits = worker.inits
      /\ ~w2.playing /\ ~w2.held /\ w2.timers = 0
    BY <1>3, <1>6, StoppedIs DEF Ticking
<1>8. worker' = w2 /\ outbox' = Append(outbox, m)
    BY <1>2 DEF HandlerFails, w1
<1> HIDE DEF w2
<1>9. m \in Reports /\ m.type = "error" /\ m.epoch = worker.epoch
    BY <1>4, ErrorIsAReport
<1> HIDE DEF m
<1>10. Goes(page, worker, w2, inbox, Tail(inbox), 1, outbox, Append(outbox, m), 1)
    BY <1>3, <1>6, <1>7, <1>9, Taken, Posted DEF Goes
<1>11. Append(outbox, m)[Len(outbox) + 1] = m
    BY <1>3, <1>9, Posted
<1>12. Says(page, worker, w2, outbox, m, clicks)
    BY <1>3, <1>4, <1>7, <1>9 DEF Says, Free
<1>13. Ticking(w2, Tail(inbox)) /\ Standing(page, w2, Tail(inbox))
    BY <1>3, <1>7, TickingOn, StandingOn
<1>14. GoesWell(page, worker, w2, inbox, Tail(inbox), 1, outbox, Append(outbox, m), 1, clicks)
    BY <1>3, <1>7, <1>9, <1>10, <1>11, <1>12, <1>13 DEF GoesWell
<1>15. QED
    BY <1>3, <1>8, <1>14, GoingKeeps DEF K

(* A timeout is pending only while the worker plays, so it is equipped.    *)
LEMMA Timed ==
    ASSUME K, worker.timers > 0
    PROVE  /\ worker \in Workers /\ inbox \in Seq(Orders) /\ outbox \in Seq(Reports)
           /\ worker.held /\ worker.playing /\ worker.timers = 1
           /\ Ticking(worker, inbox) /\ Standing(page, worker, inbox)
           /\ page.view.status # "idle"
           /\ Free(page, worker, outbox)
           /\ clicks # 0
<1>1. worker.held /\ worker.playing /\ worker.timers = 1
    BY DEF K, Kept, Ticking
<1>2. page.view.status # "idle" /\ Free(page, worker, outbox)
    BY <1>1, BusyIsFree DEF K
<1>3. QED
    BY <1>1, <1>2 DEF K, Kept, Typed, Following

(* A worker whose timeout has gone off. *)
Fired(w) == [w EXCEPT !.timers = @ - 1, !.held = FALSE]

(* It holds none, and is otherwise as it was. *)
LEMMA FiredIs ==
    ASSUME NEW w \in Workers
    PROVE  /\ Fired(w) \in Workers
           /\ Fired(w).epoch = w.epoch
           /\ Fired(w).sims = w.sims
           /\ Fired(w).inits = w.inits
           /\ Fired(w).playing = w.playing
           /\ ~Fired(w).held
           /\ Fired(w).timers = w.timers - 1
<1> DEFINE n == w.timers - 1
<1>1. n \in Int
    BY DEF Workers
<1>2. Fired(w) = [w EXCEPT !.timers = n, !.held = FALSE]
    BY DEF Fired
<1> HIDE DEF n
<1>3. /\ Fired(w) \in Workers
      /\ Fired(w).epoch = w.epoch
      /\ Fired(w).sims = w.sims
      /\ Fired(w).inits = w.inits
      /\ Fired(w).held = FALSE
      /\ Fired(w).timers = n
    BY <1>1, <1>2 DEF Workers
<1>4. Fired(w).playing = w.playing
    BY <1>1, <1>2 DEF Workers
<1>5. QED
    BY <1>3, <1>4 DEF n

(* Nothing taken off a queue. *)
LEMMA Unmoved ==
    ASSUME NEW in \in Seq(Orders)
    PROVE  /\ Len(in) \in Nat /\ Len(in) = Len(in) - 0
           /\ \A k \in 1..Len(in) : in[k] = in[k + 0]
OBVIOUS

(* A tick moves every simulation, and sets the next one unless the run has *)
(* ended.                                                                  *)
LEMMA TimerKeeps ==
    ASSUME K, TimerFires
    PROVE  Kept(page, worker', inbox', outbox', clicks)
<1> DEFINE w1 == Fired(worker)
           w2 == Ticked(w1)
           m == Frame(w2)
<1>1. /\ worker \in Workers /\ inbox \in Seq(Orders) /\ outbox \in Seq(Reports)
      /\ worker.held /\ worker.playing /\ worker.timers = 1
      /\ Ticking(worker, inbox) /\ Standing(page, worker, inbox)
      /\ page.view.status # "idle"
      /\ Free(page, worker, outbox)
      /\ clicks # 0
    BY Timed DEF TimerFires
<1>2. inbox' = inbox /\ TotalSteps \in Nat
    BY StepsAssumption DEF TimerFires
<1>3. IF worker.sims # <<>> THEN worker' = w2 /\ outbox' = Append(outbox, m)
                            ELSE worker' = w1 /\ outbox' = outbox
    BY <1>1 DEF TimerFires, Fired
<1>4. /\ w1 \in Workers
      /\ w1.epoch = worker.epoch /\ w1.sims = worker.sims /\ w1.inits = worker.inits
      /\ w1.playing = worker.playing /\ ~w1.held
      /\ w1.timers = worker.timers - 1
    BY <1>1, FiredIs, Zenon
<1>5. w1.playing /\ w1.timers = 0
    <2> HIDE DEF w1
    <2>1. w1.playing
        BY <1>1, <1>4, Zenon
    <2>2. QED
        BY <1>1, <1>4, <2>1
<1> HIDE DEF w1
<1>6. CASE worker.sims = <<>>
    <2>1. Goes(page, worker, w1, inbox, inbox, 0, outbox, outbox, 0)
        BY <1>1, <1>4, Unmoved DEF Goes
    <2>2. Ticking(w1, inbox) /\ Standing(page, w1, inbox)
        BY <1>1, <1>4, <1>5 DEF Ticking, Standing
    <2>3. GoesWell(page, worker, w1, inbox, inbox, 0, outbox, outbox, 0, clicks)
        BY <1>1, <1>4, <2>1, <2>2 DEF GoesWell, Free
    <2>4. QED
        BY <1>2, <1>3, <1>6, <2>3, GoingKeeps DEF K
<1>7. CASE worker.sims # <<>>
    <2>1. /\ w2 \in Workers
          /\ Len(w2.sims) = Len(worker.sims)
          /\ \A j \in 1..Len(worker.sims) : w2.sims[j].policy = worker.sims[j].policy
          /\ \E s \in 0..TotalSteps : AllAt(w2, s)
          /\ w2.epoch = worker.epoch
          /\ w2.inits = worker.inits
        BY <1>2, <1>4, TickedIs
    <2>2. (w2.held => w2.playing) /\ w2.timers = IF w2.held THEN 1 ELSE 0
        <3>1. \/ /\ ~w2.playing /\ ~w2.held
                 /\ w2.timers = IF w1.held THEN w1.timers - 1 ELSE w1.timers
              \/ /\ w2.playing = w1.playing /\ w2.held
                 /\ w2.timers = w1.timers + 1
            BY <1>2, <1>4, TickedIs, Zenon
        <3> HIDE DEF w2
        <3>2. w2.held => w2.playing
            BY <1>5, <3>1, Zenon
        <3>3. (~w2.held /\ w2.timers = w1.timers) \/ (w2.held /\ w2.timers = w1.timers + 1)
            BY <1>4, <3>1, Zenon
        <3>4. w2.timers = IF w2.held THEN 1 ELSE 0
            BY <1>5, <3>3
        <3>5. QED
            BY <3>2, <3>4
    <2> HIDE DEF w2
    <2>3. m \in Reports /\ m.type = "frame" /\ m.epoch = worker.epoch /\ m.step = StepOf(w2)
        BY <1>2, <2>1, FrameIsAReport
    <2>4. worker.epoch = page.epoch => m.frames = [q \in Range(page.asked) |-> m.step]
        <3>1. PICK s \in 0..TotalSteps : AllAt(w2, s)
            BY <2>1
        <3>2. worker.epoch = page.epoch =>
                StepOf(w2) = s /\ Frame(w2).frames = [q \in Range(page.asked) |-> s]
            BY <1>1, <2>1, <3>1, AlignedFrame
        <3>3. QED
            BY <2>3, <3>2, Zenon
    <2> HIDE DEF m
    <2>5. Goes(page, worker, w2, inbox, inbox, 0, outbox, Append(outbox, m), 1)
        BY <1>1, <2>1, <2>3, Unmoved, Posted DEF Goes
    <2>6. Append(outbox, m)[Len(outbox) + 1] = m
        BY <1>1, <2>3, Posted
    <2>7. Says(page, worker, w2, outbox, m, clicks)
        BY <1>1, <2>1, <2>3, <2>4 DEF Says, Free, Workers
    <2>8. Ticking(w2, inbox) /\ Standing(page, w2, inbox)
        BY <1>1, <2>2 DEF Ticking, Standing
    <2>9. GoesWell(page, worker, w2, inbox, inbox, 0, outbox, Append(outbox, m), 1, clicks)
        BY <1>1, <2>3, <2>5, <2>6, <2>7, <2>8 DEF GoesWell, Free
    <2>10. QED
        BY <1>2, <1>3, <1>7, <2>9, GoingKeeps DEF K
<1>8. QED
    BY <1>6, <1>7

(* A tick that throws stops the worker, moved in part, and says so. *)
LEMMA TimerFailureKeeps ==
    ASSUME K, TimerFails
    PROVE  Kept(page, worker', inbox', outbox', clicks)
<1>1. /\ worker \in Workers /\ inbox \in Seq(Orders) /\ outbox \in Seq(Reports)
      /\ worker.held /\ worker.playing /\ worker.timers = 1
      /\ Ticking(worker, inbox) /\ Standing(page, worker, inbox)
      /\ page.view.status # "idle"
      /\ Free(page, worker, outbox)
      /\ clicks # 0
    BY Timed DEF TimerFails
<1> DEFINE step == StepOf(worker) + worker.perTick
<1>2. PICK k \in 1..Len(worker.sims) :
            worker' = [SoughtBefore(worker, k, step) EXCEPT !.timers = @ - 1, !.held = FALSE]
    BY DEF TimerFails
<1>3. /\ worker.epoch \in Nat /\ TotalSteps \in Nat /\ Len(worker.sims) \in Nat
      /\ inbox' = inbox
    BY <1>1, StepsAssumption DEF Workers, TimerFails
<1>4. k \in Nat /\ step \in Nat
    BY <1>1, <1>3, StepOfIs DEF Workers
<1> HIDE DEF step
<1> DEFINE w1 == SoughtBefore(worker, k, step)
           w2 == Fired(w1)
           m == Error(worker.epoch)
<1>5. /\ w1 \in Workers
      /\ Len(w1.sims) = Len(worker.sims)
      /\ \A j \in 1..Len(worker.sims) : w1.sims[j].policy = worker.sims[j].policy
      /\ w1.epoch = worker.epoch
      /\ w1.inits = worker.inits
      /\ w1.playing = worker.playing
      /\ w1.timers = 1
    <2>1. /\ w1 \in Workers
          /\ Len(w1.sims) = Len(worker.sims)
          /\ \A j \in 1..Len(worker.sims) :
                /\ w1.sims[j].policy = worker.sims[j].policy
                /\ j < k => w1.sims[j].step = Lesser(step, TotalSteps)
          /\ w1.epoch = worker.epoch
          /\ w1.inits = worker.inits
          /\ w1.playing = worker.playing
          /\ w1.perTick = worker.perTick
          /\ w1.timers = worker.timers
          /\ w1.held = worker.held
        BY <1>1, <1>3, <1>4, SoughtBeforeIs, Zenon
    <2> HIDE DEF w1
    <2>2. QED
        BY <1>1, <2>1
<1>6. worker' = w2 /\ outbox' = Append(outbox, m)
    BY <1>2 DEF TimerFails, Fired
<1> HIDE DEF w1
<1>7. /\ w2 \in Workers
      /\ w2.epoch = worker.epoch
      /\ w2.sims = w1.sims
      /\ w2.inits = worker.inits
      /\ ~w2.held /\ w2.timers = 0
    BY <1>5, FiredIs
<1> HIDE DEF w2
<1>8. m \in Reports /\ m.type = "error" /\ m.epoch = worker.epoch
    BY <1>3, ErrorIsAReport
<1> HIDE DEF m
<1>9. Goes(page, worker, w2, inbox, inbox, 0, outbox, Append(outbox, m), 1)
    BY <1>1, <1>5, <1>7, <1>8, Unmoved, Posted DEF Goes
<1>10. Append(outbox, m)[Len(outbox) + 1] = m
    BY <1>1, <1>8, Posted
<1>11. Says(page, worker, w2, outbox, m, clicks)
    BY <1>1, <1>3, <1>7, <1>8 DEF Says, Free
<1>12. Ticking(w2, inbox) /\ Standing(page, w2, inbox)
    BY <1>1, <1>7 DEF Ticking, Standing
<1>13. GoesWell(page, worker, w2, inbox, inbox, 0, outbox, Append(outbox, m), 1, clicks)
    BY <1>1, <1>8, <1>9, <1>10, <1>11, <1>12 DEF GoesWell, Free
<1>14. QED
    BY <1>3, <1>6, <1>13, GoingKeeps DEF K

(* An init that is over is one less, and nothing else. *)
LEMMA WithoutIs ==
    ASSUME worker \in Workers, NEW i
    PROVE  /\ Without(i) \in Workers
           /\ Without(i).epoch = worker.epoch
           /\ Without(i).sims = worker.sims
           /\ Without(i).inits = worker.inits \ {i}
           /\ Without(i).playing = worker.playing
           /\ Without(i).perTick = worker.perTick
           /\ Without(i).timers = worker.timers
           /\ Without(i).held = worker.held
<1> DEFINE x == worker.inits \ {i}
<1>1. x \in SUBSET Loads
    BY DEF Workers
<1>2. Without(i) = [worker EXCEPT !.inits = x]
    BY DEF Without
<1> HIDE DEF x
<1>3. /\ Without(i) \in Workers
      /\ Without(i).epoch = worker.epoch
      /\ Without(i).sims = worker.sims
      /\ Without(i).inits = x
      /\ Without(i).perTick = worker.perTick
      /\ Without(i).timers = worker.timers
    BY <1>1, <1>2 DEF Workers
<1>4. Without(i).playing = worker.playing /\ Without(i).held = worker.held
    BY <1>1, <1>2 DEF Workers
<1>5. QED
    BY <1>3, <1>4, Zenon DEF x

(* A worker that awaits something has been asked for it. *)
LEMMA Awaiting ==
    ASSUME K, NEW i \in worker.inits
    PROVE  /\ worker \in Workers /\ inbox \in Seq(Orders) /\ outbox \in Seq(Reports)
           /\ i \in Loads /\ i.epoch <= worker.epoch /\ i.epoch \in Nat
           /\ page.view.status # "idle"
           /\ Ticking(worker, inbox) /\ Standing(page, worker, inbox)
           /\ clicks = 0 => ~worker.playing
<1>1. worker.inits # {} => worker # NewWorker
    BY DEF NewWorker
<1>2. page.view.status # "idle"
    BY <1>1 DEF K, Kept, Idle
<1>3. worker \in Workers /\ inbox \in Seq(Orders) /\ outbox \in Seq(Reports)
    BY DEF K, Kept, Typed
<1>4. i \in Loads /\ i.epoch \in Nat
    BY <1>3 DEF Workers, Loads
<1>5. QED
    BY <1>2, <1>3, <1>4 DEF K, Kept, Numbered, Following

(* A load that finds itself superseded stops there. *)
LEMMA AbandoningKeeps ==
    ASSUME K, NEW i \in worker.inits, InitAbandoned(i)
    PROVE  Kept(page, worker', inbox', outbox', clicks)
<1> DEFINE w2 == Without(i)
<1>1. /\ worker \in Workers /\ inbox \in Seq(Orders) /\ outbox \in Seq(Reports)
      /\ page.view.status # "idle"
      /\ Ticking(worker, inbox) /\ Standing(page, worker, inbox)
      /\ clicks = 0 => ~worker.playing
    BY Awaiting
<1>2. worker' = w2 /\ inbox' = inbox /\ outbox' = outbox
    BY DEF InitAbandoned
<1>3. /\ w2 \in Workers
      /\ w2.epoch = worker.epoch /\ w2.sims = worker.sims
      /\ w2.inits = worker.inits \ {i}
      /\ w2.playing = worker.playing /\ w2.timers = worker.timers /\ w2.held = worker.held
    BY <1>1, WithoutIs, Zenon
<1> HIDE DEF w2
<1>4. Goes(page, worker, w2, inbox, inbox, 0, outbox, outbox, 0)
    BY <1>1, <1>3, Unmoved DEF Goes
<1>5. Ticking(w2, inbox) /\ Standing(page, w2, inbox)
    BY <1>1, <1>3, Zenon DEF Ticking, Standing
<1>6. w2.playing => worker.playing
    BY <1>3, Zenon
<1>7. worker.playing /\ worker.epoch = page.epoch => Complete(page, worker) /\ page.view.status # "loading"
    BY BusyIsFree DEF K, Free
<1>8. GoesWell(page, worker, w2, inbox, inbox, 0, outbox, outbox, 0, clicks)
    BY <1>1, <1>3, <1>4, <1>5, <1>6, <1>7 DEF GoesWell
<1>9. QED
    BY <1>1, <1>2, <1>8, GoingKeeps DEF K

(* An import that fails is reported, if its epoch is still the worker's. *)
LEMMA LoadFailureKeeps ==
    ASSUME K, NEW i \in worker.inits, InitFails(i)
    PROVE  Kept(page, worker', inbox', outbox', clicks)
<1> DEFINE w1 == Without(i)
           w2 == Stopped(w1)
           m == Error(i.epoch)
<1>1. /\ worker \in Workers /\ inbox \in Seq(Orders) /\ outbox \in Seq(Reports)
      /\ i.epoch <= worker.epoch /\ i.epoch \in Nat
      /\ page.view.status # "idle"
      /\ Ticking(worker, inbox) /\ Standing(page, worker, inbox)
    BY Awaiting
<1>2. worker' = w2 /\ inbox' = inbox /\ outbox' = Append(outbox, m)
    BY DEF InitFails
<1>3. /\ w1 \in Workers
      /\ w1.epoch = worker.epoch /\ w1.sims = worker.sims
      /\ w1.inits = worker.inits \ {i}
      /\ w1.timers = worker.timers /\ w1.held = worker.held
    BY <1>1, WithoutIs, Zenon
<1> HIDE DEF w1
<1>4. /\ w2 \in Workers
      /\ w2.epoch = worker.epoch /\ w2.sims = worker.sims
      /\ w2.inits = worker.inits \ {i}
      /\ ~w2.playing /\ ~w2.held /\ w2.timers = 0
    BY <1>1, <1>3, StoppedIs DEF Ticking
<1> HIDE DEF w2
<1>5. m \in Reports /\ m.type = "error" /\ m.epoch = i.epoch
    BY <1>1, ErrorIsAReport
<1> HIDE DEF m
<1>6. Goes(page, worker, w2, inbox, inbox, 0, outbox, Append(outbox, m), 1)
    BY <1>1, <1>4, <1>5, Unmoved, Posted DEF Goes
<1>7. Append(outbox, m)[Len(outbox) + 1] = m
    BY <1>1, <1>5, Posted
<1>8. Says(page, worker, w2, outbox, m, clicks)
    <2>1. i.epoch = page.epoch =>
            /\ \A j \in worker.inits : j.epoch = page.epoch => j = i
            /\ \A k \in 1..Len(outbox) : outbox[k].epoch # page.epoch
        BY <1>1 DEF K, Kept, Fetching
    <2>2. QED
        BY <1>1, <1>4, <1>5, <2>1 DEF Says
<1>9. Ticking(w2, inbox) /\ Standing(page, w2, inbox)
    BY <1>1, <1>4 DEF Ticking, Standing
<1>10. GoesWell(page, worker, w2, inbox, inbox, 0, outbox, Append(outbox, m), 1, clicks)
    BY <1>1, <1>4, <1>5, <1>6, <1>7, <1>8, <1>9 DEF GoesWell
<1>11. QED
    BY <1>1, <1>2, <1>10, GoingKeeps DEF K

(* An init is taken: whatever the worker had to say is of an epoch before. *)
LEMMA InitKeeps ==
    ASSUME K, HandleInit
    PROVE  Kept(page, worker', inbox', outbox', clicks)
<1> DEFINE m == inbox[1]
           new == [epoch |-> m.epoch, policies |-> m.policies, next |-> 1]
           w1 == Stopped(worker)
           w2 == [w1 EXCEPT !.epoch = m.epoch, !.sims = <<>>, !.inits = @ \cup {new}]
           in2 == Tail(inbox)
<1>1. /\ inbox \in Seq(Orders) /\ inbox # <<>> /\ inbox' = Tail(inbox)
      /\ Head(inbox) = inbox[1]
      /\ inbox[1] \in Orders /\ inbox[1].type = "init"
      /\ worker \in Workers /\ outbox \in Seq(Reports)
      /\ Ticking(worker, inbox) /\ Standing(page, worker, inbox)
      /\ page.view.status # "idle"
    BY Received DEF HandleInit
<1>2. worker' = w2 /\ inbox' = in2 /\ outbox' = outbox
    BY <1>1 DEF HandleInit
<1>3. /\ w1 \in Workers
      /\ w1.inits = worker.inits
      /\ ~w1.playing /\ ~w1.held /\ w1.timers = 0
    BY <1>1, StoppedIs DEF Ticking
<1> HIDE DEF w1
<1>4. /\ page \in Pages /\ page.epoch \in Nat /\ page.view.status \in {"idle", "loading", "ready", "error"}
      /\ worker.epoch \in Nat /\ worker.inits \subseteq Loads
      /\ m.epoch \in Nat \ {0} /\ m.policies \in Configs
      /\ new \in Loads
      /\ DOMAIN outbox = 1..Len(outbox)
    <2>1. page \in Pages
        BY DEF K, Kept, Typed
    <2>2. page.epoch \in Nat /\ page.view.status \in {"idle", "loading", "ready", "error"}
        BY <2>1 DEF Pages, Views
    <2>3. worker.epoch \in Nat /\ worker.inits \subseteq Loads
        BY <1>1 DEF Workers
    <2>4. m.epoch \in Nat \ {0} /\ m.policies \in Configs
        BY <1>1 DEF Orders
    <2>5. new \in Loads
        BY <2>4 DEF Loads
    <2>6. DOMAIN outbox = 1..Len(outbox)
        BY <1>1
    <2>7. QED
        BY <2>1, <2>2, <2>3, <2>4, <2>5, <2>6
<1>5. /\ w2 \in Workers
      /\ w2.epoch = m.epoch
      /\ w2.sims = <<>>
      /\ w2.inits = worker.inits \cup {new}
      /\ ~w2.playing /\ ~w2.held /\ w2.timers = 0
    <2> DEFINE e == m.epoch
               x == w1.inits \cup {new}
    <2>1. e \in Nat /\ x \in SUBSET Loads /\ <<>> \in Seq(Sims)
        BY <1>3, <1>4
    <2>2. w2 = [w1 EXCEPT !.epoch = e, !.sims = <<>>, !.inits = x]
        OBVIOUS
    <2> HIDE DEF w2, e, x
    <2>3. /\ w2 \in Workers
          /\ w2.epoch = e
          /\ w2.sims = <<>>
          /\ w2.inits = x
          /\ w2.timers = w1.timers
        BY <1>3, <2>1, <2>2 DEF Workers
    <2>4. w2.playing = w1.playing /\ w2.held = w1.held
        BY <1>3, <2>1, <2>2 DEF Workers
    <2>5. ~w2.playing /\ ~w2.held
        BY <1>3, <2>4, Zenon
    <2>6. w2.epoch = m.epoch /\ w2.inits = worker.inits \cup {new}
        BY <1>3, <2>3 DEF e, x
    <2>7. QED
        BY <1>3, <2>3, <2>5, <2>6
<1>6. /\ in2 \in Seq(Orders)
      /\ DOMAIN inbox = 1..Len(inbox) /\ 1 \in 1..Len(inbox)
      /\ DOMAIN in2 = 1..Len(in2) /\ Len(inbox) \in Nat
      /\ Len(in2) \in Nat /\ Len(in2) = Len(inbox) - 1
      /\ \A k \in 1..Len(in2) : in2[k] = inbox[k + 1] /\ k + 1 \in 1..Len(inbox) /\ 1 < k + 1
    BY <1>1, Taken
<1> HIDE DEF w2, in2
<1>7. worker.epoch < m.epoch /\ m.epoch <= page.epoch
    BY <1>1, <1>6 DEF K, Kept, Numbered
<1>8. /\ \A k \in 1..Len(outbox) : outbox[k].epoch <= page.epoch /\ outbox[k].epoch # page.epoch
      /\ page.view.status = "loading"
    <2>1. worker.epoch # page.epoch
        BY <1>4, <1>7
    <2>2. QED
        BY <1>1, <1>4, <2>1 DEF K, Kept, Numbered
<1>9. \A i \in worker.inits : i.epoch < m.epoch /\ i.epoch \in Nat
    BY <1>4, <1>7 DEF K, Kept, Numbered, Loads
<1>10. new.epoch = m.epoch /\ new.policies = m.policies /\ new.next = 1
    OBVIOUS
<1>11. m.epoch = page.epoch => Len(inbox) = 1 /\ m.policies = page.asked
    BY <1>1, <1>6 DEF K, Kept, Asked
<1> HIDE DEF m, new
<1>12. m.epoch = page.epoch => in2 = <<>>
    <2>1. Len(in2) = 0 => in2 = <<>>
        BY <1>6
    <2>2. QED
        BY <1>6, <1>11, <2>1
<1>13. Typed(page, w2, in2, outbox)
    BY <1>1, <1>4, <1>5, <1>6 DEF Typed
<1>14. Numbered(page, w2, in2, outbox)
    <2>1. \A x, y \in 1..Len(inbox) :
            x < y /\ inbox[x].type = "init" /\ inbox[y].type = "init" => inbox[x].epoch < inbox[y].epoch
        BY <1>6 DEF K, Kept, Numbered
    <2>2. \A k \in 1..Len(in2) : in2[k].type = "init" => m.epoch < in2[k].epoch /\ in2[k].epoch <= page.epoch
        BY <1>1, <1>6, <2>1 DEF K, Kept, Numbered, m
    <2>3. \A j, k \in 1..Len(in2) :
            j < k /\ in2[j].type = "init" /\ in2[k].type = "init" => in2[j].epoch < in2[k].epoch
        <3> TAKE j, k \in 1..Len(in2)
        <3>1. /\ in2[j] = inbox[j + 1] /\ j + 1 \in 1..Len(inbox)
              /\ in2[k] = inbox[k + 1] /\ k + 1 \in 1..Len(inbox)
            BY <1>6
        <3>2. j < k => j + 1 < k + 1
            OBVIOUS
        <3>3. QED
            BY <2>1, <3>1, <3>2
    <2>4. \A i \in w2.inits : i.epoch <= w2.epoch
        BY <1>4, <1>5, <1>9, <1>10
    <2>5. page.view.epoch = page.epoch
        BY DEF K, Kept, Numbered
    <2>6. QED
        BY <1>4, <1>5, <1>6, <1>7, <1>8, <2>2, <2>3, <2>4, <2>5 DEF Numbered
<1>15. Idle(page, w2, in2, outbox)
    BY <1>1 DEF K, Kept, Idle
<1>16. Asked(page, in2)
    <2> SUFFICES ASSUME NEW k \in 1..Len(in2), in2[k].type = "init", in2[k].epoch = page.epoch
                 PROVE  k = Len(in2) /\ in2[k].policies = page.asked /\ page.view.status = "loading"
        BY <1>6 DEF Asked
    <2>1. k + 1 = Len(inbox) /\ inbox[k + 1].policies = page.asked
        BY <1>6 DEF K, Kept, Asked
    <2>2. QED
        BY <1>6, <1>8, <2>1
<1>17. Loading(page, w2, in2, outbox)
    BY <1>4, <1>5, <1>8, <1>12 DEF K, Kept, Loading
<1>18. Fetching(page, w2, outbox)
    <2> SUFFICES ASSUME NEW i \in w2.inits, i.epoch = page.epoch
                 PROVE  /\ page.view.status = "loading"
                        /\ i.policies = page.asked
                        /\ i.next <= Len(page.asked) + 1
                        /\ Len(w2.sims) = i.next - 1
                        /\ \A j \in DOMAIN w2.sims : w2.sims[j] = [policy |-> page.asked[j], step |-> 0]
                        /\ \A j \in w2.inits : j.epoch = page.epoch => j = i
                        /\ \A k \in DOMAIN outbox : outbox[k].epoch # page.epoch
        BY DEF Fetching
    <2>1. \A j \in w2.inits : j.epoch = page.epoch => j = new
        BY <1>4, <1>5, <1>7, <1>9
    <2>2. i = new /\ m.epoch = page.epoch
        BY <1>10, <2>1
    <2>3. i.policies = page.asked /\ i.next = 1
        BY <1>10, <1>11, <2>2
    <2>4. Len(page.asked) \in Nat
        <3>1. page.asked \in Configs
            BY <1>1 DEF K, Kept, Idle
        <3>2. QED
            BY <3>1, ConfigsAreSequences
    <2>5. Len(w2.sims) = 0 /\ DOMAIN w2.sims = {}
        BY <1>5
    <2>6. QED
        BY <1>4, <1>8, <2>1, <2>2, <2>3, <2>4, <2>5
<1>19. Announced(page, w2, outbox)
    BY <1>4, <1>8 DEF Announced
<1>20. Equipped(page, w2, in2, outbox)
    BY <1>4, <1>5, <1>8, <1>12 DEF Equipped
<1>21. Aligned(page, outbox)
    BY DEF K, Kept
<1>22. Ticking(w2, in2) /\ Standing(page, w2, in2)
    BY <1>1, <1>5, TickingOn, StandingOn DEF in2
<1>23. Agreeing(page, w2, in2, outbox)
    BY <1>8 DEF Agreeing
<1>24. Following(page, w2, in2, outbox, clicks)
    <2> SUFFICES ASSUME clicks = 0
                 PROVE  Following(page, w2, in2, outbox, 0)
        BY DEF Following
    <2>1. Following(page, worker, inbox, outbox, 0)
        BY DEF K, Kept
    <2>2. \A k \in 1..Len(in2) : in2[k].type # "init" => in2[k].type = "seek" /\ in2[k].step = Goal
        BY <1>6, <2>1 DEF Following
    <2>3. QED
        BY <1>5, <1>6, <2>1, <2>2 DEF Following
<1>25. QED
    BY <1>2, <1>13, <1>14, <1>15, <1>16, <1>17, <1>18, <1>19, <1>20, <1>21, <1>22, <1>23, <1>24 DEF Kept

(* A load of the page's epoch finds the page waiting, and the worker with  *)
(* nothing else to do.                                                     *)
LEMMA CurrentLoad ==
    ASSUME K, NEW i \in worker.inits, i.epoch = worker.epoch, worker.epoch = page.epoch
    PROVE  /\ page.view.status = "loading"
           /\ inbox = <<>> /\ ~worker.playing
           /\ i.policies = page.asked
           /\ i.next <= Len(page.asked) + 1
           /\ Len(worker.sims) = i.next - 1
           /\ \A j \in 1..Len(worker.sims) : worker.sims[j] = [policy |-> page.asked[j], step |-> 0]
           /\ \A j \in worker.inits : j.epoch = page.epoch => j = i
           /\ \A k \in 1..Len(outbox) : outbox[k].epoch # page.epoch
           /\ page.asked \in Configs /\ page.asked \in Seq(Policies)
           /\ Len(page.asked) \in Nat /\ Len(page.asked) > 0
           /\ page.view = LoadingView(page.epoch)
<1>1. worker \in Workers /\ outbox \in Seq(Reports) /\ page.view.status # "idle"
    BY Awaiting
<1>2. DOMAIN worker.sims = 1..Len(worker.sims) /\ DOMAIN outbox = 1..Len(outbox)
    BY <1>1 DEF Workers
<1>3. /\ page.view.status = "loading"
      /\ i.policies = page.asked
      /\ i.next <= Len(page.asked) + 1
      /\ Len(worker.sims) = i.next - 1
      /\ \A j \in 1..Len(worker.sims) : worker.sims[j] = [policy |-> page.asked[j], step |-> 0]
      /\ \A j \in worker.inits : j.epoch = page.epoch => j = i
      /\ \A k \in 1..Len(outbox) : outbox[k].epoch # page.epoch
    BY <1>2 DEF K, Kept, Fetching
<1>4. inbox = <<>> /\ ~worker.playing /\ page.view = LoadingView(page.epoch)
    BY <1>3 DEF K, Kept, Loading
<1>5. page.asked \in Configs
    BY <1>1 DEF K, Kept, Idle
<1>6. page.asked \in Seq(Policies) /\ page.asked # <<>>
    BY <1>5, ConfigsAreSequences
<1>7. QED
    BY <1>3, <1>4, <1>5, <1>6

(* One more simulation, for the import that was awaited. *)
LEMMA LoadingKeeps ==
    ASSUME K, NEW i \in worker.inits, InitLoads(i)
    PROVE  Kept(page, worker', inbox', outbox', clicks)
<1> DEFINE w1 == Without(i)
           sim == [policy |-> i.policies[i.next], step |-> 0]
           i2 == [i EXCEPT !.next = @ + 1]
           w2 == [w1 EXCEPT !.sims = Append(@, sim), !.inits = @ \cup {i2}]
<1>1. /\ worker \in Workers /\ inbox \in Seq(Orders) /\ outbox \in Seq(Reports)
      /\ i \in Loads /\ i.epoch <= worker.epoch /\ i.epoch \in Nat
      /\ page.view.status # "idle"
      /\ Ticking(worker, inbox) /\ Standing(page, worker, inbox)
      /\ clicks = 0 => ~worker.playing
    BY Awaiting
<1>2. /\ worker' = w2 /\ inbox' = inbox /\ outbox' = outbox
      /\ i.epoch = worker.epoch /\ i.next <= Len(i.policies)
    BY DEF InitLoads, Current
<1>3. i.next \in Nat \ {0} /\ i.policies \in Configs
    BY <1>1 DEF Loads
<1>4. i.policies[i.next] \in Policies
    <2>1. i.policies \in Seq(Policies)
        BY <1>3, ConfigsAreSequences
    <2>2. QED
        BY <1>2, <1>3, <2>1
<1>5. sim \in Sims /\ sim.policy = i.policies[i.next]
    BY <1>4, StepsAssumption DEF Sims
<1>6. i2 \in Loads /\ i2.epoch = i.epoch /\ i2.policies = i.policies /\ i2.next = i.next + 1
    BY <1>1, <1>3 DEF Loads
<1>7. /\ w1 \in Workers
      /\ w1.epoch = worker.epoch /\ w1.sims = worker.sims
      /\ w1.inits = worker.inits \ {i}
      /\ w1.playing = worker.playing
      /\ w1.perTick = worker.perTick
      /\ w1.timers = worker.timers /\ w1.held = worker.held
    BY <1>1, WithoutIs, Zenon
<1> HIDE DEF w1, sim, i2
<1>8. /\ w2 \in Workers
      /\ w2.epoch = worker.epoch
      /\ w2.sims = Append(worker.sims, sim)
      /\ w2.inits = (worker.inits \ {i}) \cup {i2}
      /\ w2.playing = worker.playing /\ w2.timers = worker.timers /\ w2.held = worker.held
    <2> DEFINE x == Append(w1.sims, sim)
               y == w1.inits \cup {i2}
    <2>1. x \in Seq(Sims) /\ y \in SUBSET Loads
        BY <1>5, <1>6, <1>7 DEF Workers
    <2>2. w2 = [w1 EXCEPT !.sims = x, !.inits = y]
        OBVIOUS
    <2> HIDE DEF w2, x, y
    <2>3. /\ w2 \in Workers
          /\ w2.epoch = w1.epoch
          /\ w2.sims = x
          /\ w2.inits = y
          /\ w2.timers = w1.timers
        BY <1>7, <2>1, <2>2 DEF Workers
    <2>4. w2.playing = w1.playing /\ w2.held = w1.held
        BY <1>7, <2>1, <2>2 DEF Workers
    <2>5. w2.playing = worker.playing /\ w2.held = worker.held
        BY <1>7, <2>4, Zenon
    <2>6. w2.sims = Append(worker.sims, sim) /\ w2.inits = (worker.inits \ {i}) \cup {i2}
        BY <1>7, <2>3, Zenon DEF x, y
    <2>7. w2.epoch = worker.epoch /\ w2.timers = worker.timers
        BY <1>7, <2>3, Zenon
    <2>8. QED
        BY <2>3, <2>5, <2>6, <2>7, Zenon
<1> HIDE DEF w2
<1>9. /\ page \in Pages /\ page.epoch \in Nat /\ worker.epoch \in Nat /\ worker.epoch <= page.epoch
      /\ \A j \in worker.inits : j.epoch \in Nat /\ j.epoch <= worker.epoch
      /\ DOMAIN outbox = 1..Len(outbox)
    <2>1. page \in Pages
        BY DEF K, Kept, Typed
    <2>2. page.epoch \in Nat
        BY <2>1 DEF Pages
    <2>3. worker.epoch \in Nat /\ \A j \in worker.inits : j.epoch \in Nat
        BY <1>1 DEF Workers, Loads
    <2>4. QED
        BY <1>1, <2>1, <2>2, <2>3 DEF K, Kept, Numbered
<1>10. Typed(page, w2, inbox, outbox)
    BY <1>1, <1>8, <1>9 DEF Typed
<1>11. Numbered(page, w2, inbox, outbox)
    <2>1. \A j \in w2.inits : j.epoch <= w2.epoch
        BY <1>1, <1>2, <1>6, <1>8, <1>9
    <2>2. QED
        BY <1>8, <2>1 DEF K, Kept, Numbered
<1>12. Idle(page, w2, inbox, outbox)
    BY <1>1 DEF K, Kept, Idle
<1>13. Asked(page, inbox)
    BY DEF K, Kept
<1>14. Loading(page, w2, inbox, outbox)
    BY <1>8, Zenon DEF K, Kept, Loading
<1>15. Fetching(page, w2, outbox)
    <2> SUFFICES ASSUME NEW j \in w2.inits, j.epoch = page.epoch
                 PROVE  /\ page.view.status = "loading"
                        /\ j.policies = page.asked
                        /\ j.next <= Len(page.asked) + 1
                        /\ Len(w2.sims) = j.next - 1
                        /\ \A k \in DOMAIN w2.sims : w2.sims[k] = [policy |-> page.asked[k], step |-> 0]
                        /\ \A k \in w2.inits : k.epoch = page.epoch => k = j
                        /\ \A k \in DOMAIN outbox : outbox[k].epoch # page.epoch
        BY DEF Fetching
    <2>1. worker.epoch = page.epoch
        BY <1>2, <1>6, <1>8, <1>9
    <2>2. /\ page.view.status = "loading"
          /\ i.policies = page.asked
          /\ Len(worker.sims) = i.next - 1
          /\ \A k \in 1..Len(worker.sims) : worker.sims[k] = [policy |-> page.asked[k], step |-> 0]
          /\ \A k \in worker.inits : k.epoch = page.epoch => k = i
          /\ \A k \in 1..Len(outbox) : outbox[k].epoch # page.epoch
        BY <1>2, <2>1, CurrentLoad
    <2>3. \A k \in w2.inits : k.epoch = page.epoch => k = i2
        BY <1>8, <2>2
    <2>4. j = i2
        BY <2>3
    <2>5. /\ Len(w2.sims) = Len(worker.sims) + 1
          /\ DOMAIN w2.sims = 1..(Len(worker.sims) + 1)
          /\ \A k \in 1..Len(worker.sims) : w2.sims[k] = worker.sims[k]
          /\ w2.sims[Len(worker.sims) + 1] = sim
        <3>1. worker.sims \in Seq(Sims)
            BY <1>1 DEF Workers
        <3>2. QED
            BY <1>5, <1>8, <3>1
    <2>6. sim = [policy |-> page.asked[Len(worker.sims) + 1], step |-> 0]
        <3>1. Len(worker.sims) + 1 = i.next
            BY <1>3, <2>2
        <3>2. QED
            BY <2>2, <3>1 DEF sim
    <2>7. \A k \in DOMAIN w2.sims : w2.sims[k] = [policy |-> page.asked[k], step |-> 0]
        <3> SUFFICES ASSUME NEW k \in 1..(Len(worker.sims) + 1)
                     PROVE  w2.sims[k] = [policy |-> page.asked[k], step |-> 0]
            BY <2>5
        <3>1. k \in 1..Len(worker.sims) \/ k = Len(worker.sims) + 1
            BY <1>3, <2>2
        <3>2. QED
            BY <2>2, <2>5, <2>6, <3>1, Zenon
    <2>8. j.next <= Len(page.asked) + 1 /\ Len(w2.sims) = j.next - 1
        <3>1. i.policies \in Seq(Policies)
            BY <1>3, ConfigsAreSequences
        <3>2. Len(page.asked) \in Nat
            BY <2>2, <3>1
        <3>3. QED
            BY <1>2, <1>3, <1>6, <2>2, <2>4, <2>5, <3>2
    <2>9. j.policies = page.asked
        BY <1>6, <2>2, <2>4
    <2>10. QED
        BY <1>9, <2>2, <2>3, <2>4, <2>7, <2>8, <2>9, Zenon
<1>16. worker.epoch = page.epoch =>
            /\ page.view.status = "loading" /\ inbox = <<>> /\ ~w2.playing
            /\ \A k \in 1..Len(outbox) : outbox[k].epoch # page.epoch
    <2>1. worker.epoch = page.epoch =>
            /\ page.view.status = "loading" /\ inbox = <<>> /\ ~worker.playing
            /\ \A k \in 1..Len(outbox) : outbox[k].epoch # page.epoch
        BY <1>2, CurrentLoad
    <2>2. QED
        BY <1>8, <2>1, Zenon
<1>17. Announced(page, w2, outbox)
    BY <1>9, <1>16 DEF K, Kept, Numbered, Announced
<1>18. Equipped(page, w2, inbox, outbox)
    BY <1>8, <1>9, <1>16 DEF Equipped
<1>19. Aligned(page, outbox)
    BY DEF K, Kept
<1>20. Ticking(w2, inbox) /\ Standing(page, w2, inbox)
    BY <1>1, <1>8, Zenon DEF Ticking, Standing
<1>21. Agreeing(page, w2, inbox, outbox)
    BY <1>16 DEF K, Kept, Numbered, Agreeing
<1>22. Following(page, w2, inbox, outbox, clicks)
    BY <1>8, Zenon DEF K, Kept, Following
<1>23. QED
    BY <1>2, <1>10, <1>11, <1>12, <1>13, <1>14, <1>15, <1>17, <1>18, <1>19, <1>20, <1>21, <1>22 DEF Kept

(* Two reports put on the page's queue at once. *)
LEMMA PostedTwice ==
    ASSUME NEW out \in Seq(Reports), NEW m1 \in Reports, NEW m2 \in Reports
    PROVE  /\ out \o <<m1, m2>> \in Seq(Reports)
           /\ Len(out) \in Nat
           /\ Len(out \o <<m1, m2>>) = Len(out) + 2
           /\ \A k \in 1..Len(out) : (out \o <<m1, m2>>)[k] = out[k]
           /\ (out \o <<m1, m2>>)[Len(out) + 1] = m1
           /\ (out \o <<m1, m2>>)[Len(out) + 2] = m2
OBVIOUS

(* Everything has been loaded, and the page is told so. *)
LEMMA ReadyKeeps ==
    ASSUME K, NEW i \in worker.inits, InitReady(i)
    PROVE  Kept(page, worker', inbox', outbox', clicks)
<1> DEFINE names == [j \in DOMAIN worker.sims |-> worker.sims[j].policy]
           m1 == [type |-> "ready", epoch |-> i.epoch, total |-> TotalSteps, policies |-> names]
           m2 == Frame(worker)
           out2 == outbox \o <<m1, m2>>
           w2 == Without(i)
           L == Len(outbox)
<1>1. /\ worker \in Workers /\ inbox \in Seq(Orders) /\ outbox \in Seq(Reports)
      /\ i \in Loads /\ i.epoch <= worker.epoch /\ i.epoch \in Nat
      /\ page.view.status # "idle"
      /\ Ticking(worker, inbox) /\ Standing(page, worker, inbox)
      /\ clicks = 0 => ~worker.playing
    BY Awaiting
<1>2. /\ worker' = w2 /\ inbox' = inbox /\ outbox' = out2
      /\ i.epoch = worker.epoch /\ i.next > Len(i.policies)
    BY DEF InitReady, Current
<1>3. TotalSteps \in Nat /\ i.next \in Nat \ {0}
    BY <1>1, StepsAssumption DEF Loads
<1>4. /\ worker.sims \in Seq(Sims) /\ DOMAIN worker.sims = 1..Len(worker.sims)
      /\ Len(worker.sims) \in Nat
    BY <1>1 DEF Workers
<1>5. names \in Seq(Policies)
    <2>1. \A j \in 1..Len(worker.sims) : worker.sims[j].policy \in Policies
        <3> TAKE j \in 1..Len(worker.sims)
        <3>1. worker.sims[j] \in Sims
            BY <1>4
        <3>2. QED
            BY <3>1 DEF Sims
    <2>2. names \in [1..Len(worker.sims) -> Policies]
        BY <1>4, <2>1
    <2> HIDE DEF names
    <2>3. QED
        BY <1>4, <2>2
<1>6. m1 \in Reports /\ m1.type = "ready" /\ m1.epoch = i.epoch /\ m1.policies = names
    <2> HIDE DEF names
    <2>1. QED
        BY <1>1, <1>3, <1>5 DEF Reports
<1>7. m2 \in Reports /\ m2.type = "frame" /\ m2.epoch = i.epoch /\ m2.step = StepOf(worker)
    BY <1>1, <1>2, <1>3, FrameIsAReport
<1>8. /\ w2 \in Workers
      /\ w2.epoch = worker.epoch /\ w2.sims = worker.sims
      /\ w2.inits = worker.inits \ {i}
      /\ w2.playing = worker.playing /\ w2.timers = worker.timers /\ w2.held = worker.held
    BY <1>1, WithoutIs, Zenon
<1> HIDE DEF w2
<1>9. worker.epoch = page.epoch =>
        /\ page.view.status = "loading" /\ page.view = LoadingView(page.epoch)
        /\ inbox = <<>> /\ ~worker.playing
        /\ i.policies = page.asked
        /\ Len(worker.sims) = Len(page.asked)
        /\ \A j \in 1..Len(worker.sims) : worker.sims[j] = [policy |-> page.asked[j], step |-> 0]
        /\ \A j \in worker.inits : j.epoch = page.epoch => j = i
        /\ \A k \in 1..Len(outbox) : outbox[k].epoch # page.epoch
        /\ page.asked \in Seq(Policies) /\ page.asked # <<>>
    <2> SUFFICES ASSUME worker.epoch = page.epoch
                 PROVE  Len(worker.sims) = Len(page.asked) /\ page.asked # <<>>
        BY <1>2, CurrentLoad
    <2>1. /\ i.policies = page.asked
          /\ i.next <= Len(page.asked) + 1
          /\ Len(worker.sims) = i.next - 1
          /\ Len(page.asked) \in Nat /\ Len(page.asked) > 0
        BY <1>2, CurrentLoad
    <2>2. QED
        BY <1>2, <1>3, <2>1
<1>10. worker.epoch = page.epoch =>
        \A j \in 1..Len(worker.sims) :
            worker.sims[j].policy = page.asked[j] /\ worker.sims[j].step = 0
    <2> SUFFICES ASSUME worker.epoch = page.epoch, NEW j \in 1..Len(worker.sims)
                 PROVE  worker.sims[j].policy = page.asked[j] /\ worker.sims[j].step = 0
        OBVIOUS
    <2>1. worker.sims[j] = [policy |-> page.asked[j], step |-> 0]
        BY <1>9
    <2>2. QED
        BY <2>1
<1>11. worker.epoch = page.epoch => names = page.asked /\ Complete(page, worker)
    <2> SUFFICES ASSUME worker.epoch = page.epoch
                 PROVE  names = page.asked /\ Complete(page, worker)
        OBVIOUS
    <2>1. \A j \in 1..Len(worker.sims) : worker.sims[j].policy = page.asked[j]
        BY <1>10
    <2>2. page.asked = [j \in 1..Len(page.asked) |-> page.asked[j]]
        BY <1>9
    <2>3. names = page.asked
        BY <1>4, <1>9, <2>1, <2>2, Zenon
    <2>4. QED
        BY <1>4, <1>9, <2>1, <2>3 DEF Complete
<1>12. worker.epoch = page.epoch =>
        m2.step = 0 /\ m2.frames = [q \in Range(page.asked) |-> 0]
    <2> SUFFICES ASSUME worker.epoch = page.epoch
                 PROVE  m2.step = 0 /\ m2.frames = [q \in Range(page.asked) |-> 0]
        OBVIOUS
    <2>1. AllAt(worker, 0)
        BY <1>10 DEF AllAt
    <2>2. \A j \in 1..Len(worker.sims) : worker.sims[j].policy = page.asked[j]
        BY <1>10
    <2>3. 0 \in Nat
        OBVIOUS
    <2>4. StepOf(worker) = 0 /\ Frame(worker).frames = [q \in Range(page.asked) |-> 0]
        BY <1>1, <1>3, <1>9, <2>1, <2>2, <2>3, FrameIsAligned, ZenonT(30)
    <2>5. QED
        BY <1>7, <2>4
<1> HIDE DEF names, m1, m2
<1>13. /\ out2 \in Seq(Reports)
       /\ L \in Nat /\ DOMAIN outbox = 1..L /\ DOMAIN out2 = 1..(L + 2) /\ Len(out2) = L + 2
       /\ \A k \in 1..L : out2[k] = outbox[k]
       /\ out2[L + 1] = m1
       /\ out2[L + 2] = m2
    BY <1>1, <1>6, <1>7, PostedTwice
<1> HIDE DEF out2
<1>14. \A k \in 1..(L + 2) :
          \/ k \in 1..L /\ out2[k] = outbox[k]
          \/ k = L + 1 /\ out2[k] = m1
          \/ k = L + 2 /\ out2[k] = m2
    <2> TAKE k \in 1..(L + 2)
    <2>1. k \in 1..L \/ k = L + 1 \/ k = L + 2
        BY <1>13
    <2>2. QED
        BY <1>13, <2>1
<1>15. page \in Pages /\ page.epoch \in Nat /\ worker.epoch \in Nat /\ worker.epoch <= page.epoch
    <2>1. page \in Pages
        BY DEF K, Kept, Typed
    <2>2. QED
        BY <1>1, <2>1 DEF Pages, Workers, K, Kept, Numbered
<1>16. \A k \in 1..L : outbox[k].epoch # page.epoch
    BY <1>9, <1>13 DEF K, Kept, Numbered
<1>17. Typed(page, w2, inbox, out2)
    BY <1>1, <1>8, <1>13, <1>15 DEF Typed
<1>18. Numbered(page, w2, inbox, out2)
    <2>1. \A k \in 1..(L + 2) :
            out2[k].epoch <= page.epoch /\ (out2[k].epoch = page.epoch => w2.epoch = page.epoch)
        BY <1>2, <1>6, <1>7, <1>8, <1>13, <1>14, <1>15 DEF K, Kept, Numbered
    <2>2. QED
        BY <1>8, <1>13, <2>1 DEF K, Kept, Numbered
<1>19. Idle(page, w2, inbox, out2)
    BY <1>1 DEF K, Kept, Idle
<1>20. Asked(page, inbox)
    BY DEF K, Kept
<1>21. Loading(page, w2, inbox, out2)
    <2>1. \A k \in 1..(L + 2) : out2[k].type = "frame" /\ out2[k].epoch = page.epoch =>
                k > 1 /\ out2[k - 1].type = "ready" /\ out2[k - 1].epoch = page.epoch
        <3> SUFFICES ASSUME NEW k \in 1..(L + 2), out2[k].type = "frame", out2[k].epoch = page.epoch
                     PROVE  k > 1 /\ out2[k - 1].type = "ready" /\ out2[k - 1].epoch = page.epoch
            OBVIOUS
        <3>1. k = L + 2 /\ out2[k] = m2
            BY <1>6, <1>14, <1>16
        <3>2. k > 1 /\ k - 1 = L + 1
            BY <1>13, <3>1
        <3>3. QED
            BY <1>6, <1>7, <1>13, <3>1, <3>2
    <2>2. page.view.status = "loading" =>
            page.view = LoadingView(page.epoch) /\ (worker.epoch = page.epoch => inbox = <<>> /\ ~worker.playing)
        BY DEF K, Kept, Loading
    <2>3. w2.playing => worker.playing
        BY <1>8, Zenon
    <2>4. QED
        BY <1>8, <1>13, <2>1, <2>2, <2>3 DEF Loading
<1>22. Fetching(page, w2, out2)
    <2> SUFFICES ASSUME NEW j \in w2.inits, j.epoch = page.epoch
                 PROVE  FALSE
        BY DEF Fetching
    <2>1. j \in worker.inits /\ j # i
        BY <1>8
    <2>2. j.epoch <= worker.epoch /\ j.epoch \in Nat
        BY <2>1, Awaiting
    <2>3. worker.epoch = page.epoch
        BY <1>15, <2>2
    <2>4. QED
        BY <1>9, <2>1, <2>3
<1>23. Announced(page, w2, out2)
    <2> SUFFICES ASSUME NEW k \in 1..(L + 2), out2[k].type = "ready", out2[k].epoch = page.epoch
                 PROVE  /\ page.view.status = "loading"
                        /\ out2[k].policies = page.asked
                        /\ k < Len(out2)
                        /\ out2[k + 1].type = "frame"
                        /\ out2[k + 1].epoch = page.epoch
                        /\ out2[k + 1].step = StepOf(w2)
                        /\ \A j \in 1..(L + 2) : out2[j].epoch = page.epoch => j \in {k, k + 1}
        BY <1>13 DEF Announced
    <2>1. k = L + 1 /\ out2[k] = m1
        BY <1>7, <1>14, <1>16
    <2>2. worker.epoch = page.epoch
        BY <1>2, <1>6, <2>1
    <2>3. page.view.status = "loading" /\ out2[k].policies = page.asked
        BY <1>6, <1>9, <1>11, <2>1, <2>2
    <2>4. k < Len(out2) /\ k + 1 = L + 2
        BY <1>13, <2>1
    <2>5. out2[k + 1] = m2
        BY <1>13, <2>4
    <2>6. StepOf(w2) = StepOf(worker)
        BY <1>8 DEF StepOf
    <2>7. \A j \in 1..(L + 2) : out2[j].epoch = page.epoch => j \in {k, k + 1}
        BY <1>14, <1>16, <2>1, <2>4
    <2>8. QED
        BY <1>2, <1>7, <2>2, <2>3, <2>4, <2>5, <2>6, <2>7
<1>24. Complete(page, worker) => Complete(page, w2)
    BY <1>8 DEF Complete
<1>25. Equipped(page, w2, inbox, out2)
    BY <1>8, <1>11, <1>24 DEF Equipped
<1>26. Aligned(page, out2)
    <2>1. \A k \in 1..(L + 2) : out2[k].type = "frame" /\ out2[k].epoch = page.epoch =>
                out2[k].frames = [q \in Range(page.asked) |-> out2[k].step]
        <3> SUFFICES ASSUME NEW k \in 1..(L + 2), out2[k].type = "frame", out2[k].epoch = page.epoch
                     PROVE  out2[k].frames = [q \in Range(page.asked) |-> out2[k].step]
            OBVIOUS
        <3>1. k = L + 2 /\ out2[k] = m2
            BY <1>6, <1>14, <1>16
        <3>2. worker.epoch = page.epoch
            BY <1>2, <1>7, <3>1
        <3>3. m2.step = 0 /\ m2.frames = [q \in Range(page.asked) |-> 0]
            BY <1>12, <3>2
        <3>4. QED
            BY <3>1, <3>3, Zenon
    <2>2. QED
        BY <1>13, <2>1 DEF K, Kept, Aligned
<1>27. Ticking(w2, inbox) /\ Standing(page, w2, inbox)
    BY <1>1, <1>8, Zenon DEF Ticking, Standing
<1>28. Agreeing(page, w2, inbox, out2)
    <2>1. page.view.status = "ready" => worker.epoch = page.epoch
        BY DEF K, Kept, Numbered
    <2>2. page.view.status # "ready"
        BY <1>9, <2>1
    <2>3. QED
        BY <2>2 DEF Agreeing
<1>29. Following(page, w2, inbox, out2, clicks)
    <2> SUFFICES ASSUME clicks = 0
                 PROVE  Following(page, w2, inbox, out2, 0)
        BY DEF Following
    <2>1. Following(page, worker, inbox, outbox, 0)
        BY DEF K, Kept
    <2>2. \A k \in 1..(L + 2) : out2[k].type = "frame" /\ out2[k].epoch = page.epoch =>
                k = L + 2 /\ out2[k].step = 0 /\ page.view.step = 0
        <3> SUFFICES ASSUME NEW k \in 1..(L + 2), out2[k].type = "frame", out2[k].epoch = page.epoch
                     PROVE  k = L + 2 /\ out2[k].step = 0 /\ page.view.step = 0
            OBVIOUS
        <3>1. k = L + 2 /\ out2[k] = m2
            BY <1>6, <1>14, <1>16
        <3>2. worker.epoch = page.epoch
            BY <1>2, <1>7, <3>1
        <3>3. QED
            BY <1>9, <1>12, <3>1, <3>2 DEF LoadingView, InitialView
    <2>3. ~w2.playing
        BY <1>1, <1>8, Zenon
    <2>4. \A j, k \in 1..(L + 2) :
            out2[j].type = "frame" /\ out2[j].epoch = page.epoch
                /\ out2[k].type = "frame" /\ out2[k].epoch = page.epoch => j = k
        BY <2>2
    <2>5. ASSUME NEW k \in 1..(L + 2), out2[k].type = "frame", out2[k].epoch = page.epoch
          PROVE  /\ out2[k].step \in {0, Goal}
                 /\ page.view.step = Goal => out2[k].step = Goal
                 /\ \A j \in 1..(L + 2) :
                        /\ j < k /\ out2[j].type = "frame" /\ out2[j].epoch = page.epoch
                        /\ out2[j].step = Goal
                        => out2[k].step = Goal
        BY <2>2, <2>4, <2>5
    <2>6. QED
        BY <1>13, <2>1, <2>3, <2>5 DEF Following
<1>30. QED
    BY <1>2, <1>17, <1>18, <1>19, <1>20, <1>21, <1>22, <1>23, <1>25, <1>26, <1>27, <1>28, <1>29 DEF Kept

(* Whatever the worker does. *)
LEMMA WorkerKeeps ==
    ASSUME K, WorkerNext
    PROVE  Kept(page, worker', inbox', outbox', clicks)
<1>1. CASE HandleMessage
    BY <1>1, InitKeeps, SeekKeeps, PlayKeeps, PauseKeeps, HandlerFailureKeeps DEF HandleMessage
<1>2. CASE HandleTimer
    BY <1>2, TimerKeeps, TimerFailureKeeps DEF HandleTimer
<1>3. CASE ProceedInit
    BY <1>3, AbandoningKeeps, LoadingKeeps, ReadyKeeps, LoadFailureKeeps DEF ProceedInit
<1>4. QED
    BY <1>1, <1>2, <1>3 DEF WorkerNext
-----------------------------------------------------------------------------
(* What a render does to a page. *)

Reached(p) ==
    p.restore = NoStep \/ p.seen.view.step >= Lesser(p.restore, p.seen.view.total)

(* A page that waits shows nothing. *)
LEMMA LoadingViewIs ==
    ASSUME NEW e \in Nat
    PROVE  /\ LoadingView(e) \in Views /\ InitialView \in Views
           /\ LoadingView(e).status = "loading"
           /\ LoadingView(e).epoch = e
           /\ LoadingView(e).step = 0
           /\ ~LoadingView(e).playing
           /\ LoadingView(e).frames = NoFrames
<1>1. <<>> \in Seq(Policies) /\ 0 \in 0..TotalSteps
    BY StepsAssumption
<1>2. NoFrames \in Rows
    <2>1. NoFrames = [q \in {} |-> 0]
        BY DEF NoFrames
    <2>2. NoFrames \in [{} -> 0..TotalSteps]
        BY <2>1
    <2>3. QED
        BY <2>2 DEF Rows
<1> DEFINE none == NoFrames
<1>3. InitialView = [status |-> "idle", epoch |-> 0, step |-> 0, total |-> 0,
                     playing |-> FALSE, policies |-> <<>>, frames |-> none]
    BY DEF InitialView
<1> HIDE DEF none
<1>4. none \in Rows
    BY <1>2 DEF none
<1>5. InitialView \in Views
    BY <1>1, <1>3, <1>4 DEF Views
<1>6. LoadingView(e) = [InitialView EXCEPT !.status = "loading", !.epoch = e]
    BY DEF LoadingView
<1>7. LoadingView(e) \in Views
    BY <1>5, <1>6 DEF Views
<1>8. /\ LoadingView(e).status = "loading"
      /\ LoadingView(e).epoch = e
      /\ LoadingView(e).step = 0
      /\ LoadingView(e).playing = FALSE
      /\ LoadingView(e).frames = none
    BY <1>3, <1>6
<1>9. QED
    BY <1>5, <1>7, <1>8 DEF none

(* The effect that starts a worker changes the view, the epoch and what is *)
(* asked.                                                                  *)
LEMMA StartedIs ==
    ASSUME NEW p \in Pages
    PROVE  /\ StartWorker(p) \in Pages
           /\ StartWorker(p).seen = p.seen /\ StartWorker(p).due = p.due
           /\ StartWorker(p).config = p.config /\ StartWorker(p).own = p.own
           /\ StartWorker(p).restore = p.restore /\ StartWorker(p).fragment = p.fragment
           /\ IF "worker" \in p.due
              THEN /\ StartWorker(p).view = LoadingView(p.epoch + 1)
                   /\ StartWorker(p).epoch = p.epoch + 1
                   /\ StartWorker(p).asked = p.seen.config
              ELSE /\ StartWorker(p).view = p.view
                   /\ StartWorker(p).epoch = p.epoch
                   /\ StartWorker(p).asked = p.asked
<1>1. CASE "worker" \notin p.due
    BY <1>1 DEF StartWorker
<1>2. CASE "worker" \in p.due
    <2> DEFINE e == p.epoch + 1
               a == p.seen.config
               v == LoadingView(p.epoch + 1)
    <2>1. e \in Nat /\ a \in Configs
        BY DEF Pages
    <2>2. v \in Views
        BY <2>1, LoadingViewIs
    <2>3. StartWorker(p) = [p EXCEPT !.epoch = e, !.asked = a, !.view = v]
        BY <1>2 DEF StartWorker
    <2> HIDE DEF e, a, v
    <2>4. /\ StartWorker(p) \in Pages
          /\ StartWorker(p).seen = p.seen /\ StartWorker(p).due = p.due
          /\ StartWorker(p).config = p.config
          /\ StartWorker(p).restore = p.restore /\ StartWorker(p).fragment = p.fragment
          /\ StartWorker(p).view = v
          /\ StartWorker(p).epoch = e
          /\ StartWorker(p).asked = a
        BY <2>1, <2>2, <2>3 DEF Pages
    <2>5. StartWorker(p).own = p.own
        BY <2>3 DEF Pages
    <2>6. QED
        BY <1>2, <2>4, <2>5 DEF e, a, v
<1>3. QED
    BY <1>1, <1>2

(* The effect that writes the fragment may drop a restore that was         *)
(* reached.                                                                *)
LEMMA WrittenIs ==
    ASSUME NEW p \in Pages
    PROVE  /\ WriteFragment(p) \in Pages
           /\ WriteFragment(p).seen = p.seen /\ WriteFragment(p).due = p.due
           /\ WriteFragment(p).config = p.config /\ WriteFragment(p).own = p.own
           /\ WriteFragment(p).view = p.view
           /\ WriteFragment(p).epoch = p.epoch
           /\ WriteFragment(p).asked = p.asked
           /\ \/ WriteFragment(p).restore = p.restore /\ WriteFragment(p).fragment = p.fragment
              \/ /\ p.seen.view.status = "ready" /\ Reached(p)
                 /\ WriteFragment(p).restore = NoStep
                 /\ WriteFragment(p).fragment \in
                        {p.fragment, [config |-> p.seen.config, step |-> p.seen.view.step]}
<1> DEFINE f == [config |-> p.seen.config, step |-> p.seen.view.step]
           idle == "fragment" \notin p.due \/ p.seen.view.status # "ready" \/ ~Reached(p)
           running == p.seen.view.playing /\ p.seen.view.step < p.seen.view.total
<1>1. WriteFragment(p) = IF idle THEN p
                         ELSE IF running THEN [p EXCEPT !.restore = NoStep]
                         ELSE [p EXCEPT !.restore = NoStep, !.fragment = f]
    BY DEF WriteFragment, Reached
<1>2. f \in [config : Configs, step : Nat]
    BY DEF Pages, Views
<1>3. ~idle => p.seen.view.status = "ready" /\ Reached(p)
    OBVIOUS
<1> HIDE DEF f, idle, running
<1>4. CASE idle
    BY <1>1, <1>4
<1>5. CASE ~idle /\ running
    <2>1. WriteFragment(p) = [p EXCEPT !.restore = NoStep]
        BY <1>1, <1>5
    <2>2. QED
        BY <1>3, <1>5, <2>1 DEF Pages
<1>6. CASE ~idle /\ ~running
    <2>1. WriteFragment(p) = [p EXCEPT !.restore = NoStep, !.fragment = f]
        BY <1>1, <1>6
    <2>2. /\ WriteFragment(p) \in Pages
          /\ WriteFragment(p).seen = p.seen /\ WriteFragment(p).due = p.due
          /\ WriteFragment(p).config = p.config /\ WriteFragment(p).own = p.own
          /\ WriteFragment(p).view = p.view
          /\ WriteFragment(p).epoch = p.epoch
          /\ WriteFragment(p).asked = p.asked
          /\ WriteFragment(p).restore = NoStep
          /\ WriteFragment(p).fragment = f
        BY <1>2, <2>1 DEF Pages
    <2>3. QED
        BY <1>3, <1>6, <2>2 DEF f
<1>7. QED
    BY <1>4, <1>5, <1>6

(* What the effects and the render after them make of a page. *)
LEMMA RenderedIs ==
    ASSUME NEW p \in Pages
    PROVE  /\ Rendered(p) \in Pages
           /\ Rendered(p).seen = [view |-> Rendered(p).view, config |-> Rendered(p).config]
           /\ Rendered(p).due = Changed(p.seen, Rendered(p).seen)
           /\ Rendered(p).config = p.config
           /\ Rendered(p).own = p.own
           /\ IF "worker" \in p.due
              THEN /\ Rendered(p).view = LoadingView(p.epoch + 1)
                   /\ Rendered(p).epoch = p.epoch + 1
                   /\ Rendered(p).asked = p.seen.config
              ELSE /\ Rendered(p).view = p.view
                   /\ Rendered(p).epoch = p.epoch
                   /\ Rendered(p).asked = p.asked
           /\ \/ Rendered(p).restore = p.restore /\ Rendered(p).fragment = p.fragment
              \/ /\ p.seen.view.status = "ready" /\ Reached(p)
                 /\ Rendered(p).restore = NoStep
                 /\ Rendered(p).fragment \in
                        {p.fragment, [config |-> p.seen.config, step |-> p.seen.view.step]}
<1> DEFINE p1 == StartWorker(p)
           done == WriteFragment(p1)
           new == [view |-> done.view, config |-> done.config]
           d == Changed(p.seen, new)
<1>1. /\ p1 \in Pages
      /\ p1.seen = p.seen /\ p1.config = p.config /\ p1.own = p.own
      /\ p1.restore = p.restore /\ p1.fragment = p.fragment
      /\ IF "worker" \in p.due
         THEN /\ p1.view = LoadingView(p.epoch + 1)
              /\ p1.epoch = p.epoch + 1
              /\ p1.asked = p.seen.config
         ELSE /\ p1.view = p.view
              /\ p1.epoch = p.epoch
              /\ p1.asked = p.asked
    BY StartedIs
<1> HIDE DEF p1
<1>2. /\ done \in Pages
      /\ done.config = p1.config /\ done.own = p1.own
      /\ done.view = p1.view
      /\ done.epoch = p1.epoch
      /\ done.asked = p1.asked
      /\ \/ done.restore = p1.restore /\ done.fragment = p1.fragment
         \/ /\ p1.seen.view.status = "ready" /\ Reached(p1)
            /\ done.restore = NoStep
            /\ done.fragment \in
                   {p1.fragment, [config |-> p1.seen.config, step |-> p1.seen.view.step]}
    BY <1>1, WrittenIs, Zenon
<1>3. Reached(p1) = Reached(p)
    BY <1>1 DEF Reached
<1>4. Rendered(p) = [done EXCEPT !.seen = new, !.due = d]
    BY DEF Rendered, p1
<1> HIDE DEF done
<1>5. new \in [view : Views, config : Configs] /\ d \in SUBSET {"worker", "restore", "fragment"}
    <2>1. new \in [view : Views, config : Configs]
        BY <1>2 DEF Pages
    <2>2. d \subseteq {"worker", "restore", "fragment"}
        BY DEF Changed
    <2>3. QED
        BY <2>1, <2>2
<1> HIDE DEF new, d
<1>6. /\ Rendered(p) \in Pages
      /\ Rendered(p).seen = new
      /\ Rendered(p).due = d
      /\ Rendered(p).config = done.config
      /\ Rendered(p).view = done.view
      /\ Rendered(p).epoch = done.epoch
      /\ Rendered(p).asked = done.asked
      /\ Rendered(p).restore = done.restore
      /\ Rendered(p).fragment = done.fragment
    BY <1>2, <1>4, <1>5, ZenonT(30) DEF Pages
<1>7. Rendered(p).own = done.own
    BY <1>2, <1>4, <1>5 DEF Pages
<1>8. Rendered(p).seen = [view |-> Rendered(p).view, config |-> Rendered(p).config]
    BY <1>6 DEF new
<1>9. Rendered(p).due = Changed(p.seen, Rendered(p).seen)
    BY <1>6, Zenon DEF d
<1>10. \/ Rendered(p).restore = p.restore /\ Rendered(p).fragment = p.fragment
       \/ /\ p.seen.view.status = "ready" /\ Reached(p)
          /\ Rendered(p).restore = NoStep
          /\ Rendered(p).fragment \in
                 {p.fragment, [config |-> p.seen.config, step |-> p.seen.view.step]}
    BY <1>1, <1>2, <1>3, <1>6
<1>11. Rendered(p).config = p.config /\ Rendered(p).own = p.own
    BY <1>1, <1>2, <1>6, <1>7, Zenon
<1>12. IF "worker" \in p.due
       THEN /\ Rendered(p).view = LoadingView(p.epoch + 1)
            /\ Rendered(p).epoch = p.epoch + 1
            /\ Rendered(p).asked = p.seen.config
       ELSE /\ Rendered(p).view = p.view
            /\ Rendered(p).epoch = p.epoch
            /\ Rendered(p).asked = p.asked
    BY <1>1, <1>2, <1>6
<1>13. QED
    BY <1>6, <1>8, <1>9, <1>10, <1>11, <1>12, Zenon

(* How a page differs from what was last rendered of it. *)
Made(p, w, c) ==
    /\ p.seen.view.status = "ready" =>
        p.view.status \in {"ready", "error"} /\ p.seen.view.total = TotalSteps /\ Complete(p, w)
    /\ p.config # p.seen.config => p.view = p.seen.view
    /\ {"worker", "restore"} \subseteq p.due => p.seen.view.status # "ready"
    /\ c = 0 =>
        /\ p.config = p.seen.config
        /\ p.seen.view.step \in {0, Goal}
        /\ p.seen.view.step = Goal => p.view.step = Goal
        /\ p.restore = NoStep => p.seen.view.step = Goal
        /\ "worker" \in p.due => p.seen.view.step = 0 /\ p.seen.view.status # "ready"

(* A worker and its mail as a page may leave them to a new epoch. *)
Left(p, w, in, out, c) ==
    /\ w \in Workers /\ in \in Seq(Orders) /\ out \in Seq(Reports)
    /\ w.epoch <= p.epoch
    /\ \A i \in w.inits : i.epoch <= w.epoch
    /\ \A k \in DOMAIN in : in[k].type = "init" => w.epoch < in[k].epoch /\ in[k].epoch <= p.epoch
    /\ \A j, k \in DOMAIN in :
            j < k /\ in[j].type = "init" /\ in[k].type = "init" => in[j].epoch < in[k].epoch
    /\ \A k \in DOMAIN out : out[k].epoch <= p.epoch
    /\ Ticking(w, in)
    /\ c = 0 =>
        /\ ~w.playing
        /\ \A k \in DOMAIN in : in[k].type # "init" => in[k].type = "seek" /\ in[k].step = Goal

(* Sending one message more. *)
LEMMA Sent ==
    ASSUME NEW in \in Seq(Orders), NEW m \in Orders
    PROVE  /\ Append(in, m) \in Seq(Orders)
           /\ Len(in) \in Nat
           /\ Len(Append(in, m)) = Len(in) + 1
           /\ DOMAIN in = 1..Len(in)
           /\ DOMAIN Append(in, m) = 1..(Len(in) + 1)
           /\ \A k \in 1..Len(in) : Append(in, m)[k] = in[k]
           /\ Append(in, m)[Len(in) + 1] = m
           /\ \A k \in 1..(Len(in) + 1) : k \in 1..Len(in) \/ k = Len(in) + 1
           /\ Append(in, m) # <<>>
           /\ in # <<>> => Append(in, m)[1] = in[1]
           /\ in = <<>> => Append(in, m)[1] = m
<1>1. Len(in) \in Nat /\ DOMAIN in = 1..Len(in)
    OBVIOUS
<1>2. /\ Append(in, m) \in Seq(Orders)
      /\ Len(Append(in, m)) = Len(in) + 1
      /\ DOMAIN Append(in, m) = 1..(Len(in) + 1)
      /\ \A k \in 1..Len(in) : Append(in, m)[k] = in[k]
      /\ Append(in, m)[Len(in) + 1] = m
    OBVIOUS
<1>3. \A k \in 1..(Len(in) + 1) : k \in 1..Len(in) \/ k = Len(in) + 1
    BY <1>1
<1>4. Append(in, m) # <<>>
    BY <1>1, <1>2
<1>5. in # <<>> => Append(in, m)[1] = in[1]
    OBVIOUS
<1>6. in = <<>> => Append(in, m)[1] = m
    OBVIOUS
<1>7. QED
    BY <1>1, <1>2, <1>3, <1>4, <1>5, <1>6

(* Anything but a play can be sent without meeting a timeout. *)
LEMMA TickingStill ==
    ASSUME NEW w, NEW in \in Seq(Orders), NEW m \in Orders, Ticking(w, in),
           m.type = "play" => IF in = <<>> THEN ~w.held ELSE in[Len(in)].type # "play"
    PROVE  Ticking(w, Append(in, m))
<1>1. Append(in, m)[1].type = "play" => ~w.held
    BY Sent DEF Ticking
<1>2. \A k \in 1..(Len(in) + 1) :
        k > 1 /\ Append(in, m)[k].type = "play" => Append(in, m)[k - 1].type # "play"
    <2> SUFFICES ASSUME NEW k \in 1..(Len(in) + 1), k > 1, Append(in, m)[k].type = "play"
                 PROVE  Append(in, m)[k - 1].type # "play"
        OBVIOUS
    <2>1. k - 1 \in 1..Len(in)
        BY Sent
    <2>2. Append(in, m)[k - 1] = in[k - 1]
        BY <2>1, Sent
    <2>3. CASE k \in 1..Len(in)
        <3>1. Append(in, m)[k] = in[k]
            BY <2>3, Sent
        <3>2. \A x \in 1..Len(in) : x > 1 /\ in[x].type = "play" => in[x - 1].type # "play"
            BY Sent DEF Ticking
        <3>3. QED
            BY <2>2, <2>3, <3>1, <3>2
    <2>4. CASE k = Len(in) + 1
        <3>1. m.type = "play"
            BY <2>4, Sent
        <3>2. k - 1 = Len(in) /\ in # <<>>
            BY <2>1, <2>4, Sent
        <3>3. QED
            BY <2>2, <3>1, <3>2
    <2>5. QED
        BY <2>3, <2>4, Sent
<1>3. QED
    BY <1>1, <1>2, Sent DEF Ticking

(* A render that starts an epoch. *)
LEMMA StartKeeps ==
    ASSUME NEW p, NEW w0, NEW in0, NEW out0, NEW c, Kept(p, w0, in0, out0, c),
           Made(p, w0, c), "worker" \in p.due,
           NEW w, NEW in, NEW out, Left(p, w, in, out, c)
    PROVE  Kept(Rendered(p), w, Append(in, InitMessage(Rendered(p))), out, c)
<1> DEFINE q == Rendered(p)
           m == InitMessage(q)
           in2 == Append(in, m)
<1>1. p \in Pages /\ p.epoch \in Nat /\ p.seen.config \in Configs
    <2>1. p \in Pages
        BY DEF Kept, Typed
    <2>2. QED
        BY <2>1 DEF Pages
<1>2. /\ q \in Pages
      /\ q.due = Changed(p.seen, q.seen)
      /\ q.seen = [view |-> q.view, config |-> q.config]
      /\ q.config = p.config
      /\ q.view = LoadingView(p.epoch + 1)
      /\ q.epoch = p.epoch + 1
      /\ q.asked = p.seen.config
      /\ \/ q.restore = p.restore /\ q.fragment = p.fragment
         \/ p.seen.view.status = "ready"
    BY <1>1, RenderedIs
<1>3. /\ q.epoch \in Nat \ {0}
      /\ q.view.status = "loading" /\ q.view.epoch = q.epoch /\ q.view.step = 0
      /\ ~q.view.playing /\ q.view.frames = NoFrames
      /\ q.view = LoadingView(q.epoch)
      /\ q.asked \in Configs
    <2>1. p.epoch + 1 \in Nat \ {0}
        BY <1>1
    <2>2. QED
        BY <1>1, <1>2, <2>1, LoadingViewIs
<1> HIDE DEF q
<1>4. m \in Orders /\ m.type = "init" /\ m.epoch = q.epoch /\ m.policies = q.asked
    BY <1>3 DEF InitMessage, Orders
<1> HIDE DEF m
<1>5. /\ w \in Workers /\ in \in Seq(Orders) /\ out \in Seq(Reports)
      /\ w.epoch \in Nat
      /\ DOMAIN out = 1..Len(out)
      /\ \A i \in w.inits : i.epoch \in Nat
      /\ w.epoch < q.epoch
      /\ \A i \in w.inits : i.epoch <= w.epoch
      /\ Ticking(w, in)
    <2>1. w \in Workers /\ in \in Seq(Orders) /\ out \in Seq(Reports) /\ w.epoch <= p.epoch
        BY DEF Left
    <2>2. w.epoch \in Nat /\ \A i \in w.inits : i.epoch \in Nat
        BY <2>1 DEF Workers, Loads
    <2>3. w.epoch < q.epoch
        BY <1>1, <1>2, <2>1, <2>2
    <2>4. QED
        BY <2>1, <2>2, <2>3 DEF Left
<1>6. \A k \in 1..Len(out) : out[k].epoch \in Nat /\ out[k].epoch < q.epoch
    <2> TAKE k \in 1..Len(out)
    <2>1. out[k] \in Reports
        BY <1>5
    <2>2. out[k].epoch \in Nat /\ out[k].epoch <= p.epoch
        BY <1>5, <2>1 DEF Reports, Left
    <2>3. QED
        BY <1>1, <1>2, <2>2
<1>7. \A k \in 1..Len(in) : in[k].type = "init" =>
            w.epoch < in[k].epoch /\ in[k].epoch < q.epoch
    <2> SUFFICES ASSUME NEW k \in 1..Len(in), in[k].type = "init"
                 PROVE  w.epoch < in[k].epoch /\ in[k].epoch < q.epoch
        OBVIOUS
    <2>1. in[k] \in Orders
        BY <1>5
    <2>2. in[k].epoch \in Nat
        BY <2>1 DEF Orders
    <2>3. w.epoch < in[k].epoch /\ in[k].epoch <= p.epoch
        BY <1>5, Sent DEF Left
    <2>4. QED
        BY <1>1, <1>2, <2>2, <2>3
<1>8. /\ in2 \in Seq(Orders)
      /\ Len(in) \in Nat
      /\ Len(in2) = Len(in) + 1
      /\ DOMAIN in = 1..Len(in)
      /\ DOMAIN in2 = 1..(Len(in) + 1)
      /\ \A k \in 1..Len(in) : in2[k] = in[k]
      /\ in2[Len(in) + 1] = m
      /\ \A k \in 1..(Len(in) + 1) : k \in 1..Len(in) \/ k = Len(in) + 1
      /\ in2 # <<>>
    BY <1>4, <1>5, Sent
<1>9. Ticking(w, in2)
    BY <1>4, <1>5, TickingStill
<1> HIDE DEF in2
<1>10. Typed(q, w, in2, out)
    BY <1>2, <1>5, <1>8 DEF Typed
<1>11. Numbered(q, w, in2, out)
    <2>1. \A k \in 1..(Len(in) + 1) : in2[k].type = "init" => w.epoch < in2[k].epoch /\ in2[k].epoch <= q.epoch
        <3> TAKE k \in 1..(Len(in) + 1)
        <3>1. CASE k \in 1..Len(in)
            <4>1. in2[k] = in[k] /\ in[k] \in Orders
                BY <1>5, <1>8, <3>1
            <4>2. in[k].type = "init" => in[k].epoch \in Nat
                BY <4>1 DEF Orders
            <4>3. QED
                BY <1>3, <1>7, <3>1, <4>1, <4>2
        <3>2. CASE k = Len(in) + 1
            BY <1>3, <1>4, <1>5, <1>8, <3>2
        <3>3. QED
            BY <1>8, <3>1, <3>2
    <2>2. \A j, k \in 1..(Len(in) + 1) :
            j < k /\ in2[j].type = "init" /\ in2[k].type = "init" => in2[j].epoch < in2[k].epoch
        <3> SUFFICES ASSUME NEW j \in 1..(Len(in) + 1), NEW k \in 1..(Len(in) + 1),
                            j < k, in2[j].type = "init", in2[k].type = "init"
                     PROVE  in2[j].epoch < in2[k].epoch
            OBVIOUS
        <3>1. j \in 1..Len(in)
            BY <1>8
        <3>2. in2[j] = in[j]
            BY <1>8, <3>1
        <3>3. CASE k \in 1..Len(in)
            <4>1. in2[k] = in[k]
                BY <1>8, <3>3
            <4>2. \A x, y \in 1..Len(in) :
                    x < y /\ in[x].type = "init" /\ in[y].type = "init" => in[x].epoch < in[y].epoch
                BY <1>8 DEF Left
            <4>3. QED
                BY <3>1, <3>2, <3>3, <4>1, <4>2
        <3>4. CASE k = Len(in) + 1
            BY <1>4, <1>7, <1>8, <3>1, <3>2, <3>4
        <3>5. QED
            BY <1>8, <3>3, <3>4
    <2>3. \A k \in 1..Len(out) : out[k].epoch <= q.epoch /\ out[k].epoch # q.epoch
        BY <1>3, <1>6
    <2>4. w.epoch <= q.epoch
        BY <1>3, <1>5
    <2>5. QED
        BY <1>3, <1>5, <1>8, <2>1, <2>2, <2>3, <2>4 DEF Numbered
<1>12. Idle(q, w, in2, out)
    BY <1>3 DEF Idle
<1>13. Asked(q, in2)
    <2> SUFFICES ASSUME NEW k \in 1..(Len(in) + 1), in2[k].type = "init", in2[k].epoch = q.epoch
                 PROVE  k = Len(in2) /\ in2[k].policies = q.asked /\ q.view.status = "loading"
        BY <1>8 DEF Asked
    <2>1. k \notin 1..Len(in)
        BY <1>3, <1>7, <1>8
    <2>2. QED
        BY <1>3, <1>4, <1>8, <2>1
<1>14. w.epoch # q.epoch /\ \A k \in 1..Len(out) : out[k].epoch # q.epoch
    BY <1>3, <1>5, <1>6
<1>15. Loading(q, w, in2, out)
    BY <1>3, <1>5, <1>14 DEF Loading
<1>16. Fetching(q, w, out)
    <2>1. \A i \in w.inits : i.epoch # q.epoch
        BY <1>3, <1>5
    <2>2. QED
        BY <2>1 DEF Fetching
<1>17. Announced(q, w, out) /\ Equipped(q, w, in2, out)
    BY <1>5, <1>14 DEF Announced, Equipped
<1>18. Aligned(q, out)
    BY <1>3, <1>5, <1>14 DEF Aligned
<1>19. Standing(q, w, in2)
    BY <1>4, <1>8 DEF Standing
<1>20. Agreeing(q, w, in2, out)
    BY <1>3 DEF Agreeing
<1>21. Following(q, w, in2, out, c)
    <2> SUFFICES ASSUME c = 0
                 PROVE  Following(q, w, in2, out, 0)
        BY DEF Following
    <2>1. /\ p.fragment.config = p.config /\ p.fragment.step \in {LinkedStep, Goal}
          /\ p.restore \in {NoStep, LinkedStep}
        BY DEF Kept, Following
    <2>2. /\ p.config = p.seen.config
          /\ p.restore = NoStep => p.seen.view.step = Goal
          /\ p.seen.view.step = 0 /\ p.seen.view.status # "ready"
        BY DEF Made
    <2>3. q.restore = p.restore /\ q.fragment = p.fragment
        BY <1>2, <2>2
    <2>4. "worker" \notin q.due
        <3>1. q.seen.config = p.seen.config
            BY <1>2, <2>2
        <3>2. QED
            BY <1>2, <3>1 DEF Changed
    <2>5. \A k \in 1..(Len(in) + 1) : in2[k].type # "init" => in2[k].type = "seek" /\ in2[k].step = Goal
        BY <1>4, <1>8 DEF Left
    <2>6. ~w.playing
        BY DEF Left
    <2>7. q.restore = NoStep => q.view.step = Goal
        BY <1>3, <2>2, <2>3
    <2>8. QED
        BY <1>2, <1>3, <1>5, <1>8, <1>14, <2>1, <2>3, <2>4, <2>5, <2>6, <2>7 DEF Following
<1>22. Kept(q, w, in2, out, c)
    BY <1>9, <1>10, <1>11, <1>12, <1>13, <1>15, <1>16, <1>17, <1>18, <1>19, <1>20, <1>21 DEF Kept
<1>23. QED
    BY <1>22 DEF q, m, in2

(* A page that is ready, or has failed since it was rendered as ready,     *)
(* tells its worker one thing more and may become p2.                      *)
Tells(p, p2, w, in, m, c) ==
    /\ p.view.status \in {"ready", "error"}
    /\ Complete(p, w)
    /\ p2 \in Pages
    /\ p2.epoch = p.epoch /\ p2.asked = p.asked
    /\ p2.view.status = p.view.status
    /\ p2.view.epoch = p.view.epoch
    /\ p2.view.total = p.view.total
    /\ p2.view.policies = p.view.policies
    /\ p2.view.frames = p.view.frames
    /\ m \in Orders /\ m.type # "init"
    /\ m.type = "play" => p2.view.playing
    /\ m.type = "play" => IF in = <<>> THEN ~w.held ELSE in[Len(in)].type # "play"
    /\ \/ m.type = "seek"
       \/ \E k \in 1..Len(in) : in[k].type = "seek"
       \/ p2.view.step = p.view.step
    /\ c = 0 => p2 = p /\ m.type = "seek" /\ m.step = Goal

(* Telling the worker so keeps the invariant. *)
LEMMA TellingKeeps ==
    ASSUME NEW p, NEW w, NEW in, NEW out, NEW c, Kept(p, w, in, out, c),
           NEW p2, NEW m, Tells(p, p2, w, in, m, c)
    PROVE  Kept(p2, w, Append(in, m), out, c)
<1> DEFINE in2 == Append(in, m)
<1>1. /\ p \in Pages /\ p2 \in Pages /\ w \in Workers /\ in \in Seq(Orders) /\ out \in Seq(Reports)
      /\ m \in Orders /\ m.type # "init"
      /\ p.view.status \in {"ready", "error"}
      /\ p2.epoch = p.epoch /\ p2.asked = p.asked
      /\ p2.view.status = p.view.status
      /\ p2.view.epoch = p.view.epoch
      /\ p2.view.total = p.view.total
      /\ p2.view.policies = p.view.policies
      /\ p2.view.frames = p.view.frames
    BY DEF Kept, Typed, Tells
<1>2. /\ in2 \in Seq(Orders)
      /\ Len(in) \in Nat
      /\ Len(in2) = Len(in) + 1
      /\ DOMAIN in = 1..Len(in)
      /\ DOMAIN in2 = 1..(Len(in) + 1)
      /\ \A k \in 1..Len(in) : in2[k] = in[k]
      /\ in2[Len(in) + 1] = m
      /\ \A k \in 1..(Len(in) + 1) : k \in 1..Len(in) \/ k = Len(in) + 1
      /\ in2 # <<>>
    BY <1>1, Sent
<1>3. Ticking(w, in2)
    BY <1>1, TickingStill DEF Kept, Tells
<1> HIDE DEF in2
<1>4. w.epoch = p.epoch /\ p.epoch \in Nat
    BY <1>1 DEF Kept, Numbered, Pages
<1>5. \A k \in 1..(Len(in) + 1) : in2[k].type = "init" => k \in 1..Len(in) /\ in2[k] = in[k]
    BY <1>1, <1>2
<1>6. Typed(p2, w, in2, out)
    BY <1>1, <1>2 DEF Typed
<1>7. Numbered(p2, w, in2, out)
    <2>1. \A k \in 1..(Len(in) + 1) : in2[k].type = "init" =>
                w.epoch < in2[k].epoch /\ in2[k].epoch <= p.epoch
        BY <1>2, <1>5 DEF Kept, Numbered
    <2>2. \A j, k \in 1..(Len(in) + 1) :
            j < k /\ in2[j].type = "init" /\ in2[k].type = "init" => in2[j].epoch < in2[k].epoch
        BY <1>2, <1>5 DEF Kept, Numbered
    <2>3. QED
        BY <1>1, <1>2, <2>1, <2>2 DEF Kept, Numbered
<1>8. Idle(p2, w, in2, out)
    BY <1>1 DEF Kept, Idle
<1>9. Asked(p2, in2)
    <2>1. \A k \in 1..(Len(in) + 1) : in2[k].type = "init" => in2[k].epoch # p.epoch
        BY <1>1, <1>2, <1>5 DEF Kept, Asked
    <2>2. QED
        BY <1>1, <1>2, <2>1 DEF Asked
<1>10. Loading(p2, w, in2, out) /\ Fetching(p2, w, out) /\ Announced(p2, w, out)
    BY <1>1 DEF Kept, Loading, Fetching, Announced
<1>11. Equipped(p2, w, in2, out)
    BY <1>1 DEF Tells, Complete, Equipped
<1>12. Aligned(p2, out)
    BY <1>1 DEF Kept, Aligned
<1>13. Standing(p2, w, in2)
    BY <1>2 DEF Tells, Standing
<1>14. Agreeing(p2, w, in2, out)
    <2>1. CASE \E k \in 1..(Len(in) + 1) : in2[k].type = "seek"
        BY <1>2, <2>1 DEF Agreeing
    <2>2. CASE \A k \in 1..(Len(in) + 1) : in2[k].type # "seek"
        <3>1. m.type # "seek" /\ \A k \in 1..Len(in) : k \in 1..(Len(in) + 1) /\ in[k].type # "seek"
            BY <1>2, <2>2
        <3>2. p2.view.step = p.view.step
            BY <3>1 DEF Tells
        <3>3. QED
            BY <1>1, <1>2, <3>1, <3>2 DEF Kept, Agreeing
    <2>3. QED
        BY <2>1, <2>2
<1>15. Following(p2, w, in2, out, c)
    <2> SUFFICES ASSUME c = 0
                 PROVE  Following(p2, w, in2, out, 0)
        BY DEF Following
    <2>1. p2 = p /\ m.type = "seek" /\ m.step = Goal
        BY DEF Tells
    <2>2. Following(p, w, in, out, 0)
        BY DEF Kept
    <2>3. \A k \in 1..(Len(in) + 1) : in2[k].type # "init" => in2[k].type = "seek" /\ in2[k].step = Goal
        BY <1>2, <2>1, <2>2 DEF Following
    <2>4. QED
        BY <1>2, <2>1, <2>2, <2>3 DEF Following
<1>16. Kept(p2, w, in2, out, c)
    BY <1>3, <1>6, <1>7, <1>8, <1>9, <1>10, <1>11, <1>12, <1>13, <1>14, <1>15 DEF Kept
<1>17. QED
    BY <1>16 DEF in2

(* A render that starts nothing. *)
LEMMA StayKeeps ==
    ASSUME NEW p, NEW w, NEW in, NEW out, NEW c, Kept(p, w, in, out, c), Made(p, w, c),
           "worker" \notin p.due
    PROVE  Kept(Rendered(p), w, in, out, c)
<1> DEFINE q == Rendered(p)
<1>1. /\ p \in Pages /\ p.view.status # "idle"
      /\ DOMAIN in = 1..Len(in) /\ DOMAIN out = 1..Len(out)
    BY DEF Kept, Typed, Idle
<1>2. /\ q \in Pages
      /\ q.due = Changed(p.seen, q.seen)
      /\ q.seen = [view |-> q.view, config |-> q.config]
      /\ q.config = p.config
      /\ q.view = p.view
      /\ q.epoch = p.epoch
      /\ q.asked = p.asked
      /\ \/ q.restore = p.restore /\ q.fragment = p.fragment
         \/ /\ p.seen.view.status = "ready" /\ Reached(p)
            /\ q.restore = NoStep
            /\ q.fragment \in {p.fragment, [config |-> p.seen.config, step |-> p.seen.view.step]}
    BY <1>1, RenderedIs
<1> HIDE DEF q
<1>3. Typed(q, w, in, out)
    BY <1>2 DEF Kept, Typed
<1>4. Numbered(q, w, in, out)
    BY <1>2 DEF Kept, Numbered
<1>5. Idle(q, w, in, out)
    BY <1>1, <1>2 DEF Kept, Idle
<1>6. Asked(q, in) /\ Loading(q, w, in, out) /\ Fetching(q, w, out) /\ Announced(q, w, out)
    BY <1>2 DEF Kept, Asked, Loading, Fetching, Announced
<1>7. Equipped(q, w, in, out) /\ Aligned(q, out) /\ Standing(q, w, in) /\ Agreeing(q, w, in, out)
    BY <1>2 DEF Kept, Equipped, Complete, Aligned, Standing, Agreeing
<1>8. Following(q, w, in, out, c)
    <2> SUFFICES ASSUME c = 0
                 PROVE  Following(q, w, in, out, 0)
        BY DEF Following
    <2>1. Following(p, w, in, out, 0)
        BY DEF Kept
    <2>2. /\ p.config = p.seen.config
          /\ p.seen.view.step \in {0, Goal}
          /\ p.seen.view.step = Goal => p.view.step = Goal
          /\ p.restore = NoStep => p.seen.view.step = Goal
          /\ p.seen.view.status = "ready" => p.seen.view.total = TotalSteps
        BY DEF Made
    <2>3. p.restore \in {NoStep, LinkedStep}
        BY <2>1 DEF Following
    <2>4. Goal \in Nat
        BY RunnerAssumption, StepsAssumption DEF Goal, Lesser
    <2>5. p.seen.view.status = "ready" /\ Reached(p) => p.seen.view.step = Goal
        <3>1. CASE p.restore = NoStep
            BY <2>2, <3>1
        <3>2. CASE p.restore # NoStep
            <4>1. p.restore = LinkedStep
                BY <2>3, <3>2
            <4>2. p.seen.view.status = "ready" /\ Reached(p) => p.seen.view.step >= Goal
                BY <2>2, <3>2, <4>1 DEF Reached, Goal
            <4>3. QED
                BY <2>2, <2>4, <4>2
        <3>3. QED
            BY <3>1, <3>2
    <2>6. q.fragment.config = q.config /\ q.fragment.step \in {LinkedStep, Goal}
        BY <1>2, <2>1, <2>2, <2>5 DEF Following
    <2>7. q.restore \in {NoStep, LinkedStep} /\ (q.restore = NoStep => q.view.step = Goal)
        BY <1>2, <2>2, <2>3, <2>5
    <2>8. "worker" \notin q.due
        <3>1. q.seen.config = p.seen.config
            BY <1>2, <2>2
        <3>2. QED
            BY <1>2, <3>1 DEF Changed
    <2>9. QED
        BY <1>2, <2>1, <2>6, <2>7, <2>8 DEF Following
<1>9. Kept(q, w, in, out, c)
    BY <1>3, <1>4, <1>5, <1>6, <1>7, <1>8 DEF Kept
<1>10. QED
    BY <1>9 DEF q

(* What was rendered is what the page is, and a new choice of policies is  *)
(* never rendered together with another change.                            *)
LEMMA RenderPaints ==
    ASSUME NEW p \in Pages, NEW w, NEW c, Made(p, w, c)
    PROVE  Painted(Rendered(p))
<1> DEFINE q == Rendered(p)
<1>1. /\ q.due = Changed(p.seen, q.seen)
      /\ q.seen = [view |-> q.view, config |-> q.config]
      /\ q.config = p.config
      /\ "worker" \in p.due => q.view = LoadingView(p.epoch + 1)
      /\ "worker" \notin p.due => q.view = p.view
    BY RenderedIs
<1> HIDE DEF q
<1>2. CASE "worker" \in p.due
    <2>1. p.epoch + 1 \in Nat
        BY DEF Pages
    <2>2. q.view.status = "loading"
        BY <1>1, <1>2, <2>1, LoadingViewIs
    <2>3. QED
        BY <1>1, <2>2 DEF Painted, q
<1>3. CASE "worker" \notin p.due
    <2> SUFFICES ASSUME {"worker", "restore"} \subseteq q.due
                 PROVE  FALSE
        BY <1>1 DEF Painted, q
    <2>1. q.seen.config # p.seen.config
        BY <1>1 DEF Changed
    <2>2. q.seen.view = p.seen.view
        BY <1>1, <1>3, <2>1 DEF Made
    <2>3. "restore" \notin q.due
        BY <1>1, <2>2 DEF Changed
    <2>4. QED
        BY <2>3
<1>4. QED
    BY <1>2, <1>3

(* A worker that is replaced leaves nothing behind, and one that is told   *)
(* to start again has only the page's past to deal with.                   *)
LEMMA LeftIs ==
    ASSUME NEW p, NEW w, NEW in, NEW out, NEW c, Kept(p, w, in, out, c)
    PROVE  /\ Left(p, w, in, out, c)
           /\ Left(p, NewWorker, <<>>, out, c)
           /\ Left(p, NewWorker, <<>>, <<>>, c)
<1>1. /\ w \in Workers /\ in \in Seq(Orders) /\ out \in Seq(Reports)
      /\ p.epoch \in Nat
    BY DEF Kept, Typed, Pages
<1>2. Left(p, w, in, out, c)
    BY <1>1 DEF Kept, Numbered, Following, Left
<1>3. /\ NewWorker \in Workers /\ <<>> \in Seq(Orders) /\ <<>> \in Seq(Reports)
      /\ NewWorker.epoch = 0 /\ NewWorker.inits = {} /\ ~NewWorker.playing
      /\ Ticking(NewWorker, <<>>)
    <2>1. <<>> \in Seq(Sims)
        OBVIOUS
    <2>2. NewWorker \in Workers
        BY <2>1 DEF NewWorker, Workers
    <2>3. QED
        BY <2>2 DEF NewWorker, Ticking
<1>4. 0 <= p.epoch
    BY <1>1
<1>5. Left(p, NewWorker, <<>>, out, c) /\ Left(p, NewWorker, <<>>, <<>>, c)
    BY <1>2, <1>3, <1>4 DEF Left
<1>6. QED
    BY <1>2, <1>5

(* A handler's changes and the render after them, or the effects of the    *)
(* render before.                                                          *)
LEMMA TurnKeeps ==
    ASSUME NEW p, NEW sent \in Seq(Orders), NEW mail,
           inbox \in Seq(Orders),
           Kept(p, worker, inbox \o sent, mail, clicks'), Made(p, worker, clicks'),
           Turn(p, sent, mail, TRUE)
    PROVE  IInv'
<1> DEFINE in == inbox \o sent
           c == clicks'
           q == Rendered(p)
           m == InitMessage(q)
<1>1. p \in Pages /\ in \in Seq(Orders)
    BY DEF Kept, Typed
<1>2. page' = q
    BY DEF Turn
<1>3. Painted(q)
    BY <1>1, RenderPaints
<1>4. CASE "worker" \in p.due
    <2>1. RestoreSeek(p) = <<>>
        BY <1>4 DEF RestoreSeek, Made
    <2>2. /\ Left(p, worker, in, mail, c)
          /\ Left(p, NewWorker, <<>>, mail, c)
          /\ Left(p, NewWorker, <<>>, <<>>, c)
        BY LeftIs
    <2>3. CASE p.own
        <3>1. worker' = NewWorker /\ inbox' = <<m>> /\ outbox' \in {<<>>, mail}
            BY <1>2, <1>4, <2>3 DEF Turn
        <3> HIDE DEF m
        <3>2. inbox' = Append(<<>>, m)
            BY <3>1
        <3>3. Left(p, NewWorker, <<>>, outbox', c)
            BY <2>2, <3>1
        <3> HIDE DEF in, c, q
        <3>4. Kept(q, NewWorker, Append(<<>>, m), outbox', c)
            BY <1>4, <3>3, StartKeeps DEF in, c, q, m
        <3>5. QED
            BY <1>2, <1>3, <3>1, <3>2, <3>4 DEF IInv, c
    <2>4. CASE ~p.own
        <3>1. worker' = worker /\ inbox' = inbox \o sent \o <<m>> \o <<>> /\ outbox' = mail
            BY <1>2, <1>4, <2>1, <2>4 DEF Turn
        <3> HIDE DEF m
        <3>2. inbox' = Append(in, m)
            <4> HIDE DEF in
            <4>1. inbox' = in \o <<m>> \o <<>>
                BY <3>1 DEF in
            <4>2. in \o <<m>> \o <<>> = Append(in, m)
                BY <1>1
            <4>3. QED
                BY <4>1, <4>2
        <3> HIDE DEF in, c, q
        <3>3. Kept(q, worker, Append(in, m), mail, c)
            BY <1>4, <2>2, StartKeeps DEF in, c, q, m
        <3>4. QED
            BY <1>2, <1>3, <3>1, <3>2, <3>3 DEF IInv, c
    <2>5. QED
        BY <2>3, <2>4
<1>5. CASE "worker" \notin p.due
    <2>1. /\ worker' = worker /\ outbox' = mail
          /\ inbox' = inbox \o sent \o <<>> \o RestoreSeek(p)
        BY <1>5 DEF Turn
    <2>2. inbox' = in \o RestoreSeek(p)
        BY <1>1, <2>1
    <2>3. CASE RestoreSeek(p) = <<>>
        <3>1. inbox' = in
            <4> HIDE DEF in
            <4>1. QED
                BY <1>1, <2>2, <2>3
        <3>2. Kept(q, worker, in, mail, c)
            BY <1>5, StayKeeps
        <3>3. QED
            BY <1>2, <1>3, <2>1, <3>1, <3>2 DEF IInv
    <2>4. CASE RestoreSeek(p) # <<>>
        <3> DEFINE s == [type |-> "seek", step |-> Lesser(p.restore, p.seen.view.total)]
        <3>1. p.seen.view.status = "ready" /\ p.restore # NoStep /\ RestoreSeek(p) = <<s>>
            BY <2>4 DEF RestoreSeek
        <3>2. /\ p.view.status \in {"ready", "error"} /\ p.seen.view.total = TotalSteps
              /\ Complete(p, worker)
            BY <3>1 DEF Made
        <3>3. TotalSteps \in Nat /\ p.restore \in Nat
            BY <1>1, <3>1, StepsAssumption DEF Pages
        <3>4. s \in Orders /\ s.type = "seek" /\ s.step = Lesser(p.restore, TotalSteps)
            BY <3>2, <3>3 DEF Orders, Lesser
        <3>5. c = 0 => s.step = Goal
            <4>1. c = 0 => p.restore \in {NoStep, LinkedStep}
                BY DEF Kept, Following
            <4>2. QED
                BY <3>1, <3>4, <4>1 DEF Goal
        <3> HIDE DEF s, in, c
        <3>6. Tells(p, p, worker, in, s, c)
            BY <1>1, <3>2, <3>4, <3>5 DEF Tells
        <3>7. Kept(p, worker, in, mail, c)
            BY DEF in, c
        <3>8. Kept(p, worker, Append(in, s), mail, c)
            BY <3>6, <3>7, TellingKeeps
        <3>9. Kept(q, worker, Append(in, s), mail, c)
            BY <1>5, <3>8, StayKeeps DEF c
        <3>10. inbox' = Append(in, s)
            BY <1>1, <2>2, <3>1
        <3>11. QED
            BY <1>2, <1>3, <2>1, <3>9, <3>10 DEF IInv, c
    <2>5. QED
        BY <2>3, <2>4
<1>6. QED
    BY <1>4, <1>5
-----------------------------------------------------------------------------
(* The handlers of the page, one by one. *)

(* What every handler leaves alone. *)
Handles(p) ==
    /\ p.seen = page.seen /\ p.due = page.due /\ p.asked = page.asked /\ p.restore = page.restore
    /\ page.view.status = "ready" => p.view.status \in {"ready", "error"}
    /\ p.config # page.config => p.view = page.view
    /\ clicks' = 0 =>
        /\ clicks = 0
        /\ p.config = page.config
        /\ page.view.step = Goal => p.view.step = Goal

(* What a handler made of the page is fit to be rendered. *)
LEMMA MadeIs ==
    ASSUME IInv, NEW p, Handles(p)
    PROVE  Made(p, worker, clicks')
<1>1. page.seen = [view |-> page.view, config |-> page.config]
    BY DEF IInv, Painted
<1>2. p.seen.view = page.view /\ p.seen.config = page.config
    BY <1>1 DEF Handles
<1>3. page.view.status = "ready" => page.view.total = TotalSteps /\ Complete(page, worker)
    <2>1. page.view.status = "ready" => worker.epoch = page.epoch
        BY DEF IInv, Kept, Numbered
    <2>2. QED
        BY <2>1 DEF IInv, Kept, Aligned, Equipped
<1>4. Complete(page, worker) => Complete(p, worker)
    BY DEF Handles, Complete
<1>5. {"worker", "restore"} \subseteq page.due => page.view.status # "ready"
    BY DEF IInv, Painted
<1>6. clicks = 0 =>
        /\ page.view.step \in {0, Goal}
        /\ page.restore = NoStep => page.view.step = Goal
        /\ "worker" \in page.due => page.view.step = 0 /\ page.view.status # "ready"
    <2>1. page.view.status = "idle" => page.view.step = 0 /\ page.view.status # "ready"
        BY DEF IInv, Kept, Idle, InitialView
    <2>2. QED
        BY <2>1 DEF IInv, Kept, Following
<1>7. QED
    BY <1>2, <1>3, <1>4, <1>5, <1>6 DEF Handles, Made

(* A handler that keeps what it must is a step that keeps the invariant. *)
LEMMA HandledKeeps ==
    ASSUME IInv,
           NEW p, NEW sent \in Seq(Orders), NEW mail,
           Handles(p), Kept(p, worker, inbox \o sent, mail, clicks'),
           Handled(p, sent, mail)
    PROVE  IInv'
<1>1. inbox \in Seq(Orders) /\ p \in Pages
    BY DEF IInv, Kept, Typed
<1>2. Made(p, worker, clicks')
    BY MadeIs
<1>3. CASE p.view # page.view \/ p.config # page.config
    <2>1. Turn(p, sent, mail, TRUE)
        BY <1>3 DEF Handled, Turn
    <2>2. QED
        BY <1>1, <1>2, <2>1, TurnKeeps
<1>4. CASE p.view = page.view /\ p.config = page.config
    <2>1. /\ page' = p /\ worker' = worker /\ outbox' = mail
          /\ inbox' = inbox \o sent \o <<>> \o <<>>
        BY <1>4 DEF Handled, Turn
    <2>2. inbox' = inbox \o sent
        BY <1>1, <2>1
    <2>3. Painted(p)
        BY <1>4 DEF IInv, Painted, Handles
    <2>4. QED
        BY <2>1, <2>2, <2>3 DEF IInv
<1>5. QED
    BY <1>3, <1>4

(* A render nobody asked for. *)
LEMMA EffectsKeep ==
    ASSUME IInv, RunEffects
    PROVE  IInv'
<1>1. /\ inbox \in Seq(Orders) /\ inbox \o <<>> = inbox /\ <<>> \in Seq(Orders)
      /\ clicks' = clicks
    BY DEF IInv, Kept, Typed, RunEffects
<1>2. Handles(page)
    BY <1>1 DEF Handles
<1>3. Made(page, worker, clicks')
    BY <1>2, MadeIs
<1>4. Kept(page, worker, inbox \o <<>>, outbox, clicks')
    BY <1>1 DEF IInv
<1>5. Turn(page, <<>>, outbox, TRUE)
    BY DEF RunEffects
<1>6. QED
    BY <1>1, <1>3, <1>4, <1>5, TurnKeeps

(* More clicks than none leave nothing to follow. *)
LEMMA ClicksKeep ==
    ASSUME NEW p, NEW w, NEW in, NEW out, NEW c, Kept(p, w, in, out, c), NEW c2, c2 # 0
    PROVE  Kept(p, w, in, out, c2)
BY DEF Kept, Following

(* After a click there is nothing more to say of a link that is being      *)
(* followed.                                                               *)
LEMMA Clicked ==
    ASSUME K, Click, clicks \in Nat
    PROVE  clicks' # 0 /\ Kept(page, worker, inbox, outbox, clicks')
<1>1. clicks' = clicks + 1
    BY DEF Click
<1>2. clicks' # 0
    BY <1>1
<1>3. QED
    BY <1>2, ClicksKeep DEF K

(* Another configuration is chosen: only the effects will act on it. *)
LEMMA ReconfiguringKeeps ==
    ASSUME IInv, clicks \in Nat, Reconfigure
    PROVE  IInv'
<1>1. PICK config \in Configs : Handled([page EXCEPT !.config = config], <<>>, outbox)
    BY DEF Reconfigure
<1> DEFINE p == [page EXCEPT !.config = config]
<1>2. clicks' # 0 /\ Kept(page, worker, inbox, outbox, clicks')
    BY Clicked DEF Reconfigure, IInv, K
<1>3. /\ inbox \in Seq(Orders) /\ inbox \o <<>> = inbox /\ <<>> \in Seq(Orders)
      /\ page \in Pages
    BY DEF IInv, Kept, Typed
<1>4. /\ p \in Pages
      /\ p.view = page.view /\ p.seen = page.seen /\ p.due = page.due
      /\ p.epoch = page.epoch /\ p.asked = page.asked /\ p.restore = page.restore
    BY <1>3 DEF Pages
<1> HIDE DEF p
<1>5. Handles(p)
    BY <1>2, <1>4 DEF Handles
<1>6. Kept(p, worker, inbox, outbox, clicks')
    <2>1. Typed(p, worker, inbox, outbox) /\ Numbered(p, worker, inbox, outbox)
        BY <1>2, <1>4 DEF Kept, Typed, Numbered
    <2>2. Idle(p, worker, inbox, outbox) /\ Asked(p, inbox) /\ Loading(p, worker, inbox, outbox)
        BY <1>2, <1>4 DEF Kept, Idle, Asked, Loading
    <2>3. Fetching(p, worker, outbox) /\ Announced(p, worker, outbox)
        BY <1>2, <1>4 DEF Kept, Fetching, Announced
    <2>4. Equipped(p, worker, inbox, outbox) /\ Aligned(p, outbox)
        BY <1>2, <1>4 DEF Kept, Equipped, Complete, Aligned
    <2>5. Standing(p, worker, inbox) /\ Agreeing(p, worker, inbox, outbox)
        BY <1>2, <1>4 DEF Kept, Standing, Agreeing
    <2>6. Following(p, worker, inbox, outbox, clicks')
        BY <1>2 DEF Following
    <2>7. QED
        BY <1>2, <2>1, <2>2, <2>3, <2>4, <2>5, <2>6 DEF Kept
<1>7. Handled(p, <<>>, outbox)
    BY <1>1 DEF p
<1>8. QED
    BY <1>3, <1>5, <1>6, <1>7, HandledKeeps

(* What is known when a button of a runner that is ready is pressed, and   *)
(* changes its view to v.                                                  *)
LEMMA Pressed ==
    ASSUME IInv, Click, clicks \in Nat, page.view.status = "ready",
           NEW v \in Views, v.status = "ready", v.epoch = page.view.epoch,
           v.total = page.view.total, v.policies = page.view.policies,
           v.frames = page.view.frames,
           NEW p, p = [page EXCEPT !.view = v]
    PROVE  /\ Handles(p)
           /\ p \in Pages /\ page \in Pages
           /\ p.view = v /\ p.epoch = page.epoch /\ p.asked = page.asked
           /\ inbox \in Seq(Orders)
           /\ Complete(page, worker)
           /\ Kept(page, worker, inbox, outbox, clicks')
           /\ clicks' # 0
<1>1. page \in Pages /\ inbox \in Seq(Orders)
    BY DEF IInv, Kept, Typed
<1>2. clicks' # 0 /\ Kept(page, worker, inbox, outbox, clicks')
    BY Clicked DEF IInv, K
<1>3. /\ p \in Pages
      /\ p.view = v /\ p.seen = page.seen /\ p.due = page.due /\ p.config = page.config
      /\ p.epoch = page.epoch /\ p.asked = page.asked /\ p.restore = page.restore
    BY <1>1 DEF Pages
<1>4. Complete(page, worker)
    <2>1. worker.epoch = page.epoch
        BY DEF IInv, Kept, Numbered
    <2>2. QED
        BY <2>1 DEF IInv, Kept, Equipped
<1>5. Handles(p)
    BY <1>2, <1>3 DEF Handles
<1>6. QED
    BY <1>1, <1>2, <1>3, <1>4, <1>5

(* The reader presses "Pause". *)
LEMMA PausingKeeps ==
    ASSUME IInv, clicks \in Nat, PressPause
    PROVE  IInv'
<1> DEFINE v == Pause(page.view)
           p == [page EXCEPT !.view = v]
           m == [type |-> "pause"]
<1>1. Click /\ page.view.status = "ready" /\ Handled(p, <<m>>, outbox)
    BY DEF PressPause
<1>2. page.view \in Views
    BY DEF IInv, Kept, Typed, Pages
<1>3. /\ v \in Views /\ v.status = page.view.status /\ v.epoch = page.view.epoch
      /\ v.total = page.view.total /\ v.policies = page.view.policies
      /\ v.frames = page.view.frames /\ v.step = page.view.step
    BY <1>2 DEF Pause, Views
<1>4. m \in Orders /\ m.type = "pause"
    BY DEF Orders
<1> HIDE DEF v, m
<1>5. /\ Handles(p)
      /\ p \in Pages
      /\ p.view = v /\ p.epoch = page.epoch /\ p.asked = page.asked
      /\ inbox \in Seq(Orders)
      /\ Complete(page, worker)
      /\ Kept(page, worker, inbox, outbox, clicks')
      /\ clicks' # 0
    BY <1>1, <1>3, Pressed
<1> HIDE DEF p
<1>6. Tells(page, p, worker, inbox, m, clicks')
    BY <1>1, <1>3, <1>4, <1>5 DEF Tells
<1>7. Kept(p, worker, Append(inbox, m), outbox, clicks')
    BY <1>5, <1>6, TellingKeeps
<1>8. inbox \o <<m>> = Append(inbox, m) /\ <<m>> \in Seq(Orders)
    BY <1>4, <1>5
<1>9. QED
    BY <1>1, <1>5, <1>7, <1>8, HandledKeeps

(* The reader moves the slider. *)
LEMMA SeekingKeeps ==
    ASSUME IInv, clicks \in Nat, Seek
    PROVE  IInv'
<1> DEFINE v == Pause(page.view)
           p == [page EXCEPT !.view = v]
<1>1. page.view \in Views
    BY DEF IInv, Kept, Typed, Pages
<1>2. PICK step \in 0..page.view.total :
            Handled(p, << [type |-> "seek", step |-> step] >>, outbox)
    BY DEF Seek
<1> DEFINE m == [type |-> "seek", step |-> step]
<1>3. Click /\ page.view.status = "ready" /\ Handled(p, <<m>>, outbox)
    BY <1>2 DEF Seek
<1>4. /\ v \in Views /\ v.status = page.view.status /\ v.epoch = page.view.epoch
      /\ v.total = page.view.total /\ v.policies = page.view.policies
      /\ v.frames = page.view.frames /\ v.step = page.view.step
    BY <1>1 DEF Pause, Views
<1>5. m \in Orders /\ m.type = "seek"
    BY <1>2 DEF Orders
<1> HIDE DEF v, m
<1>6. /\ Handles(p)
      /\ p \in Pages
      /\ p.view = v /\ p.epoch = page.epoch /\ p.asked = page.asked
      /\ inbox \in Seq(Orders)
      /\ Complete(page, worker)
      /\ Kept(page, worker, inbox, outbox, clicks')
      /\ clicks' # 0
    BY <1>3, <1>4, Pressed
<1> HIDE DEF p
<1>7. Tells(page, p, worker, inbox, m, clicks')
    BY <1>3, <1>4, <1>5, <1>6 DEF Tells
<1>8. Kept(p, worker, Append(inbox, m), outbox, clicks')
    BY <1>6, <1>7, TellingKeeps
<1>9. inbox \o <<m>> = Append(inbox, m) /\ <<m>> \in Seq(Orders)
    BY <1>5, <1>6
<1>10. QED
    BY <1>3, <1>6, <1>8, <1>9, HandledKeeps

(* The reader presses "Play", from the start again if the run has ended. *)
LEMMA PlayingKeeps ==
    ASSUME IInv, clicks \in Nat, PressPlay
    PROVE  IInv'
<1> DEFINE v == Play(page.view)
           p == [page EXCEPT !.view = v]
           s == [type |-> "seek", step |-> v.step]
           rewind == IF v.step # page.view.step THEN <<s>> ELSE <<>>
<1>1. page.view \in Views
    BY DEF IInv, Kept, Typed, Pages
<1>2. PICK speed \in Speeds :
            Handled(p, Append(rewind, [type |-> "play", perTick |-> speed]), outbox)
    BY DEF PressPlay
<1> DEFINE m == [type |-> "play", perTick |-> speed]
<1>3. /\ Click /\ page.view.status = "ready" /\ ~page.view.playing
      /\ Handled(p, Append(rewind, m), outbox)
    BY <1>2 DEF PressPlay
<1>4. /\ v \in Views /\ v.status = page.view.status /\ v.epoch = page.view.epoch
      /\ v.total = page.view.total /\ v.policies = page.view.policies
      /\ v.frames = page.view.frames /\ v.playing
      /\ v.step \in Nat
    <2> DEFINE n == IF page.view.step >= page.view.total THEN 0 ELSE page.view.step
    <2>1. n \in 0..TotalSteps /\ n \in Nat
        BY <1>1, StepsAssumption DEF Views
    <2>2. v = [page.view EXCEPT !.playing = TRUE, !.step = n]
        BY DEF Play
    <2> HIDE DEF n, v
    <2>3. /\ v \in Views /\ v.status = page.view.status /\ v.epoch = page.view.epoch
          /\ v.total = page.view.total /\ v.policies = page.view.policies
          /\ v.frames = page.view.frames
          /\ v.playing = TRUE /\ v.step = n
        BY <1>1, <2>1, <2>2 DEF Views
    <2>4. QED
        BY <2>1, <2>3
<1>5. m \in Orders /\ m.type = "play" /\ s \in Orders /\ s.type = "seek"
    <2>1. speed \in Nat
        BY RunnerAssumption
    <2> HIDE DEF v
    <2>2. QED
        BY <1>4, <2>1 DEF Orders
<1> HIDE DEF v, m, s
<1>6. /\ Handles(p)
      /\ p \in Pages /\ page \in Pages
      /\ p.view = v /\ p.epoch = page.epoch /\ p.asked = page.asked
      /\ inbox \in Seq(Orders)
      /\ Complete(page, worker)
      /\ Kept(page, worker, inbox, outbox, clicks')
      /\ clicks' # 0
    BY <1>3, <1>4, Pressed
<1> HIDE DEF p
<1>7. IF inbox = <<>> THEN ~worker.held ELSE inbox[Len(inbox)].type # "play"
    BY <1>3 DEF IInv, Kept, Standing, Ticking
<1>8. CASE v.step = page.view.step
    <2>1. Tells(page, p, worker, inbox, m, clicks')
        BY <1>3, <1>4, <1>5, <1>6, <1>7, <1>8 DEF Tells
    <2>2. Kept(p, worker, Append(inbox, m), outbox, clicks')
        BY <1>6, <2>1, TellingKeeps
    <2>3. Append(rewind, m) = <<m>>
        BY <1>8
    <2>4. inbox \o <<m>> = Append(inbox, m) /\ <<m>> \in Seq(Orders)
        BY <1>5, <1>6
    <2>5. QED
        BY <1>3, <1>6, <2>2, <2>3, <2>4, HandledKeeps
<1>9. CASE v.step # page.view.step
    <2> DEFINE in == Append(inbox, s)
    <2>1. Tells(page, page, worker, inbox, s, clicks')
        BY <1>3, <1>5, <1>6 DEF Tells
    <2>2. Kept(page, worker, in, outbox, clicks')
        BY <1>6, <2>1, TellingKeeps
    <2>3. in # <<>> /\ in \in Seq(Orders) /\ Len(in) \in 1..Len(in) /\ in[Len(in)] = s
        BY <1>5, <1>6
    <2> HIDE DEF in
    <2>4. Tells(page, p, worker, in, m, clicks')
        BY <1>3, <1>4, <1>5, <1>6, <2>3 DEF Tells
    <2>5. Kept(p, worker, Append(in, m), outbox, clicks')
        BY <2>2, <2>4, TellingKeeps
    <2>6. rewind = <<s>>
        BY <1>9
    <2> HIDE DEF rewind
    <2>7. inbox \o Append(rewind, m) = Append(in, m) /\ Append(rewind, m) \in Seq(Orders)
        <3>1. inbox \o Append(<<s>>, m) = Append(in, m) /\ Append(<<s>>, m) \in Seq(Orders)
            BY <1>5, <1>6 DEF in
        <3>2. QED
            BY <2>6, <3>1, Zenon
    <2>8. QED
        BY <1>3, <1>6, <2>5, <2>7, HandledKeeps
<1>10. QED
    BY <1>8, <1>9

(* A report of an epoch the page has moved past changes nothing but the    *)
(* queue.                                                                  *)
LEMMA StaleKeeps ==
    ASSUME NEW p, NEW w, NEW in, NEW out, NEW c, Kept(p, w, in, out, c),
           out # <<>>, out[1].epoch # p.epoch
    PROVE  Kept(p, w, in, Tail(out), c)
<1> DEFINE out2 == Tail(out)
<1>1. out \in Seq(Reports) /\ p \in Pages
    BY DEF Kept, Typed
<1>2. /\ out2 \in Seq(Reports)
      /\ Len(out) \in Nat /\ Len(out) >= 1
      /\ DOMAIN out = 1..Len(out)
      /\ DOMAIN out2 = 1..Len(out2)
      /\ Len(out2) = Len(out) - 1 /\ Len(out2) \in Nat
      /\ \A k \in 1..Len(out2) : out2[k] = out[k + 1] /\ k + 1 \in 1..Len(out)
    BY <1>1
<1> HIDE DEF out2
<1>3. \A k \in 1..Len(out) : out[k].epoch = p.epoch =>
            k - 1 \in 1..Len(out2) /\ (k - 1) + 1 = k /\ out2[k - 1] = out[k]
    <2> SUFFICES ASSUME NEW k \in 1..Len(out), out[k].epoch = p.epoch
                 PROVE  k - 1 \in 1..Len(out2) /\ (k - 1) + 1 = k /\ out2[k - 1] = out[k]
        OBVIOUS
    <2>1. k # 1
        OBVIOUS
    <2>2. k - 1 \in 1..Len(out2) /\ (k - 1) + 1 = k
        BY <1>2, <2>1
    <2>3. out2[k - 1] = out[(k - 1) + 1]
        BY <1>2, <2>2
    <2>4. QED
        BY <2>2, <2>3
<1>4. Typed(p, w, in, out2)
    BY <1>2 DEF Kept, Typed
<1>5. Numbered(p, w, in, out2) /\ Idle(p, w, in, out2)
    <2>1. Numbered(p, w, in, out2)
        BY <1>2 DEF Kept, Numbered
    <2>2. Idle(p, w, in, out2)
        BY DEF Kept, Idle
    <2>3. QED
        BY <2>1, <2>2
<1>6. Loading(p, w, in, out2)
    <2> SUFFICES ASSUME p.view.status = "loading", NEW k \in 1..Len(out2),
                        out2[k].type = "frame", out2[k].epoch = p.epoch
                 PROVE  k > 1 /\ out2[k - 1].type = "ready" /\ out2[k - 1].epoch = p.epoch
        BY <1>2 DEF Kept, Loading
    <2>1. out2[k] = out[k + 1] /\ k + 1 \in 1..Len(out) /\ (k + 1) - 1 = k
        BY <1>2
    <2>2. out[(k + 1) - 1].type = "ready" /\ out[(k + 1) - 1].epoch = p.epoch
        BY <1>2, <2>1 DEF Kept, Loading
    <2>3. k \in 1..Len(out)
        BY <1>2, <2>1
    <2>4. k - 1 \in 1..Len(out2) /\ out2[k - 1] = out[k]
        BY <1>3, <2>1, <2>2, <2>3
    <2>5. QED
        BY <2>1, <2>2, <2>4
<1>7. Fetching(p, w, out2)
    <2>1. (\A k \in 1..Len(out) : out[k].epoch # p.epoch)
            => \A k \in 1..Len(out2) : out2[k].epoch # p.epoch
        BY <1>2
    <2>2. QED
        BY <1>2, <2>1 DEF Kept, Fetching
<1>8. Announced(p, w, out2)
    <2> SUFFICES ASSUME NEW k \in 1..Len(out2), out2[k].type = "ready", out2[k].epoch = p.epoch
                 PROVE  /\ p.view.status = "loading"
                        /\ out2[k].policies = p.asked
                        /\ k < Len(out2)
                        /\ out2[k + 1].type = "frame"
                        /\ out2[k + 1].epoch = p.epoch
                        /\ out2[k + 1].step = StepOf(w)
                        /\ \A j \in 1..Len(out2) : out2[j].epoch = p.epoch => j \in {k, k + 1}
        BY <1>2 DEF Announced
    <2> DEFINE K1 == k + 1
    <2>1. out2[k] = out[K1] /\ K1 \in 1..Len(out)
        BY <1>2
    <2> HIDE DEF K1
    <2>2. /\ p.view.status = "loading"
          /\ out[K1].policies = p.asked
          /\ K1 < Len(out)
          /\ out[K1 + 1].type = "frame"
          /\ out[K1 + 1].epoch = p.epoch
          /\ out[K1 + 1].step = StepOf(w)
          /\ \A j \in 1..Len(out) : out[j].epoch = p.epoch => j \in {K1, K1 + 1}
        BY <1>2, <2>1 DEF Kept, Announced
    <2>3. k < Len(out2) /\ k + 1 \in 1..Len(out2) /\ out2[k + 1] = out[K1 + 1]
        BY <1>2, <2>2 DEF K1
    <2>4. \A j \in 1..Len(out2) : out2[j].epoch = p.epoch => j \in {k, k + 1}
        BY <1>2, <2>2 DEF K1
    <2>5. out2[k].policies = p.asked
        BY <2>1, <2>2
    <2>6. QED
        BY <2>2, <2>3, <2>4, <2>5, Zenon
<1>9. Equipped(p, w, in, out2)
    BY <1>2 DEF Kept, Equipped
<1>10. Aligned(p, out2)
    <2>1. \A k \in 1..Len(out2) : out2[k].type = "frame" /\ out2[k].epoch = p.epoch =>
            out2[k].frames = [q \in Range(p.asked) |-> out2[k].step]
        <3> SUFFICES ASSUME NEW k \in 1..Len(out2), out2[k].type = "frame", out2[k].epoch = p.epoch
                     PROVE  out2[k].frames = [q \in Range(p.asked) |-> out2[k].step]
            OBVIOUS
        <3> DEFINE K1 == k + 1
        <3>1. out2[k] = out[K1] /\ K1 \in 1..Len(out)
            BY <1>2
        <3> HIDE DEF K1
        <3>2. out[K1].frames = [q \in Range(p.asked) |-> out[K1].step]
            BY <1>2, <3>1, ZenonT(30) DEF Kept, Aligned
        <3>3. QED
            BY <3>1, <3>2, Zenon
    <2>2. QED
        BY <1>2, <2>1 DEF Kept, Aligned
<1>11. Agreeing(p, w, in, out2)
    <2> SUFFICES ASSUME p.view.status = "ready",
                        \A k \in DOMAIN in : in[k].type # "seek",
                        \A k \in 1..Len(out2) : out2[k].epoch = p.epoch => out2[k].type # "error"
                 PROVE  \/ \E k \in 1..Len(out2) :
                            /\ out2[k].epoch = p.epoch
                            /\ out2[k].type = "frame"
                            /\ out2[k].step = StepOf(w)
                            /\ \A j \in 1..Len(out2) : j > k => out2[j].epoch # p.epoch
                        \/ /\ \A k \in 1..Len(out2) : out2[k].epoch # p.epoch
                           /\ p.view.step = StepOf(w)
        BY <1>2 DEF Agreeing
    <2>1. \A k \in 1..Len(out) : out[k].epoch = p.epoch => out[k].type # "error"
        BY <1>3
    <2>2. \/ \E k \in 1..Len(out) :
                /\ out[k].epoch = p.epoch
                /\ out[k].type = "frame"
                /\ out[k].step = StepOf(w)
                /\ \A j \in 1..Len(out) : j > k => out[j].epoch # p.epoch
          \/ /\ \A k \in 1..Len(out) : out[k].epoch # p.epoch
             /\ p.view.step = StepOf(w)
        BY <1>2, <2>1 DEF Kept, Agreeing
    <2>3. CASE \A k \in 1..Len(out) : out[k].epoch # p.epoch
        BY <1>2, <2>2, <2>3
    <2>4. CASE \E k \in 1..Len(out) :
                /\ out[k].epoch = p.epoch
                /\ out[k].type = "frame"
                /\ out[k].step = StepOf(w)
                /\ \A j \in 1..Len(out) : j > k => out[j].epoch # p.epoch
        <3>1. PICK k \in 1..Len(out) :
                /\ out[k].epoch = p.epoch
                /\ out[k].type = "frame"
                /\ out[k].step = StepOf(w)
                /\ \A j \in 1..Len(out) : j > k => out[j].epoch # p.epoch
            BY <2>4
        <3>2. k - 1 \in 1..Len(out2) /\ out2[k - 1] = out[k]
            BY <1>3, <3>1
        <3>3. \A j \in 1..Len(out2) : j > k - 1 => out2[j].epoch # p.epoch
            BY <1>2, <3>1
        <3>4. QED
            BY <3>1, <3>2, <3>3
    <2>5. QED
        BY <2>2, <2>3, <2>4
<1>12. Following(p, w, in, out2, c)
    <2> SUFFICES ASSUME c = 0
                 PROVE  Following(p, w, in, out2, 0)
        BY DEF Following
    <2>1. Following(p, w, in, out, 0)
        BY DEF Kept
    <2>2. ASSUME NEW k \in 1..Len(out2), out2[k].type = "frame", out2[k].epoch = p.epoch
          PROVE  /\ out2[k].step \in {0, Goal}
                 /\ p.view.step = Goal => out2[k].step = Goal
                 /\ \A j \in 1..Len(out2) :
                        /\ j < k /\ out2[j].type = "frame" /\ out2[j].epoch = p.epoch
                        /\ out2[j].step = Goal
                        => out2[k].step = Goal
        <3>1. out2[k] = out[k + 1] /\ k + 1 \in 1..Len(out)
            BY <1>2
        <3>2. /\ out[k + 1].step \in {0, Goal}
              /\ p.view.step = Goal => out[k + 1].step = Goal
              /\ \A j \in 1..Len(out) :
                    /\ j < k + 1 /\ out[j].type = "frame" /\ out[j].epoch = p.epoch
                    /\ out[j].step = Goal
                    => out[k + 1].step = Goal
            BY <1>2, <2>1, <2>2, <3>1 DEF Following
        <3>3. \A j \in 1..Len(out2) : j < k => out2[j] = out[j + 1] /\ j + 1 \in 1..Len(out) /\ j + 1 < k + 1
            BY <1>2
        <3>4. QED
            BY <3>1, <3>2, <3>3
    <2>3. QED
        BY <1>2, <2>1, <2>2 DEF Following
<1>13. Kept(p, w, in, out2, c)
    BY <1>4, <1>5, <1>6, <1>7, <1>8, <1>9, <1>10, <1>11, <1>12 DEF Kept
<1>14. QED
    BY <1>13 DEF out2

(* What a page makes of a report m of its own epoch, the first of out: it  *)
(* was waiting and becomes ready, it is ready and moves, or it fails or    *)
(* has failed.                                                             *)
Hears(p, v, out) ==
    LET m == out[1]
    IN  \/ /\ m.type = "ready" /\ p.view.status = "loading"
           /\ v.status = "ready" /\ v.total = TotalSteps /\ v.policies = p.asked
           /\ v.step = p.view.step /\ v.frames = p.view.frames /\ v.playing = p.view.playing
        \/ /\ m.type = "frame" /\ p.view.status = "ready"
           /\ v.status = "ready" /\ v.total = p.view.total /\ v.policies = p.view.policies
           /\ v.step = m.step /\ v.frames = m.frames /\ v.playing = p.view.playing
        \/ /\ m.type \in {"frame", "error"}
           /\ v.status = "error"
           /\ v.step = p.view.step /\ v.frames = p.view.frames
           /\ v.playing => p.view.playing

(* The reducer makes of a report what the invariant says of it. *)
LEMMA HeardIs ==
    ASSUME NEW p, NEW w, NEW in, NEW out, NEW c, Kept(p, w, in, out, c),
           out # <<>>, out[1].epoch = p.epoch
    PROVE  /\ Reduce(p.view, out[1]) \in Views
           /\ Reduce(p.view, out[1]).epoch = p.epoch
           /\ Hears(p, Reduce(p.view, out[1]), out)
<1> DEFINE m == out[1]
           v == Reduce(p.view, m)
<1>1. /\ p \in Pages /\ out \in Seq(Reports) /\ 1 \in 1..Len(out)
      /\ DOMAIN out = 1..Len(out)
    BY DEF Kept, Typed
<1>2. m \in Reports /\ m.epoch = p.epoch /\ p.view \in Views /\ p.view.epoch = p.epoch
    BY <1>1 DEF Kept, Numbered, Pages
<1>3. p.view.status \in {"loading", "ready", "error"}
    <2>1. p.view.status # "idle"
        BY DEF Kept, Idle
    <2>2. QED
        BY <1>2, <2>1 DEF Views
<1>4. m.type \in {"ready", "frame", "error"}
    BY <1>2 DEF Reports
<1> HIDE DEF m
<1>5. CASE m.type = "ready"
    <2>1. v = [p.view EXCEPT !.status = "ready", !.total = m.total, !.policies = m.policies]
        BY <1>2, <1>5 DEF Reduce
    <2>2. m.total = TotalSteps /\ m.policies \in Seq(Policies)
        BY <1>2, <1>5 DEF Reports
    <2>3. p.view.status = "loading" /\ m.policies = p.asked
        BY <1>1, <1>2, <1>5 DEF Kept, Announced, m
    <2> HIDE DEF v
    <2>4. /\ v \in Views /\ v.epoch = p.view.epoch
          /\ v.status = "ready" /\ v.total = m.total /\ v.policies = m.policies
          /\ v.step = p.view.step /\ v.frames = p.view.frames
        BY <1>2, <2>1, <2>2 DEF Views
    <2>5. v.playing = p.view.playing
        BY <1>2, <2>1, <2>2 DEF Views
    <2>6. Hears(p, v, out)
        BY <1>5, <2>2, <2>3, <2>4, <2>5 DEF Hears, m
    <2>7. QED
        BY <1>2, <2>4, <2>6 DEF m, v
<1>6. CASE m.type = "frame" /\ p.view.status = "error"
    <2>1. v = p.view
        BY <1>2, <1>6 DEF Reduce
    <2> HIDE DEF v
    <2>2. Hears(p, v, out)
        BY <1>6, <2>1 DEF Hears, m
    <2>3. QED
        BY <1>2, <2>1, <2>2 DEF m, v
<1>7. CASE m.type = "frame" /\ p.view.status # "error"
    <2>1. v = [p.view EXCEPT !.step = m.step, !.frames = m.frames]
        BY <1>2, <1>7 DEF Reduce
    <2>2. m.step \in 0..TotalSteps /\ m.frames \in Rows
        BY <1>2, <1>7 DEF Reports
    <2>3. p.view.status = "ready"
        <3>1. p.view.status # "loading"
            BY <1>1, <1>2, <1>7 DEF Kept, Loading, m
        <3>2. QED
            BY <1>3, <1>7, <3>1
    <2> HIDE DEF v
    <2>4. /\ v \in Views /\ v.epoch = p.view.epoch
          /\ v.status = p.view.status /\ v.total = p.view.total /\ v.policies = p.view.policies
          /\ v.step = m.step /\ v.frames = m.frames
        BY <1>2, <2>1, <2>2 DEF Views
    <2>5. v.playing = p.view.playing
        BY <1>2, <2>1, <2>2 DEF Views
    <2>6. Hears(p, v, out)
        BY <1>7, <2>3, <2>4, <2>5 DEF Hears, m
    <2>7. QED
        BY <1>2, <2>4, <2>6 DEF m, v
<1>8. CASE m.type = "error"
    <2>1. v = [p.view EXCEPT !.status = "error", !.playing = FALSE]
        BY <1>2, <1>8 DEF Reduce
    <2> HIDE DEF v
    <2>2. /\ v \in Views /\ v.epoch = p.view.epoch
          /\ v.status = "error" /\ v.step = p.view.step /\ v.frames = p.view.frames
          /\ v.playing = FALSE
        BY <1>2, <2>1 DEF Views
    <2>3. Hears(p, v, out)
        BY <1>8, <2>2 DEF Hears, m
    <2>4. QED
        BY <1>2, <2>2, <2>3 DEF m, v
<1>9. QED
    BY <1>4, <1>5, <1>6, <1>7, <1>8

(* Hearing the first report keeps the invariant with that report gone. *)
LEMMA HeardKeeps ==
    ASSUME NEW p, NEW w, NEW in, NEW out, NEW c, Kept(p, w, in, out, c),
           out # <<>>, out[1].epoch = p.epoch,
           NEW v \in Views, v.epoch = p.epoch, Hears(p, v, out),
           NEW p2, p2 = [p EXCEPT !.view = v]
    PROVE  /\ Kept(p2, w, in, Tail(out), c)
           /\ c = 0 /\ p.view.step = Goal => v.step = Goal
<1> DEFINE out2 == Tail(out)
           m == out[1]
<1>1. out \in Seq(Reports) /\ p \in Pages
    BY DEF Kept, Typed
<1>2. /\ out2 \in Seq(Reports)
      /\ Len(out) \in Nat /\ Len(out) >= 1 /\ 1 \in 1..Len(out)
      /\ DOMAIN out = 1..Len(out)
      /\ DOMAIN out2 = 1..Len(out2)
      /\ Len(out2) = Len(out) - 1 /\ Len(out2) \in Nat
      /\ \A k \in 1..Len(out2) : out2[k] = out[k + 1] /\ k + 1 \in 1..Len(out) /\ 1 < k + 1
    BY <1>1
<1>3. /\ p2 \in Pages
      /\ p2.view = v /\ p2.seen = p.seen /\ p2.due = p.due /\ p2.config = p.config
      /\ p2.epoch = p.epoch /\ p2.asked = p.asked /\ p2.restore = p.restore
      /\ p2.fragment = p.fragment
    BY <1>1 DEF Pages
<1>4. \/ /\ m.type = "ready" /\ p.view.status = "loading"
         /\ v.status = "ready" /\ v.total = TotalSteps /\ v.policies = p.asked
         /\ v.step = p.view.step /\ v.frames = p.view.frames /\ v.playing = p.view.playing
      \/ /\ m.type = "frame" /\ p.view.status = "ready"
         /\ v.status = "ready" /\ v.total = p.view.total /\ v.policies = p.view.policies
         /\ v.step = m.step /\ v.frames = m.frames /\ v.playing = p.view.playing
      \/ /\ m.type \in {"frame", "error"}
         /\ v.status = "error"
         /\ v.step = p.view.step /\ v.frames = p.view.frames
         /\ v.playing => p.view.playing
    BY DEF Hears
<1> HIDE DEF out2, m
<1>5. /\ p.view.status # "idle" /\ p.asked \in Configs
      /\ w.epoch = p.epoch
    BY <1>2 DEF Kept, Idle, Numbered
<1>6. v.status \in {"ready", "error"}
    BY <1>4
<1>7. \A k \in 1..Len(out2) : out2[k].epoch = p.epoch => out2[k].type # "ready"
    <2> SUFFICES ASSUME NEW k \in 1..Len(out2), out2[k].epoch = p.epoch, out2[k].type = "ready"
                 PROVE  FALSE
        OBVIOUS
    <2> DEFINE k1 == k + 1
    <2>1. out2[k] = out[k1] /\ k1 \in 1..Len(out) /\ 1 < k1 /\ ~(1 = k1 + 1)
        BY <1>2
    <2> HIDE DEF k1
    <2>2. \A j \in 1..Len(out) : out[j].epoch = p.epoch => j \in {k1, k1 + 1}
        BY <1>2, <2>1 DEF Kept, Announced
    <2>3. 1 \in {k1, k1 + 1}
        BY <1>2, <2>2
    <2>4. QED
        BY <2>1, <2>3
<1>8. Typed(p2, w, in, out2)
    BY <1>2, <1>3 DEF Kept, Typed
<1>9. Numbered(p2, w, in, out2)
    BY <1>2, <1>3, <1>5 DEF Kept, Numbered
<1>10. Idle(p2, w, in, out2)
    BY <1>3, <1>5, <1>6 DEF Idle
<1>11. Asked(p2, in)
    <2>1. \A k \in DOMAIN in : in[k].type = "init" => in[k].epoch # p.epoch
        <3>1. p.epoch \in Nat
            BY <1>1 DEF Pages
        <3>2. QED
            BY <1>5, <3>1 DEF Kept, Numbered
    <2>2. QED
        BY <1>3, <2>1 DEF Asked
<1>12. Loading(p2, w, in, out2)
    BY <1>3, <1>6 DEF Loading
<1>13. Fetching(p2, w, out2)
    <2>1. \A i \in w.inits : i.epoch # p.epoch
        BY <1>2 DEF Kept, Fetching
    <2>2. QED
        BY <1>3, <2>1 DEF Fetching
<1>14. Announced(p2, w, out2)
    BY <1>2, <1>3, <1>7 DEF Announced
<1>15. Equipped(p2, w, in, out2)
    <2> SUFFICES ASSUME \/ in # <<>>
                        \/ w.playing
                        \/ v.status = "ready"
                        \/ \E k \in 1..Len(out2) : out2[k].epoch = p.epoch /\ out2[k].type # "error"
                 PROVE  Complete(p, w)
        BY <1>2, <1>3 DEF Equipped, Complete
    <2>1. v.status = "ready" => m.type # "error"
        BY <1>4
    <2>2. CASE v.status = "ready"
        <3>1. \E k \in DOMAIN out : out[k].epoch = p.epoch /\ out[k].type # "error"
            BY <1>2, <2>1, <2>2 DEF m
        <3>2. QED
            BY <1>5, <3>1 DEF Kept, Equipped
    <2>3. CASE \E k \in 1..Len(out2) : out2[k].epoch = p.epoch /\ out2[k].type # "error"
        <3>1. \E k \in DOMAIN out : out[k].epoch = p.epoch /\ out[k].type # "error"
            BY <1>2, <2>3
        <3>2. QED
            BY <1>5, <3>1 DEF Kept, Equipped
    <2>4. CASE in # <<>> \/ w.playing
        BY <1>5, <2>4 DEF Kept, Equipped
    <2>5. QED
        BY <2>2, <2>3, <2>4
<1>16. Aligned(p2, out2)
    <2>1. \A k \in 1..Len(out2) : out2[k].type = "frame" /\ out2[k].epoch = p.epoch =>
            out2[k].frames = [q \in Range(p.asked) |-> out2[k].step]
        <3> SUFFICES ASSUME NEW k \in 1..Len(out2), out2[k].type = "frame", out2[k].epoch = p.epoch
                     PROVE  out2[k].frames = [q \in Range(p.asked) |-> out2[k].step]
            OBVIOUS
        <3> DEFINE k1 == k + 1
        <3>1. out2[k] = out[k1] /\ k1 \in 1..Len(out)
            BY <1>2
        <3> HIDE DEF k1
        <3>2. out[k1].frames = [q \in Range(p.asked) |-> out[k1].step]
            BY <1>2, <3>1, ZenonT(30) DEF Kept, Aligned
        <3>3. QED
            BY <3>1, <3>2, Zenon
    <2>2. v.frames # NoFrames => \E s \in 0..TotalSteps : v.frames = [q \in Range(p.asked) |-> s]
        <3>1. CASE v.frames = p.view.frames
            BY <3>1 DEF Kept, Aligned
        <3>2. CASE m.type = "frame" /\ v.frames = m.frames
            <4>1. m.frames = [q \in Range(p.asked) |-> m.step]
                BY <1>2, <3>2 DEF Kept, Aligned, m
            <4>2. m \in Reports
                BY <1>1, <1>2 DEF m
            <4>3. m.step \in 0..TotalSteps
                BY <3>2, <4>2 DEF Reports
            <4>4. QED
                BY <3>2, <4>1, <4>3
        <3>3. QED
            BY <1>4, <3>1, <3>2
    <2>3. v.status = "ready" => v.total = TotalSteps /\ v.policies = p.asked
        BY <1>4 DEF Kept, Aligned
    <2>4. QED
        BY <1>2, <1>3, <2>1, <2>2, <2>3 DEF Aligned
<1>17. Standing(p2, w, in)
    BY <1>3, <1>4, Zenon DEF Kept, Standing
<1>18. Agreeing(p2, w, in, out2)
    <2> SUFFICES ASSUME v.status = "ready",
                        \A k \in DOMAIN in : in[k].type # "seek",
                        \A k \in 1..Len(out2) : out2[k].epoch = p.epoch => out2[k].type # "error"
                 PROVE  \/ \E k \in 1..Len(out2) :
                            /\ out2[k].epoch = p.epoch
                            /\ out2[k].type = "frame"
                            /\ out2[k].step = StepOf(w)
                            /\ \A j \in 1..Len(out2) : j > k => out2[j].epoch # p.epoch
                        \/ /\ \A k \in 1..Len(out2) : out2[k].epoch # p.epoch
                           /\ v.step = StepOf(w)
        BY <1>2, <1>3 DEF Agreeing
    <2>1. CASE m.type = "ready"
        <3>1. /\ 1 < Len(out)
              /\ out[1 + 1].type = "frame"
              /\ out[1 + 1].epoch = p.epoch
              /\ out[1 + 1].step = StepOf(w)
              /\ \A j \in 1..Len(out) : out[j].epoch = p.epoch => j \in {1, 1 + 1}
            BY <1>2, <2>1 DEF Kept, Announced, m
        <3>2. 1 \in 1..Len(out2) /\ out2[1] = out[1 + 1]
            BY <1>2, <3>1
        <3>3. \A j \in 1..Len(out2) : j > 1 => out2[j].epoch # p.epoch
            BY <1>2, <3>1
        <3>4. QED
            BY <3>1, <3>2, <3>3
    <2>2. CASE m.type = "frame" /\ p.view.status = "ready" /\ v.step = m.step
        <3>1. \A k \in 1..Len(out) : out[k].epoch = p.epoch => out[k].type # "error"
            <4> SUFFICES ASSUME NEW k \in 1..Len(out), out[k].epoch = p.epoch, k # 1
                         PROVE  out[k].type # "error"
                BY <2>2 DEF m
            <4>1. k - 1 \in 1..Len(out2) /\ (k - 1) + 1 = k
                BY <1>2
            <4>2. out2[k - 1] = out[(k - 1) + 1]
                BY <1>2, <4>1
            <4>3. QED
                BY <4>1, <4>2
        <3>2. \/ \E k \in 1..Len(out) :
                    /\ out[k].epoch = p.epoch
                    /\ out[k].type = "frame"
                    /\ out[k].step = StepOf(w)
                    /\ \A j \in 1..Len(out) : j > k => out[j].epoch # p.epoch
              \/ /\ \A k \in 1..Len(out) : out[k].epoch # p.epoch
                 /\ p.view.step = StepOf(w)
            BY <1>2, <2>2, <3>1 DEF Kept, Agreeing
        <3>3. PICK k \in 1..Len(out) :
                /\ out[k].epoch = p.epoch
                /\ out[k].type = "frame"
                /\ out[k].step = StepOf(w)
                /\ \A j \in 1..Len(out) : j > k => out[j].epoch # p.epoch
            BY <1>2, <3>2
        <3>4. CASE k = 1
            BY <1>2, <2>2, <3>3, <3>4 DEF m
        <3>5. CASE k # 1
            <4>1. k - 1 \in 1..Len(out2) /\ (k - 1) + 1 = k
                BY <1>2, <3>5
            <4>2. out2[k - 1] = out[k]
                BY <1>2, <4>1
            <4>3. \A j \in 1..Len(out2) : j > k - 1 => out2[j].epoch # p.epoch
                BY <1>2, <3>3
            <4>4. QED
                BY <3>3, <4>1, <4>2, <4>3
        <3>6. QED
            BY <3>4, <3>5
    <2>3. QED
        BY <1>4, <2>1, <2>2
<1>19. c = 0 =>
        /\ v.step \in {0, Goal}
        /\ p.view.step = Goal => v.step = Goal
    <2> SUFFICES ASSUME c = 0
                 PROVE  /\ v.step \in {0, Goal}
                        /\ p.view.step = Goal => v.step = Goal
        OBVIOUS
    <2>1. Following(p, w, in, out, 0)
        BY DEF Kept
    <2>2. CASE v.step = p.view.step
        BY <2>1, <2>2 DEF Following
    <2>3. CASE m.type = "frame" /\ v.step = m.step
        BY <1>2, <2>1, <2>3 DEF Following, m
    <2>4. QED
        BY <1>4, <2>2, <2>3
<1>20. Following(p2, w, in, out2, c)
    <2> SUFFICES ASSUME c = 0
                 PROVE  Following(p2, w, in, out2, 0)
        BY DEF Following
    <2>1. Following(p, w, in, out, 0)
        BY DEF Kept
    <2>2. ASSUME NEW k \in 1..Len(out2), out2[k].type = "frame", out2[k].epoch = p.epoch
          PROVE  /\ out2[k].step \in {0, Goal}
                 /\ v.step = Goal => out2[k].step = Goal
                 /\ \A j \in 1..Len(out2) :
                        /\ j < k /\ out2[j].type = "frame" /\ out2[j].epoch = p.epoch
                        /\ out2[j].step = Goal
                        => out2[k].step = Goal
        <3> DEFINE k1 == k + 1
        <3>1. out2[k] = out[k1] /\ k1 \in 1..Len(out) /\ 1 < k1
            BY <1>2
        <3>2. \A j \in 1..Len(out2) : j < k => out2[j] = out[j + 1] /\ j + 1 \in 1..Len(out) /\ j + 1 < k1
            BY <1>2
        <3> HIDE DEF k1
        <3>3. /\ out[k1].step \in {0, Goal}
              /\ p.view.step = Goal => out[k1].step = Goal
              /\ \A j \in 1..Len(out) :
                    /\ j < k1 /\ out[j].type = "frame" /\ out[j].epoch = p.epoch
                    /\ out[j].step = Goal
                    => out[k1].step = Goal
            BY <1>2, <2>1, <2>2, <3>1 DEF Following
        <3>4. v.step = Goal => out[k1].step = Goal
            BY <1>2, <1>4, <3>1, <3>3 DEF m
        <3>5. QED
            BY <3>1, <3>2, <3>3, <3>4
    <2>3. ~v.playing
        <3>1. ~p.view.playing
            BY <2>1 DEF Following
        <3>2. QED
            BY <1>4, <3>1, Zenon
    <2>4. p.due = p2.due /\ ("worker" \in p.due => p.view.status = "idle")
        BY <1>3, <2>1 DEF Following
    <2>5. QED
        BY <1>2, <1>3, <1>5, <1>19, <2>1, <2>2, <2>3, <2>4 DEF Following
<1>21. Ticking(w, in)
    BY DEF Kept
<1>22. Kept(p2, w, in, out2, c)
    BY <1>8, <1>9, <1>10, <1>11, <1>12, <1>13, <1>14, <1>15, <1>16, <1>17, <1>18, <1>20, <1>21 DEF Kept
<1>23. QED
    BY <1>19, <1>22 DEF out2

(* A report arrives: of this epoch, which is reduced, or of an older one. *)
LEMMA DeliveringKeeps ==
    ASSUME IInv, Deliver
    PROVE  IInv'
<1> DEFINE m == outbox[1]
           v == Reduce(page.view, m)
           p == [page EXCEPT !.view = v]
<1>1. /\ inbox \in Seq(Orders) /\ inbox \o <<>> = inbox /\ <<>> \in Seq(Orders)
      /\ page \in Pages /\ page.view \in Views /\ page.view.epoch = page.epoch
      /\ outbox \in Seq(Reports)
      /\ Kept(page, worker, inbox, outbox, clicks)
    BY DEF IInv, Kept, Typed, Numbered, Pages
<1>2. /\ outbox # <<>> /\ clicks' = clicks
      /\ Handled(p, <<>>, Tail(outbox))
    BY <1>1 DEF Deliver
<1> HIDE DEF v
<1>3. CASE m.epoch # page.epoch
    <2>1. v = page.view
        BY <1>1, <1>3 DEF Reduce, v
    <2>2. p = page
        BY <1>1, <2>1 DEF Pages
    <2>3. Handles(page)
        BY <1>2 DEF Handles
    <2>4. Kept(page, worker, inbox, Tail(outbox), clicks)
        BY <1>1, <1>2, <1>3, StaleKeeps
    <2> HIDE DEF p
    <2>5. QED
        BY <1>1, <1>2, <2>2, <2>3, <2>4, HandledKeeps
<1>4. CASE m.epoch = page.epoch
    <2>1. v \in Views /\ v.epoch = page.epoch /\ Hears(page, v, outbox)
        BY <1>1, <1>2, <1>4, HeardIs DEF v
    <2>2. /\ p.view = v /\ p.seen = page.seen /\ p.due = page.due /\ p.config = page.config
          /\ p.asked = page.asked /\ p.restore = page.restore
        BY <1>1 DEF Pages
    <2>3. /\ Kept(p, worker, inbox, Tail(outbox), clicks)
          /\ clicks = 0 /\ page.view.step = Goal => v.step = Goal
        <3>1. p = [page EXCEPT !.view = v]
            OBVIOUS
        <3> HIDE DEF p
        <3>2. QED
            BY <1>1, <1>2, <1>4, <2>1, <3>1, HeardKeeps
    <2> HIDE DEF p
    <2>4. page.view.status = "ready" => v.status \in {"ready", "error"}
        BY <2>1 DEF Hears
    <2>5. Handles(p)
        BY <1>2, <2>2, <2>3, <2>4 DEF Handles
    <2>6. QED
        BY <1>1, <1>2, <2>3, <2>5, HandledKeeps
<1>5. QED
    BY <1>3, <1>4
-----------------------------------------------------------------------------
(* The invariant is one. *)

(* A page that was just opened, with a link or without. *)
LEMMA InitKept == Init => IInv
<1> SUFFICES ASSUME Init PROVE IInv
    OBVIOUS
<1> DEFINE linked == IF LinkedStep > 0 THEN LinkedStep ELSE NoStep
           opened(c) == [config |-> c, step |-> LinkedStep]
           shown(c) == [view |-> InitialView, config |-> c]
<1>1. PICK c \in Configs, own \in BOOLEAN :
        page = [view |-> InitialView, config |-> c, seen |-> shown(c),
                due |-> {"worker", "restore", "fragment"}, epoch |-> 0, asked |-> <<>>,
                own |-> own, restore |-> linked, fragment |-> opened(c)]
    BY DEF Init
<1>2. worker = NewWorker /\ inbox = <<>> /\ outbox = <<>> /\ clicks = 0
    BY DEF Init, WorkerInit
<1>3. /\ LinkedStep \in Nat /\ linked \in Nat \cup {NoStep} /\ linked \in {NoStep, LinkedStep}
      /\ linked = NoStep => Goal = 0
    BY RunnerAssumption, StepsAssumption DEF NoStep, Goal, Lesser
<1>4. InitialView \in Views
    BY LoadingViewIs
<1>5. InitialView.status = "idle" /\ InitialView.epoch = 0 /\ InitialView.step = 0
      /\ ~InitialView.playing /\ InitialView.frames = NoFrames
    BY DEF InitialView
<1>6. shown(c) \in [view : Views, config : Configs] /\ opened(c) \in [config : Configs, step : Nat]
    BY <1>3, <1>4
<1> HIDE DEF linked
<1> DEFINE f == opened(c)
           s == shown(c)
<1>7. /\ page = [view |-> InitialView, config |-> c, seen |-> s,
                due |-> {"worker", "restore", "fragment"}, epoch |-> 0, asked |-> <<>>,
                own |-> own, restore |-> linked, fragment |-> f]
      /\ s \in [view : Views, config : Configs] /\ f \in [config : Configs, step : Nat]
    BY <1>1, <1>6
<1> HIDE DEF f, s
<1>8. page \in Pages
    BY <1>3, <1>4, <1>7 DEF Pages
<1>9. /\ page.view = InitialView /\ page.config = c /\ page.seen = s /\ page.fragment = f
      /\ page.due = {"worker", "restore", "fragment"} /\ page.epoch = 0
      /\ page.restore = linked
    BY <1>7
<1>10. /\ NewWorker \in Workers /\ <<>> \in Seq(Orders) /\ <<>> \in Seq(Reports)
       /\ NewWorker.epoch = 0 /\ NewWorker.inits = {} /\ ~NewWorker.playing
       /\ ~NewWorker.held /\ NewWorker.timers = 0
    <2>1. <<>> \in Seq(Sims)
        OBVIOUS
    <2>2. NewWorker \in Workers
        BY <2>1 DEF NewWorker, Workers
    <2>3. QED
        BY <2>2 DEF NewWorker
<1>11. /\ Typed(page, worker, inbox, outbox)
       /\ Numbered(page, worker, inbox, outbox)
       /\ Idle(page, worker, inbox, outbox)
    BY <1>2, <1>5, <1>8, <1>9, <1>10 DEF Typed, Numbered, Idle
<1>12. /\ Asked(page, inbox)
       /\ Loading(page, worker, inbox, outbox)
       /\ Fetching(page, worker, outbox)
       /\ Announced(page, worker, outbox)
    BY <1>2, <1>5, <1>9, <1>10 DEF Asked, Loading, Fetching, Announced
<1>13. /\ Equipped(page, worker, inbox, outbox)
       /\ Aligned(page, outbox)
    BY <1>2, <1>5, <1>9, <1>10 DEF Equipped, Aligned
<1>14. /\ Ticking(worker, inbox)
       /\ Standing(page, worker, inbox)
       /\ Agreeing(page, worker, inbox, outbox)
    BY <1>2, <1>5, <1>9, <1>10 DEF Ticking, Standing, Agreeing
<1>15. Following(page, worker, inbox, outbox, clicks)
    BY <1>2, <1>3, <1>5, <1>9, <1>10 DEF Following, f
<1>16. Painted(page)
    BY <1>5, <1>9 DEF Painted, s
<1>17. QED
    BY <1>11, <1>12, <1>13, <1>14, <1>15, <1>16 DEF IInv, Kept

(* Every step of the page, of the worker and of the reader. *)
LEMMA NextKeeps ==
    ASSUME IInv, clicks \in Nat, [Next]_vars
    PROVE  IInv'
<1>1. CASE WorkerStep
    <2>1. Kept(page, worker', inbox', outbox', clicks)
        BY <1>1, WorkerKeeps DEF WorkerStep, IInv, K
    <2>2. page' = page /\ clicks' = clicks
        BY <1>1 DEF WorkerStep
    <2>3. QED
        BY <2>1, <2>2 DEF IInv
<1>2. CASE RunEffects
    BY <1>2, EffectsKeep
<1>3. CASE Deliver
    BY <1>3, DeliveringKeeps
<1>4. CASE Reader
    BY <1>4, ReconfiguringKeeps, PausingKeeps, PlayingKeeps, SeekingKeeps DEF Reader
<1>5. CASE UNCHANGED vars
    BY <1>5 DEF vars, workerVars, IInv
<1>6. QED
    BY <1>1, <1>2, <1>3, <1>4, <1>5 DEF Next, EventLoops

(* The count of clicks is a number, whatever bound TLC puts on it. *)
LEMMA ClicksAreCounted == Spec => [](clicks \in Nat)
<1>1. Init => clicks \in Nat
    BY DEF Init
<1>2. clicks \in Nat /\ [Next]_vars => (clicks \in Nat)'
    <2> SUFFICES ASSUME clicks \in Nat, [Next]_vars
                 PROVE  clicks' \in Nat
        OBVIOUS
    <2>1. Reader => clicks' = clicks + 1
        BY DEF Reader, Reconfigure, PressPause, PressPlay, Seek, Click
    <2>2. EventLoops \/ UNCHANGED vars => clicks' = clicks
        BY DEF EventLoops, WorkerStep, RunEffects, Deliver, vars
    <2>3. QED
        BY <2>1, <2>2 DEF Next
<1>3. QED
    BY <1>1, <1>2, PTL DEF Spec

(* The invariant holds in every reachable state. *)
LEMMA InStep == Spec => []IInv
<1>1. IInv /\ clicks \in Nat /\ [Next]_vars => IInv'
    BY NextKeeps
<1>2. QED
    BY <1>1, InitKept, ClicksAreCounted, PTL DEF Spec
-----------------------------------------------------------------------------
(* Every variable keeps its type: no message on its way is malformed, and  *)
(* no step is past the end of the trace, neither a simulation's nor one    *)
(* shown.                                                                  *)
THEOREM RunnerTypes == Spec => []Typed(page, worker, inbox, outbox)
<1>1. IInv => Typed(page, worker, inbox, outbox)
    BY DEF IInv, Kept
<1>2. QED
    BY <1>1, InStep, PTL

(* Whatever was in flight when the reader changed the configuration, what  *)
(* the page shows belongs to the one its worker was asked for, one row per *)
(* policy and all rows at one event, also with one worker for every init.  *)
THEOREM RunnerLockstep == Spec => []Lockstep
<1>1. IInv => Lockstep
    <2> SUFFICES ASSUME IInv PROVE Lockstep
        OBVIOUS
    <2>1. page.view.status = "ready" => page.view.policies = page.asked
        BY DEF IInv, Kept, Aligned
    <2>2. ASSUME page.view.frames # NoFrames
          PROVE  /\ DOMAIN page.view.frames = Range(page.asked)
                 /\ Cardinality(Range(page.view.frames)) = 1
        <3>1. PICK s \in 0..TotalSteps : page.view.frames = [q \in Range(page.asked) |-> s]
            BY <2>2 DEF IInv, Kept, Aligned
        <3>2. InitialView.frames = NoFrames
            BY DEF InitialView
        <3>3. page.asked \in Configs
            BY <2>2, <3>2 DEF IInv, Kept, Idle
        <3>4. page.asked \in Seq(Policies) /\ page.asked # <<>>
            BY <3>3, ConfigsAreSequences
        <3>5. page.asked[1] \in Range(page.asked)
            BY <3>4 DEF Range
        <3>6. Range(page.view.frames) = {s}
            BY <3>1, <3>5 DEF Range
        <3>7. Cardinality({s}) = 1
            BY FS_Singleton
        <3>8. QED
            BY <3>1, <3>6, <3>7
    <2>3. \A i \in DOMAIN worker.sims : worker.sims[i].step <= TotalSteps
        <3>1. \A i \in DOMAIN worker.sims : worker.sims[i] \in Sims
            BY DEF IInv, Kept, Typed, Workers
        <3>2. \A i \in DOMAIN worker.sims : worker.sims[i].step \in 0..TotalSteps
            BY <3>1 DEF Sims
        <3>3. TotalSteps \in Nat
            BY StepsAssumption
        <3>4. QED
            BY <3>2, <3>3
    <2>4. QED
        BY <2>1, <2>2, <2>3 DEF Lockstep
<1>2. QED
    BY <1>1, InStep, PTL

(* Once nothing is on its way, the page shows the step the worker is at,   *)
(* and offers no "Play" while it plays, however the reader's clicks, the   *)
(* worker's reports and the effects of renders interleaved before.         *)
THEOREM RunnerSettles == Spec => []SettledAgreement
<1>1. IInv => SettledAgreement
    <2> SUFFICES ASSUME IInv, Quiet, page.view.status = "ready"
                 PROVE  page.view.step = StepOf(worker) /\ (worker.playing => page.view.playing)
        BY DEF SettledAgreement
    <2>1. inbox = <<>> /\ outbox = <<>> /\ DOMAIN inbox = {} /\ DOMAIN outbox = {}
        BY DEF Quiet
    <2>2. page.view.step = StepOf(worker)
        BY <2>1 DEF IInv, Kept, Agreeing
    <2>3. worker.playing => page.view.playing
        BY <2>1 DEF IInv, Kept, Standing
    <2>4. QED
        BY <2>2, <2>3
<1>2. QED
    BY <1>1, InStep, PTL

(* However play, pause, seek, failures and the end of a run follow each    *)
(* other, at most one chain of ticks is scheduled, and none once the       *)
(* worker has stopped.                                                     *)
THEOREM RunnerTicksOnce == Spec => []OneTickAtATime
<1>1. IInv => OneTickAtATime
    BY DEF IInv, Kept, Ticking, OneTickAtATime
<1>2. QED
    BY <1>1, InStep, PTL

(* Following a link to a step of the trace and touching nothing never      *)
(* loses it: not while loading, and not when an early frame goes by.       *)
THEOREM RunnerKeepsLink == LinkedStep <= TotalSteps => (Spec => []LinkIsKept)
<1> SUFFICES ASSUME LinkedStep <= TotalSteps
             PROVE  Spec => []LinkIsKept
    OBVIOUS
<1>1. Goal = LinkedStep
    BY RunnerAssumption, StepsAssumption DEF Goal, Lesser
<1>2. IInv => LinkIsKept
    BY <1>1 DEF IInv, Kept, Following, LinkIsKept
<1>3. QED
    BY <1>2, InStep, PTL
=============================================================================
