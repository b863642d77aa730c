# policybook in TLA+

policybook is a registry of small decision policies: which key a full cache
drops, whether a request may proceed, how long to wait before a retry, which
tokens a language model forgets. Each is implemented against a tiny interface,
in C, TypeScript and Python, and driven by a simulator that replays a seeded
trace. The web app runs the same policies in a worker and plays them back.

This directory models the C library whole (every policy, the containers and the
life of a policy from its allocator to its release), the loops that drive it, and
the page and worker of the runner; checks the models with TLC; and proves what
matters most of the rate limiters, the hash map, the ring, the retry schedules and the
runner with TLAPS.

## 1. Inventory

Paths are under `src/`. "Hard" names what a unit test would hardly reach.

| Component | State it keeps | Operations | Hard | What makes it correct |
|---|---|---|---|---|
| Rate-limiter interface and driver (`packages/c/include/policybook/rate_limiter/rate_limiter.h`, `packages/c/fuzz/fuzz_ratelimiter_core.c`) | the clock, a bounded table of keys | `allow` and `retry_after`, the clock never backwards | any number of calls at one instant, gaps, a full table | the policy sees a non-decreasing clock; a key without a slot is never told to wait |
| Token bucket, leaky bucket, GCRA (`policies/rate-limiter/`) | per key: whole tokens and a fraction; a level; one arrival time | `allow`, `retry_after` | lazy refill, carried fractions, clamps, idle keys | nobody exceeds burst + rate × time; three ledgers, one set of decisions; hints to the millisecond |
| Fixed window, sliding log, sliding counter | a count; a ring of timestamps; two counts and a weight | `allow`, `retry_after` | edges, gaps, stale counts, floored products | what a trailing window can hold; counts are true; hints exact |
| Dual bucket | two ledgers per key | `allow`, `retry_after` | charging both or neither | both ceilings; a refusal costs nothing |
| Cache interface and driver (`fuzz/fuzz_cache_core.c`) | the resident set | `on_access`, then `evict` while over capacity | insert comes before evict | policy and driver agree on what is held |
| LRU, FIFO, CLOCK, SIEVE (`policies/cache/`) | slots, links, rings, bits, a hand | `on_access`, `evict` | links mended several operations ago, a hand on a slot since reused, ring wrap | no slot leaks; the order each is named for |
| 2Q, ARC, S3-FIFO, LFU, W-TinyLFU | several queues, ghosts, a target, frequency classes, a sketch | `on_access`, `evict` | pools sized exactly, a victim chosen before it is asked for, loops that put entries back | memory of a key is true; pools suffice; a scan cannot reach what is protected; `evict` always answers |
| Seven kv-cache policies (`policies/kv-cache/`) and their driver (`fuzz/fuzz_kvcache_core.c`) | positions, and weights, scores, votes or a ring of recent weights beside them | `on_decode_step`, `evict` | weights come by index, so every array must stay in the driver's order through wraps and compactions; a slot used again; null vectors; several victims at once | what goes is what a ledger by position would let go; evictions suffice |
| Retry policies (`policies/retry/`) and the episode (`packages/core/.../retry/harness.ts`) | attempt, last delay | `next_delay` | 32-bit doubling, bounds that wrap to zero, empty draws, hints of zero | schedules compare as documented; a hint is honoured; an episode ends |
| Hash map, linked list, ring, heap (`packages/c/src/ds/`) | slots, links, a head, an array | put, get, remove; push, pop, peek, unlink, clear | backward shifts at the wrap, a full table, a family cut short | entries stay findable; a ring is a queue; a heap gives its least and loses nothing |
| Creation and destruction (`allocator.h`, every `*_create`, `*_destroy`, `*_memory_bytes`) | blocks, pointers assigned so far | alloc, free with the size | any allocation fails, half-built structs, sizes written twice | nothing leaks, is freed twice or in another size; the report is true |
| Web runner (`apps/web/src/lib/worker-protocol.ts`, `sim-worker.ts`, `islands/RunnerShell.tsx`) | the page's view and effects; the worker's simulations, timer and awaited inits; messages between | init, play, pause, seek, tick; buttons, links, reconfiguration | two event loops, awaits, effects that run after the paint, failures half way | one configuration at a time, in lockstep; page and worker agree once nothing is in flight; nothing hangs |
| TypeScript and Python policies and harnesses; OPT; generator and traces; CLI; code and vector generation; rest of the web app | | | | partly or not modelled: see section 8 |

How they interact: a driver owns the trace and calls a policy synchronously;
policies never call back and never read a clock or a random source that was not
handed to them. The C policies call the containers of `ds/` as plain functions.
The only concurrency in the repository is in the runner: the page and the worker
exchange messages, the worker awaits imports and re-arms a timer, and React runs
effects some time after a render. Nothing is persisted, so there is no crash
recovery to model; what can fail is an allocation, an import, or a policy that
throws.

A C policy exists twice in the tree: `src/policies/<domain>/<name>/policy.c` is
the canonical one and `packages/c/src/<domain>/<name>.c` the assembled copy that
is compiled (`scripts/assemble-c.ts` puts a four-line header before it). In
`PROJECT.json` a policy's own module names the canonical file; the abstract
specification it implements, the shared key table and `Ownership` name the copy.

## 2. Modules

| Module | Stands for | How state and actions correspond |
|---|---|---|
| `RateLimiterHarness` | the driver's loop and the calls of the interface | `now` is the clock, `reply` the last answer; `since` and `spent` count what a key was admitted from any instant on. Also holds the lemmas about it the proofs share |
| `KeyTable` | the bounded table every C limiter keeps | `taken` counts the slots other keys hold; `TurnAway` and `AnswerUntracked` are the calls of a key without a slot |
| `BucketParameters` | rate and burst | the accrual helper the buckets share |
| `Meter` | *abstract*: a debt per key, paid down continuously | what the bucket policies promise, without a ledger |
| `TokenBucket` | the token bucket's arithmetic over unbounded numbers, as `index.ts` has it | the proofs are about this one |
| `CTokenBucket`, `LeakyBucket`, `Gcra` | the three `policy.c`, and in `Gcra` the TypeScript one too | `Gcra` has the schedule first (`Spec`) and the port behind its table after it (`PortSpec`); tables are functions on the keys that have a slot; `Modulus` is the width of a stored fill time; each refines `Meter` by a refinement mapping (`DebtMap`) |
| `WindowHarness` | the window limiters' calls | keeps what each key had been admitted by each instant, against whose differences counts and ceilings are judged |
| `ExactWindow` | *abstract*: the exact trailing window | refined by `SlidingLog` |
| `FixedWindow`, `SlidingLog`, `SlidingCounter` | the three `policy.c` | ring indices in the log, aligned windows in the others |
| `DualMeter`, `DualBucket` | *abstract* and `dual-bucket/policy.c` | two debts; two ledgers refilled together |
| `CacheHarness` | `pb_fuzz_cache_once` | `resident` and `event`: a lookup hits, or misses and is followed by evictions while `OverCapacity` |
| `SlotTable` | the slot table the list policies share, and `ds/ilist.c` | `index`, `keys`, `free`; the list's operations over two link arrays |
| `ResidentOrder`, `SecondChance`, `FrequencyOrder` | *abstract* replacement orders | refined by `Lru` and `Fifo`, `Clock` and `Sieve`, `Lfu` |
| `Lru`, `Fifo`, `Clock`, `Sieve` | the four `policy.c` | slot by slot and link by link; each turn of a sweep is a step |
| `TwoQueue`, `Arc`, `S3Fifo`, `Lfu`, `WTinyLfu` | the five `policy.c` | queues and lists are sequences, pools are bounds on them; each turn of S3-FIFO's eviction loops is a step |
| `KvCache` | seven `policy.c` and `pb_fuzz_kvcache_once` | arrays by index, with what lies past their size left as the code leaves it; `Decode` is a step and the new token, `Shrink` an eviction, `Refused` one with too small a buffer |
| `AttentionLedger` | *abstract*: what was heard of each position | refined by `KvCache` for all seven |
| `Retry` | six `next_delay` and one episode | 32-bit words are numbers below `Word`; a random draw is a choice from what `pb_rng_next_int` can return. Also holds its theorems |
| `KeyIndex`, `OpenMap` | *abstract* and `ds/map.c` | a call is a sequence of probes; `hash` is any function |
| `Containers` | `ds/ring.c` and `ds/heap.c` | one action per call, `reply` its answer |
| `Ownership` | every create, destroy and memory_bytes | each function is a script of steps (claim, take and check later, free, destroy a container) that a small machine carries out; `heap` is what is allocated and in which size, `fields` what has been assigned |
| `SimWorker` | `sim-worker.ts` and the pure operators of `worker-protocol.ts` | one action per message type, per timer, per resumption of an `init`, and per way each can throw |
| `Runner` | `RunnerShell.tsx` over `SimWorker` | handlers, and the effects of a render, which run later and see what that render saw |
| `LimiterProofs`, `CacheProofs`, `ContainerProofs`, `RunnerProofs` | | theorems and their lemmas, about the module they extend; `Meter`, `TokenBucket`, `Gcra` and `Retry` end with their own |

`MCLimiters`, `MCCaches` and `MCContainers` each check a family: `policy` (or
`subject`) is chosen in the initial state and only the chosen one moves; the rest
of the state stays as it began. The policies share the driver's variables and
those of the same name. A property of such a module says, per policy, what the
policy's own module calls by its own name (`CeilingsHold` is `SeamCeiling`,
`WindowCeiling`, `TrailingCeiling` or `BothCeilings`). `Retry`, `KvCache` and
`Ownership` need no instance beyond their `.cfg`.

## 3. What the runs check

| Run | Instance | Shows |
|---|---|---|
| `limiters` | one key followed and another that may take the only slot; costs 0, 1, 2, 4; 300 permits a second, burst 2, 12 ms; windows of 3 ms, limit 3, 7 ms; 2 calls and 3 tokens per 5 ms | `RateCeiling` over every window, the ceiling of each window policy, counts true after any gap, hints to the millisecond, `RETRY_UNKNOWN` exactly when it is due, the clamps invisible; three meters, a log and a dual bucket refine their abstract selves |
| `caches` | five keys, capacity three (ARC: two; list policies: four keys) | slots, links and hands through every reuse; true memory, sufficient pools, a victim always; the orders, where a spared key goes, scans stopped short, and that S3-FIFO's loops end |
| `kv` | budgets 2 and 3, every secondary parameter below them, weights 0 and 1 half, null vectors, buffers for none and for four victims, nine steps and budget together | indices agree with the driver's, evictions suffice, and every policy is the ledger by position |
| `retry` | five attempts, base 2, caps 5 and 15, words of 16 values, outages under 15 ms, deadline 18 | the schedules against textbook backoff, hints, the walk's range, and that an episode ends |
| `containers` | a map of four slots for five keys, every hash up to renaming keys; a ring of three; a heap of six with ties | findable after every deletion; the answers of a map; which calls return; a queue; the least pair out, and none lost |
| `ownership` | 24 policies and the heap, sizes 0, 1, 2, 5, any allocation failing | frees are true, nothing is lost, reports are true to the byte |
| `runner` | two configurations, two steps, a linked step, three clicks | lockstep, settled agreement, a single chain of ticks, the link kept and reached, loading and playback end |

Why the bounds are enough. 300 permits a second is a third of a permit per
millisecond, rounded: every fraction and every refill of zero permits occurs, a
cost of 4 exceeds the burst, and a bucket fills in 7 of the 12 ms, so the clamp
is met. Three-millisecond windows in seven milliseconds give both edges and a
gap of two windows; cost 4 exceeds the limit. One slot is a table another key can
fill before or after the key that is followed. In the caches one key more than
the capacity forces evictions in every order and a second key more lets ghosts
overflow; ARC has capacity two so that five keys exceed its directory of four.
W-TinyLFU's sketch has two rows of two counters shared by all keys, saturating at
`MaxCount` and halved every `SampleLimit` lookups. LFU's counts stop at `MaxUses`.
In `kv` a slot is used again after the third eviction at the earliest, with a
full ring of recent weights behind it: shorter runs do not tell a history that
was not cleared. Budgets 2 and 3 give pyramid shares above, at and below the
budget; weights of a half make fair shares of two and ties of every kind. In
`retry` base and caps in words of 16 are chosen so that the doubling passes a
word, the larger cap is the largest word (where a draw's bound would wrap) and
the smaller the largest that decorrelated jitter accepts. Six pairs are a heap of
three levels whose last family is short, three slots a ring that wraps. Sizes 0
and 1 are the refusals and the smallest of everything, 5 is the first whose table
is larger than the minimum. In the runner `MaxClicks` bounds the reader and
`MaxMail` the messages to the page: three clicks are enough for play, pause, play
and for a change of configuration between any two. Four slots let a cluster wrap;
a fifth key makes the table refuse. The clocks (`MaxTime`, `WindowHorizon`,
`Horizon`), clicks and mail are the only bounds that the code does not have
itself, besides the two of the sketches.

Every property has a mutant in `PROJECT.json`: a plausible mistake in one
definition (the operator just above it, marked "mutant of") under which TLC finds
that property violated in the same run.

## 4. Where the code departs from its documentation

Five runs are expected to be violated; each checks a sentence from the repository.

- `c_token_bucket_narrow`: the fill time is computed in 64 bits and stored in 32;
  the comment says the clamp never changes the result.
- `retry_cap_below_base`: with `cap_ms` = (`base_ms` - 1) / 3, which create
  accepts, decorrelated jitter's second draw has bound zero and the generator's
  assertion fails (in TypeScript any cap under a third of the base throws); the
  comment and the README say the range is always positive.
- `runner_end`: when a run plays to its end the worker stops and tells the page
  nothing, so "Pause" keeps showing over a stopped runner.
- `runner_restore_race`: Play pressed between the ready render and the effect that
  seeks to a linked step: the seek stops the worker, the page shows "Pause".
- `open_map_full`: `pb_map_get` and `pb_map_remove` of an absent key never return
  on a full table; the test of the full table bounds only the put. No bundled
  policy fills its table: they are sized at twice what they hold.

Met while modelling, without a run of their own: the comment in `ring.c` says a
modulo keeps `head + length` inside the array, where the code subtracts once, and
above 2^31 slots the sum would wrap before it (the assumption of `Containers`
keeps clear of it); S3-FIFO's comment says small is drained when "over its share"
and its README that with main over its share the next eviction takes from main,
while the code drains small already at its share; S3-FIFO's last resort (back to
small when main is empty) and W-TinyLFU's eviction without a contest are never
reached from the driver (`AlwaysAnswers`); no bundled cache policy provides
`admit`; in the retry harness every error is retryable and carries a hint, the
model allows both to be false as the interface does; no bundled C policy uses the
heap; in a worker shared between configurations, the failure of a superseded init
stops the playback of the one that took over, which cannot happen with the page
as it is.

## 5. Fairness

- `MCCaches`: `WF_vars(EvictionTurn)`. `evict` is a synchronous loop; nothing
  else runs until it returns.
- `Retry`: `WF_vars(Next)`. An episode is one synchronous loop.
- `Runner`: `WF_vars(EventLoops)`, over the worker's handlers, the page's message
  handler and the effects together. Two browser event loops do not stop while
  something is queued. Nothing is assumed of the reader, nor that either loop is
  ever ahead of the other.
- `OpenMap`: `WF_vars(Proceed)`. A call is a function that runs on.

Everything else is safety, checked without fairness.

## 6. What is proved

For every rate, burst, set of keys, set of costs and horizon
(`HarnessAssumption`: costs and the horizon are natural; `BucketAssumption`: rate
and burst are positive integers, which the constructors enforce):

- `Meter`: the meter's type; `SpentIsCovered`; `RateIsCapped`. The ceiling is
  not inductive by itself: nothing in it says what a key that spent has still to
  pay. The inductive invariant is that what a key has been admitted since the
  measurement opened is at most its debt now plus what the rate has paid since.
  Admitting adds to both sides alike, time moves debt into what has been paid,
  and opening a measurement sets the left side to zero. With debt at most the
  burst, the ceiling follows.
- `TokenBucket`: the ledger's type, and that every step of the bucket is a
  step of the meter or a stutter, answers included (`BucketImplementsMeter`). The
  core is `AccrueExact` (whole tokens and fraction together lose nothing in the
  division), `ClampSaturates` (idle time beyond the fill time fills the bucket
  either way) and `AccrualTime` (the ceiling division is the first millisecond).
  The meter's ceiling is then the bucket's (`RateIsCapped`), and the wait it names is
  exact (`BucketKeepsItsWord`): `WaitIsReached` says that a token is there after n
  milliseconds if and only if n is at least the wait.
- `Gcra`: the same for one stored arrival time, where time is scaled instead
  of tokens being divided; so GCRA and the token bucket make the same decisions.
- `LimiterProofs`, the meters: the same for what the run `limiters` checks, whichever
  meter the driver has picked: the TypeScript and the C token bucket, the leaky bucket, GCRA
  and its C port, with a table of any size, other keys competing for it, and calls
  turned away. `LimitersImplementMeter`, `LimitersKeepCeiling` and
  `ClampStaysInvisible` state that run's `ImplementsMeter`, `RateCeiling` and
  `ClampIsInvisible`. Their invariant `LedgerSound` says of the picked meter that
  its ledger is in range, that no stored time is ahead of the clock and that the
  table is within its size. A call of a key without a slot changes no debt, and a
  key that is given one starts where an unknown key is assumed to be. The leaky
  bucket is not proved a second time: read as room left instead of level, its
  ledger is a token bucket's (`Mirror`), and its drain is that bucket's refill
  (`DrainMirrors`).

For every limit and window as well (`WindowAssumption`: both positive), and for every
pair of limits and period of the dual bucket (`DualAssumption`: all positive):

- `LimiterProofs`, the windows and the dual bucket: `WindowsKeepCeilings`,
  `CountsStayTrue`, `LogImplementsExactWindow` and `DualImplementsMeter` state the
  run's `CeilingsHold`, `CountsAreTrue`, `ImplementsExactWindow` and
  `ImplementsDualMeter`. Their invariant is `WindowsSound`; `History` says of what was
  admitted by each instant that it never shrinks and knows nothing of the future.
  - Fixed window: a stored counter holds what its own window let through, and nothing
    was let through since that window (`CountsItsWindow`); so forgetting it loses
    nothing, whatever the gap. The ceiling over an interval is a limit for each
    window it touches (`SeamHolds`); a request is charged to the last of them, which
    is why the step needs no more than the counter of that one.
  - Sliding counter: the same of two windows (`CountsTwoWindows`), carried through a
    roll to the next window and over a longer gap (`RolledForward`). An estimate
    fades the previous window evenly, and what it can miss of it is bounded once
    (`FadingMisses`): twice the limit, less what two milliseconds of a full window
    fade by. A window of one millisecond leaves nothing to fade, and misses nothing.
  - Sliding log: the ring holds the latest of what its key was admitted, the i-th of
    them at the instant its number was reached, and what it no longer holds has left
    the window (`LogRecords`). From this the expiry, which stops at the first entry
    still inside, leaves exactly the trailing window (`ExpiryIsExact`), an append
    lands behind the last entry of a ring that has room (`AppendRecords`), and the
    wait read off the head is the least that lets a request in (`LogWaits`).
  - Dual bucket: each ledger is short of its limit by what that dimension owes
    (`Lacks`), a refill pays exactly what time pays (`RefillOwes`), through carry and
    clamp, and a call fits exactly when both debts leave room for it
    (`LedgerAnswers`). `DualCovered` is the meter's covering invariant, once for each
    dimension: a refusal disturbs neither half.

  `LimitersAreTyped` states `TypeOK`, and `HintsStayTrue` states `HintsAreTrue`: for
  each policy that computes a wait, admission is refused until the instant named and
  granted there. For the counter that is a case split over a window that is full on
  its own, whose key waits past the edge until its whole count has faded by one, and
  one where the previous count must fade (`CounterWaits`). The part
  about keys without a slot, `TableTruth`, is about the last answer, and needs that
  nothing changes between an answer and the next call that could make it a lie: a key
  keeps its slot, and whoever takes one asks for it (`Told`).

Of these theorems `LedgersStaySound`, `LimitersImplementMeter`, `LimitersKeepCeiling`,
`ClampStaysInvisible`, `LimitersAreTyped` and `HintsStayTrue` have the hypothesis
`FillTimeFits`: that the fill time is below `Modulus`, the width of the field that
keeps it. The code does not enforce it, and `c_token_bucket_narrow` is what happens
without it. `HintsStayTrue` also assumes `WaitsAreShort`: that a window and a period
are below `Unknown`, the wait that means never. In the code they are 32 bits wide and
`PB_RATELIMITER_RETRY_UNKNOWN` is the largest number of 64, so they are. The theorems
about windows and the dual bucket have no hypothesis.

For every capacity, every set of keys and every share of a queue, a pool or a sketch
(`CapacityAssumption`, and `PoliciesAreBuilt`: what the constructors enforce, that LFU's
bound on uses is positive, and that a key has a position in each of the sketch's rows):

- `CacheProofs`: the eight theorems state everything the run `caches` checks but that
  evictions end: `TypeOK`, `LinksAgree`, `MemoryIsTrue`, `PoolsSuffice`,
  `AlwaysAnswers`, `ImplementsOrder`, `SparedKeepTheirPlace` and `ScansStopShort`. None
  is inductive: that a list's links agree needs that the slot it is given is on no
  list, which needs the slot table; that a victim is the one the promised order names
  needs to know how the order is spelled. `IInv` holds, for whichever policy was
  built, an invariant of its own; no policy's step reads another's state.
  - LRU, CLOCK, SIEVE (`UInv`, `KInv`, `VInv`): a slot is free or in use, the index
    leads to it, and its key is the one the driver holds (`XTable`). The links *spell*
    a sequence (`XChain`): forth from the head it is that sequence, back from the tail
    its reverse, and a slot off the list is marked so. Pushing, unlinking at either
    end or in the middle and moving to the front do to the sequence what they should
    (`XPushes`, `XPulls`), for slots without regard to which list they are on, so the
    three policies share them. `XThreads` says that walking the links finds it.
  - The order such a policy implements is then the keys of that sequence. A hit of
    LRU moves one to the front (`UHits`); CLOCK's hand puts a key it spares behind all
    others and `ahead`, what it must still outlive, is what is nearer the hand
    (`KAhead`); of SIEVE's keys no two ever change places (`VKept`), and the hand is
    on the list or nowhere, and leaves a slot before it is given back.
  - FIFO (`BInv`): places around the ring are distinct as long as no more than its
    size are used (`BRing`), so the keys in them are a queue.
  - 2Q and S3-FIFO (`QInv`, `SInv`): two queues that share no key and hold what the
    driver holds, and ghosts that are not held. Main yields only when the other queue
    is within its share, and the cache is over capacity then, so main has its own
    (`QEvicts`, `SEvicts`); for the same reason S3-FIFO's main is never asked empty.
  - W-TinyLFU (`TInv`): every counter of a key has at least what the key would have in
    a sketch of its own, saturation, halving and the doorkeeper included (`TSketch`).
    The window is over its size only when main is full, so every eviction is a contest
    between two keys that are there.
  - ARC (`AInv`): no key is on two of the four lists, the paper's bounds (`ABounded`),
    which need that ghosts exist only once the cache was full, and a victim waits only
    while the cache lists are full. From the bounds follows, case by case, that
    REPLACE finds an entry (`AAnswers`).
  - LFU (`LInv`): the class list ascends strictly, no class is empty, and each key is
    in one class. As many classes as keys then suffice, and one to move through. That
    the list implements `FrequencyOrder` is the longest of these arguments: the
    ranking is read off the set of classes (`LRank`), a step changes one or two of
    them (`LKeptUp`, `LKeptNew`, `LKeptOut`), every other key keeps its count and its
    place among the others (`LKeeps`), and the key that moved is the last of its class,
    so it ranks above everyone used no more and below the rest (`LTopmost`).

For every capacity, every bound on entries up to it, every set of keys and every
hash (`MapAssumption`: what the constructor enforces, and that the mark of an empty
slot is no key):

- `ContainerProofs`, `EntriesAreFound`: between calls every entry is where the search
  for its key ends (`Findable`). The invariant `MapInv` has to speak of calls half
  way. `Reachable`: unless a removal is mending, every slot from an entry's home to
  the entry is occupied. `Searching`: a search has met other keys only, so that the
  slot a put takes is the first free one and the key is nowhere else. `Mending`:
  during the backward shift every entry is reached but for the one hole, and those
  between the hole and the walk do not pass it; when the walk meets a free slot, no
  entry passes the hole, and the hole may stay. `Counted`: the count is of the
  entries, and no key is there twice. The code's comparison of three positions
  modulo the capacity is the question whether the hole lies on the entry's path
  (`MayMoveBackIs`).
- `ContainerProofs`, `MapIsAnIndex`: from the same invariant, each call takes effect
  on an index from keys to values in one step and answers as the index would; the
  steps of a search and of the mending change nothing the index can see
  (`ImplementsKeyIndex`). That a call returns is liveness, and left to TLC.

For every capacity and every set of values (`ContainersAssumption`: positive
capacities at which no index wraps a word):

- `ContainerProofs`, `RingIsAQueue`: every call on the ring does to the sequence it
  stands for what it would do to a queue, and answers as a queue would
  (`RingServes`). The invariant is that head and length are in range (`RingOK`).
  `PlaceIsInside` says that one subtraction is enough, `PushAppends` that the slot
  written is no slot in use, `PopTakesTheFirst` that the rest moves up by one.

For every base, cap, deadline and outage (`RetryAssumption`):

- `Retry`, `WalkIsSafe`: if every cap is at least the base, decorrelated jitter
  always has a delay to name and names none outside [base, min(cap, 3 × previous)]
  (`WalkStaysInRange`). That is not inductive without `WalkInv`: the last delay
  lies between base and a cap of which three do not wrap a word. The hypothesis
  is needed; `retry_cap_below_base` is what happens without it.
- `Retry`, `HintIsKept`: a client that heeds the server's hint is there when the
  outage ends or as late as the clamps alone make it (`HintIsHonoured`). `HintInv`
  says that before the deadline the clock is exactly the smaller of the outage and
  of one clamped wait per attempt so far; the step is the case split whether the
  hint or a clamp was the smaller.

For every set of configurations, trace length, set of speeds and linked step, and
any number of clicks and of messages in flight (`RunnerAssumption`: a configuration
is a non-empty sequence of policies, a speed is positive):

- `RunnerProofs`: `RunnerLockstep`, `RunnerSettles`, `RunnerTicksOnce` and
  `RunnerKeepsLink` state the run's `Lockstep`, `SettledAgreement`, `OneTickAtATime`
  and `LinkIsKept`; `RunnerTypes` is the type invariant of page, worker and both
  queues. None is inductive, because a message already sent may break each of them.
  The invariant `IInv` therefore speaks of the queues:
  - `Numbered`: no epoch is ahead of the page's, queued inits are in the order of
    their epochs, and only the worker of the page's epoch speaks for it. `Idle`,
    `Asked` and `Loading` follow one init from the page's first effect to its ready:
    the current init is the last message to the worker, and until its ready no frame
    of its epoch arrives.
  - `Fetching`: a current init that awaits an import has added exactly the
    simulations before it. `Announced`: a ready on its way is for what was asked and
    the frame behind it is what the worker still shows. `Equipped`: a worker that is
    told something, plays or has shown itself has all its simulations. `Aligned`:
    every current frame, on its way or shown, has a row for each of them at one step.
    `Lockstep` follows.
  - `Ticking`: a timeout is pending exactly while the worker holds one, and no play
    reaches a worker that holds one. `OneTickAtATime` follows.
  - `Standing`: behind a page that shows "Play" the worker stands, or the last thing
    it was told is no play. `Agreeing`: unless a seek is queued or a failure on its
    way, the last current frame queued, or else the page, shows the worker's step.
    `SettledAgreement` follows.
  - `Following`: until the first click the worker is only ever sent to the linked
    step, and once a frame there has been sent every later one is there.
    `LinkIsKept` follows, for links within the trace (`LinkedStep <= TotalSteps`): a
    link past the end is shown at the end and rewritten as such.

  A click is a handler, a render and the effects of that render, which the page runs
  later. Every conjunct is proved of the page between handler and render (`Kept`);
  `Painted` is what a render adds.

## 7. What is only model-checked

The kv-cache policies, the other four retry schedules
(`SchedulesCompare`), the heap and ownership. Liveness (`EvictionEnds`,
`EpisodeEnds`, `LoadingEnds`, `PlaybackEnds`, `LinkIsReached`, `ReturnsUnlessFull`)
stays with TLC: the prover handles neither fairness nor ENABLED. What recursive
functions compute (`Doubled` in `Retry` against powers of two, `SiftUp` and
`SiftDown` in `Containers`) is checked on bounded inputs only. The library's induction
theorems take an operator, which the prover cannot instantiate; the one induction over
the natural numbers here (`LeastNumber` in `LimiterProofs` and `CacheProofs`: a nonempty
set of them has a least member) is about a set, and rests on the library's theorem that
strict inclusion of finite sets is well-founded. The one recursive function that is
proved about, SlotTable's walk along the links (`Threaded`), is not unfolded: the walk
the links spell satisfies its equation, and no other function does (`XThreads`).

## 8. What is not modelled

- **TypeScript and Python policies.** They are held to the C ones by shared vectors
  and make the same decisions; what they lack is the bound on the number of keys,
  the widths of fields and the allocator. `TokenBucket` and parts of `Gcra` follow
  the TypeScript ones, whose arithmetic the proofs are about. Their harnesses make
  the calls the C drivers make.
- **OPT**: Belady's policy has no C port, and its heap keeps the positions of its
  entries, which the C heap does not.
- **Floating point**: kv-cache weights are small integers, so their sums are
  exact; which of two nearly equal sums is the lower is not asked.
- **W-TinyLFU's packing** of two counters to a byte, and its hash (any position
  function of the key is a legal one; the run fixes one with collisions).
- **2^63 and 2^32**: GCRA's scaled clock and LFU's class frequencies, which would
  overflow there, and the casts of sizes a 32-bit `size_t` could not hold.
- **Random numbers and traces, code and vector generation, CLI, the other pages of
  the web app**: pure functions or straight-line input and output.

## 9. Plan

1. *Done.* Drivers; the meters and their abstract meter, window limiters and dual
   bucket, with proofs of everything the run checks of them, under the driver with a
   bounded table; nine cache policies with their abstract orders, with proofs of all the
   run checks but that evictions end; seven kv-cache policies with their ledger; retry in words, with proofs; map and ring with proofs,
   list and heap; ownership; runner with proofs.
2. *Prove next.* The indices of `KvCache` agree with the driver's; that a push and a pop
   of the heap keep its pairs; what `Ownership` frees.
3. *Model next.* `Opt` with its indexed heap; the nibble packing against separate
   counters, over all bytes.
