------------------------------- MODULE KvCache -------------------------------
(* The seven kv-cache policies of the C library and the harness that drives   *)
(* them. A policy sees attention by index, weights[i] for the i-th position   *)
(* it holds, so its arrays must keep the harness's order through every        *)
(* eviction, and a slot that is used again must forget who had it before.     *)
(* Arrays keep what was last written past their size, as the code's do.       *)
EXTENDS Integers, Sequences, FiniteSets, FiniteSetsExt, SequencesExt

CONSTANTS Policies,     \* which of the seven
          Budgets,      \* what a cache may hold between steps
          Weights,      \* attention weights, in parts of Denominator
          Denominator,
          Buffers,      \* room for victims that a caller may offer
          Horizon       \* bound: decode steps and budget together

ASSUME KvAssumption == /\ Budgets \subseteq Nat \ {0, 1}
                       /\ Weights \subseteq 0..Denominator

VARIABLES config,     \* policy, budget and what create derives from them
          positions,  \* slots or positions: the held tokens, in order
          head,       \* where the ring of the two window policies starts
          size,
          sinksHeld,  \* of streaming-llm, which keeps its sinks outside the ring
          measure,    \* last_attn, scores or votes, by index
          history,    \* recent weights, by index and ring slot
          slot,       \* the ring slot the next observed step writes
          victims,    \* the harness's buffer, which the policy writes
          kept,       \* the harness's own list of what is held
          heard,      \* what the harness told of each position since it joined
          phase

policyVars == <<positions, head, size, sinksHeld, measure, history, slot>>
vars == <<config, positions, head, size, sinksHeld, measure, history, slot, victims, kept, heard, phase>>

Unobserved == -1

------------------------------------------------------------------------------
(* Creation, with the parameters the fuzzing harness makes of two numbers.    *)

Ceil(a, b) == IF a > b THEN a ELSE b

\* A layer's share of the budget: shallow layers get more, deep ones less.
PyramidBudget(budget, layer, layers, ratio) ==
  IF layers <= 1 THEN budget
  ELSE (2 * budget * (ratio * (layers - 1) - layer * (ratio - 1))) \div ((ratio + 1) * (layers - 1))

Plain(policy, budget, secondary) ==
  [policy |-> policy, budget |-> budget, secondary |-> secondary, capacity |-> budget + 1,
   obs |-> 1, radius |-> 0, effective |-> budget]

Streaming(budget, secondary) ==
  [Plain("streaming-llm", budget, secondary) EXCEPT !.capacity = budget - secondary + 1]

Snap(budget, secondary) ==
  [Plain("snapkv", budget, secondary) EXCEPT !.obs = 1 + (secondary % 4), !.radius = secondary % 3]

\* mutant of Pyramid: room for the layer's share only
PyramidUnderBudget(budget, secondary) ==
  LET layers == 1 + (secondary % 4)
      share  == PyramidBudget(budget, secondary % layers, layers, 1 + (secondary % 5))
      least  == Ceil(share, secondary + 1)
  IN [Plain("pyramidkv", budget, secondary) EXCEPT
        !.obs = 1 + (secondary % 4), !.radius = secondary % 3,
        !.effective = least, !.capacity = least + 1]

Pyramid(budget, secondary) ==
  LET layers == 1 + (secondary % 4)
      share  == PyramidBudget(budget, secondary % layers, layers, 1 + (secondary % 5))
      least  == Ceil(share, secondary + 1)
  IN [Plain("pyramidkv", budget, secondary) EXCEPT
        !.obs = 1 + (secondary % 4), !.radius = secondary % 3,
        !.effective = least, !.capacity = Ceil(least, budget) + 1]

Build(policy, budget, secondary) ==
  CASE policy = "streaming-llm" -> Streaming(budget, secondary)
    [] policy = "snapkv"        -> Snap(budget, secondary)
    [] policy = "pyramidkv"     -> Pyramid(budget, secondary)
    [] OTHER                    -> Plain(policy, budget, secondary)

Configs == {Build(policy, budget, secondary) :
              policy \in Policies, budget \in Budgets, secondary \in 1..Max(Budgets) - 1}

Is(policy) == config.policy = policy
Indices == 0..config.capacity - 1
Scored == {"tova", "h2o", "scissorhands"}
Observing == {"snapkv", "pyramidkv"}

Init ==
  /\ config \in {c \in Configs : c.secondary < c.budget}
  /\ positions = [i \in Indices |-> 0]
  /\ head = 0
  /\ sinksHeld = IF Is("streaming-llm") THEN 1 ELSE 0
  /\ size = 1 - sinksHeld
  /\ measure = [i \in Indices |-> IF Is("tova") THEN Unobserved ELSE 0]
  /\ history = [i \in Indices |-> [s \in 0..config.obs - 1 |-> 0]]
  /\ slot = 0
  /\ victims = <<>>
  /\ kept = <<0>>
  /\ heard = [p \in 0..Horizon - config.budget |-> <<>>]
  /\ phase = "decode"

------------------------------------------------------------------------------
(* on_decode_step. attn is what the harness gathered, one weight for each of  *)
(* its own kept positions in ascending order; <<>> is a null vector.          *)

HasRoom == size < config.capacity

Shared(attn) == {i \in 0..size - 1 : i < Len(attn)}

Appended(pos) == /\ HasRoom
                 /\ positions' = [positions EXCEPT ![size] = pos]
                 /\ size' = size + 1

\* mutant of RingAppended: counted from the first slot, not from the head
RingAppendedFromStart(pos) == /\ HasRoom
                              /\ positions' = [positions EXCEPT ![size % config.capacity] = pos]
                              /\ size' = size + 1

RingAppended(pos) == /\ HasRoom
                     /\ positions' = [positions EXCEPT ![(head + size) % config.capacity] = pos]
                     /\ size' = size + 1

SlidingWindowStep(pos) ==
  /\ Is("sliding-window")
  /\ RingAppended(pos)
  /\ UNCHANGED <<head, sinksHeld, measure, history, slot>>

StreamingSink(pos) ==
  /\ Is("streaming-llm")
  /\ pos < config.secondary
  /\ sinksHeld' = sinksHeld + 1
  /\ UNCHANGED <<positions, head, size, measure, history, slot>>

StreamingStep(pos) ==
  /\ Is("streaming-llm")
  /\ pos >= config.secondary
  /\ RingAppended(pos)
  /\ UNCHANGED <<head, sinksHeld, measure, history, slot>>

\* votes: what the slots that attn reaches are measured as from now on.
Measured(votes, fresh) ==
  measure' = [i \in Indices |-> IF i = size THEN fresh
                                ELSE IF i \in DOMAIN votes THEN votes[i] ELSE measure[i]]

TovaStep(pos, attn) ==
  /\ Is("tova")
  /\ Measured([i \in Shared(attn) |-> attn[i + 1]], Unobserved)
  /\ Appended(pos)
  /\ UNCHANGED <<head, sinksHeld, history, slot>>

H2oStep(pos, attn) ==
  /\ Is("h2o")
  /\ Measured([i \in Shared(attn) |-> measure[i] + attn[i + 1]], 0)
  /\ Appended(pos)
  /\ UNCHANGED <<head, sinksHeld, history, slot>>

\* A weight that only matches the fair share 1/attn_len is no vote.
FairVote(weight, length) == IF weight * length > Denominator THEN 1 ELSE 0

ScissorhandsStep(pos, attn) ==
  /\ Is("scissorhands")
  /\ Measured([i \in Shared(attn) |-> measure[i] + FairVote(attn[i + 1], Len(attn))], 0)
  /\ Appended(pos)
  /\ UNCHANGED <<head, sinksHeld, history, slot>>

\* mutant of Recorded: the slot's last owner is still in its history
RecordedOver(attn) ==
  [i \in Indices |->
     IF i \in Shared(attn) THEN [history[i] EXCEPT ![slot] = attn[i + 1]]
     ELSE history[i]]

Recorded(attn) ==
  [i \in Indices |->
     IF i = size THEN [s \in DOMAIN history[i] |-> 0]
     ELSE IF i \in Shared(attn) THEN [history[i] EXCEPT ![slot] = attn[i + 1]]
     ELSE history[i]]

\* A null vector leaves the ring of observed steps where it is.
ObservedSlot(attn) == IF attn = <<>> THEN slot ELSE (slot + 1) % config.obs

SnapkvStep(pos, attn) ==
  /\ Is("snapkv")
  /\ history' = Recorded(attn)
  /\ slot' = ObservedSlot(attn)
  /\ Appended(pos)
  /\ UNCHANGED <<head, sinksHeld, measure>>

PyramidkvStep(pos, attn) ==
  /\ Is("pyramidkv")
  /\ history' = Recorded(attn)
  /\ slot' = ObservedSlot(attn)
  /\ Appended(pos)
  /\ UNCHANGED <<head, sinksHeld, measure>>

OnDecodeStep(pos, attn) ==
  \/ SlidingWindowStep(pos) \/ StreamingSink(pos) \/ StreamingStep(pos)
  \/ TovaStep(pos, attn) \/ H2oStep(pos, attn) \/ ScissorhandsStep(pos, attn)
  \/ SnapkvStep(pos, attn) \/ PyramidkvStep(pos, attn)

------------------------------------------------------------------------------
(* evict. A buffer too small for all that must go is refused outright.       *)

\* The indices before the recent window, which are the ones that may go.
Evictable == 0..size - Min({config.secondary, size}) - 1

Excess == IF Is("streaming-llm") THEN Min({sinksHeld + size - config.budget, size})
          ELSE IF Is("pyramidkv") THEN size - Min({config.budget, config.effective})
          ELSE size - config.budget

RingDropped(n) ==
  /\ victims' = [i \in 1..n |-> positions[(head + i - 1) % config.capacity]]
  /\ head' = (head + n) % config.capacity
  /\ size' = size - n
  /\ UNCHANGED <<positions, sinksHeld, measure, history, slot>>

SlidingWindowEvict == Is("sliding-window") /\ RingDropped(size - config.budget)

\* The sinks stay, so no more than the window can go.
StreamingEvict ==
  Is("streaming-llm") /\ RingDropped(Min({sinksHeld + size - config.budget, size}))

\* The n lowest by score, the lower index first: what repeated argmin finds.
Lowest(n, candidates, score) ==
  {i \in candidates :
     Cardinality({j \in candidates : score[j] < score[i] \/ (score[j] = score[i] /\ j < i)}) < n}

Ascending(indices) == SetToSortSeq(indices, <)

\* One pass over an array moves the survivors down; what lies past them stays.
Compacted(array, doomed) ==
  LET stay == Ascending((0..size - 1) \ doomed)
  IN [i \in DOMAIN array |-> IF i < Len(stay) THEN array[stay[i + 1]] ELSE array[i]]

Removed(doomed) ==
  /\ victims' = LET gone == Ascending(doomed) IN [i \in DOMAIN gone |-> positions[gone[i]]]
  /\ positions' = Compacted(positions, doomed)
  /\ measure' = Compacted(measure, doomed)
  /\ history' = Compacted(history, doomed)
  /\ size' = size - Cardinality(doomed)
  /\ UNCHANGED <<head, sinksHeld, slot>>

\* A position nothing was heard of yet has no weight to be ranked by.
TovaEvict ==
  /\ Is("tova")
  /\ Removed(Lowest(size - config.budget, {i \in 0..size - 1 : measure[i] # Unobserved}, measure))

H2oEvict == Is("h2o") /\ Removed(Lowest(size - config.budget, Evictable, measure))

ScissorhandsEvict == Is("scissorhands") /\ Removed(Lowest(size - config.budget, Evictable, measure))

Sums == [i \in 0..size - 1 |-> FoldFunction(+, 0, history[i])]

Pooled == [i \in 0..size - 1 |->
             Max({Sums[j] : j \in {j \in 0..size - 1 : j <= i + config.radius /\ i <= j + config.radius}})]

SnapkvEvict == Is("snapkv") /\ Removed(Lowest(size - config.budget, Evictable, Pooled))

\* The tighter of the caller's budget and this layer's share.
PyramidkvEvict ==
  /\ Is("pyramidkv")
  /\ Removed(Lowest(size - Min({config.budget, config.effective}), Evictable, Pooled))

Evict == \/ SlidingWindowEvict \/ StreamingEvict \/ TovaEvict \/ H2oEvict
         \/ ScissorhandsEvict \/ SnapkvEvict \/ PyramidkvEvict

------------------------------------------------------------------------------
(* The harness: a decode step, the new token joins, and if the cache is then  *)
(* over its budget the policy is asked for victims, which must be held.       *)

\* Only a policy that never ranks on the latest weight may miss a step of it.
Attentions == (IF Is("tova") THEN {} ELSE {<<>>}) \union
              (IF config.policy \in Scored \union Observing THEN [DOMAIN kept -> Weights] ELSE {})

Told(attn, pos) ==
  [p \in DOMAIN heard |->
     IF attn # <<>> /\ \E i \in DOMAIN kept : kept[i] = p
       THEN LET i == CHOOSE i \in DOMAIN kept : kept[i] = p
            IN Append(heard[p], [weight |-> attn[i], among |-> Len(kept)])
       ELSE heard[p]]

Decode ==
  /\ phase = "decode"
  /\ \E attn \in Attentions :
       LET pos == kept[Len(kept)] + 1
       IN /\ pos \in DOMAIN heard
          /\ OnDecodeStep(pos, attn)
          /\ kept' = Append(kept, pos)
          /\ heard' = Told(attn, pos)
  /\ phase' = IF Len(kept') > config.budget THEN "evict" ELSE "decode"
  /\ UNCHANGED <<config, victims>>

\* Each victim must be held and be named once; then the list is rebuilt.
Shrink ==
  /\ phase = "evict"
  /\ \E buffer \in Buffers : Excess <= buffer
  /\ Evict
  /\ kept' = SelectSeq(kept, LAMBDA p : p \notin Range(victims'))
  /\ heard' = [p \in DOMAIN heard |-> IF p \in Range(victims') THEN <<>> ELSE heard[p]]
  /\ phase' = IF ~ (Range(victims') \subseteq Range(kept) /\ IsInjective(victims')) THEN "reported"
              ELSE IF Len(kept') > config.budget THEN "overfull" ELSE "decode"
  /\ UNCHANGED config

Refused ==
  /\ phase = "evict"
  /\ \E buffer \in Buffers : Excess > buffer
  /\ phase' = "overfull"
  /\ victims' = <<>>
  /\ UNCHANGED <<config, policyVars, kept, heard>>

Next == Decode \/ Shrink \/ Refused

Spec == Init /\ [][Next]_vars

------------------------------------------------------------------------------
Order == IF config.policy = "sliding-window" \/ config.policy = "streaming-llm"
           THEN [i \in 1..sinksHeld |-> i - 1] \o
                [i \in 1..size |-> positions[(head + i - 1) % config.capacity]]
           ELSE [i \in 1..size |-> positions[i - 1]]

(* The i-th position a policy believes it holds is the i-th the harness       *)
(* holds, whatever rings turned and arrays were compacted between: on it      *)
(* rests that attn[i] is about that position (kv_cache.h:81-90).              *)
IndexesAgree == Order = kept

(* The assertions and reports of the code: between steps a policy has room    *)
(* for the next token (its own assert), every victim was held and named once, *)
(* and, offered a buffer that takes them, victims bring the cache within its  *)
(* budget (pb_fuzz_kvcache_once).                                             *)
EvictionSuffices ==
  /\ phase = "decode" => /\ Len(kept) <= config.budget
                         /\ HasRoom
  /\ phase # "reported"
  /\ phase = "overfull" => victims = <<>> /\ \E buffer \in Buffers : Excess > buffer

Ledger == INSTANCE AttentionLedger WITH held <- Range(kept)

(* What goes is what a ledger by position would let go: the oldest, or the    *)
(* lowest by last, total, voted or pooled recent attention of its own, and    *)
(* never a protected position. No array slot remembers another position's     *)
(* attention.                                                                 *)
ImplementsLedger == Ledger!Spec
==============================================================================
