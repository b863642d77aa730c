--------------------------- MODULE AttentionLedger ---------------------------
(* What a kv-cache policy promises, said of token positions and of what was   *)
(* heard of each of them, with none of the arrays a policy keeps it in: which *)
(* positions go when the cache is asked back under its budget.                *)
EXTENDS Naturals, Sequences, FiniteSets, FiniteSetsExt

CONSTANT Denominator  \* the weight that stands for all of the attention

VARIABLES config,  \* the policy and its parameters, see KvCache
          held,    \* the positions in the cache
          heard    \* for each position, what it was told since it joined

Rank(p) == Cardinality({q \in held : q < p})

Newest(n) == {p \in held : Cardinality({q \in held : q > p}) < n}

\* The weights of the last obs observed steps, as far as p was there for them.
Window(p) == LET s == heard[p]
             IN SubSeq(s, (IF Len(s) > config.obs THEN Len(s) - config.obs ELSE 0) + 1, Len(s))

Summed(s) == MapThenSumSet(LAMBDA i : s[i].weight, DOMAIN s)

Beats(note) == note.weight * note.among > Denominator

\* The positions that are near p in the cache and lend it their score.
Near(p) == {q \in held : Rank(q) <= Rank(p) + config.radius /\ Rank(p) <= Rank(q) + config.radius}

(* What each policy ranks a position by: nothing but its age, its last        *)
(* weight, all its weights, the steps on which it beat its fair share, or the *)
(* best recent sum among its neighbours.                                      *)
Score(p) ==
  CASE config.policy \in {"sliding-window", "streaming-llm"} -> 0
    [] config.policy = "tova"         -> heard[p][Len(heard[p])].weight
    [] config.policy = "h2o"          -> Summed(heard[p])
    [] config.policy = "scissorhands" -> Cardinality({i \in DOMAIN heard[p] : Beats(heard[p][i])})
    [] config.policy \in {"snapkv", "pyramidkv"} -> Max({Summed(Window(q)) : q \in Near(p)})

(* The positions a policy may not give up: the sinks, the most recent ones,   *)
(* or the one nothing has been heard of yet.                                  *)
Protected ==
  CASE config.policy = "sliding-window" -> {}
    [] config.policy = "streaming-llm"  -> {p \in held : p < config.secondary}
    [] config.policy = "tova"           -> {p \in held : heard[p] = <<>>}
    [] OTHER                            -> Newest(config.secondary)

Target == IF config.policy = "pyramidkv" /\ config.effective < config.budget
            THEN config.effective ELSE config.budget

Before(p, q) == \/ Score(p) < Score(q)
                \/ Score(p) = Score(q) /\ p < q

\* The lowest scored positions that may go, older ones first among equals.
Victims == LET candidates == held \ Protected
           IN {p \in candidates :
                 Cardinality({q \in candidates : Before(q, p)}) < Cardinality(held) - Target}

Init == /\ held = {0}
        /\ \A p \in DOMAIN heard : heard[p] = <<>>

\* A step tells every held position its weight, or nothing, and adds a token.
Told(p) == \/ heard'[p] = heard[p]
           \/ \E w \in 0..Denominator :
                heard'[p] = Append(heard[p], [weight |-> w, among |-> Cardinality(held)])

Join == \E p \in DOMAIN heard \ held :
          /\ \A q \in held : q < p /\ Told(q)
          /\ held' = held \union {p}
          /\ heard'[p] = <<>>

Evict == /\ Cardinality(held) > config.budget
         /\ held' = held \ Victims
         /\ heard' = [p \in DOMAIN heard |-> IF p \in Victims THEN <<>> ELSE heard[p]]

Next == (Join \/ Evict) /\ UNCHANGED config

Spec == Init /\ [][Next]_<<config, held, heard>>
==============================================================================
