----------------------------- MODULE Ownership ------------------------------
(***************************************************************************)
(* The life of one C policy: created from an allocator that may refuse any *)
(* request, and destroyed.  create and release are scripts of steps, each  *)
(* written from its own function, that a small machine carries out.        *)
(* `free` is told the size of the block it gets, so a release must name    *)
(* what create took, in full; and a creation that fails half way releases  *)
(* a struct of which only some fields have been assigned.                  *)
(***************************************************************************)
EXTENDS Integers, Sequences, FiniteSetsExt

CONSTANTS
    Sizes,      \* the capacities (or max_keys, or budgets) asked for
    PerSlot,    \* a sliding log's limit, an observation window's length
    Struct,     \* sizeof the policy's struct
    MinTable    \* the smallest hash table

ASSUME OwnershipAssumption ==
    /\ Sizes \subseteq Nat
    /\ {PerSlot, Struct, MinTable} \subseteq Nat \ {0}

VARIABLES
    policy,     \* which policy
    size,       \* the capacity it was asked for
    phase,      \* where its life has got to
    todo,       \* what is left of the function being carried out
    fields,     \* the struct's pointers and containers: "null" or "held";
                \* one that has not been assigned is not in the domain
    heap        \* the size of each block that is allocated

vars == <<policy, size, phase, todo, fields, heap>>

-----------------------------------------------------------------------------
(* Steps.  An array is a pair of a field and its size in bytes; a block is *)
(* a field and a number, as a container is a field with several blocks.    *)
Claim(field, bytes, undo) ==
    <<[op |-> "claim", block |-> <<field, 1>>, bytes |-> bytes, undo |-> undo]>>
ClaimPart(field, i, bytes, undo) ==
    <<[op |-> "part", block |-> <<field, i>>, bytes |-> bytes, undo |-> undo]>>
Take(arrays) ==
    [i \in DOMAIN arrays |->
        [op |-> "take", block |-> <<arrays[i][1], 1>>, bytes |-> arrays[i][2]]]
Check(names, undo) == <<[op |-> "check", names |-> names, undo |-> undo]>>
Clear(names) == <<[op |-> "clear", names |-> names]>>
Settle(field) == <<[op |-> "settle", field |-> field]>>
Free(arrays) ==
    [i \in DOMAIN arrays |->
        [op |-> "free", block |-> <<arrays[i][1], 1>>, bytes |-> arrays[i][2]]]
FreePart(field, i, bytes) ==
    <<[op |-> "freePart", block |-> <<field, i>>, bytes |-> bytes]>>
Destroy(field, parts) ==
    <<[op |-> "destroy", field |-> field, parts |-> parts]>>

Larger(x, y) == IF x > y THEN x ELSE y
PowerOfTwo(n, least) ==
    LET p[k \in Nat] == IF k >= n THEN k ELSE p[2 * k]
    IN  p[least]

-----------------------------------------------------------------------------
(* The containers. *)
TableOf(n) == PowerOfTwo(2 * n, MinTable)

(* mutant of InitMap: the keys are kept when there is no room for values *)
InitMapKeepsKeys(field, n, undo) ==
    LET c == TableOf(n)
    IN  Clear({field}) \o ClaimPart(field, 1, 8 * c, undo)
        \o ClaimPart(field, 2, 4 * c, undo)
        \o ClaimPart(field, 3, c, FreePart(field, 1, 8 * c)
                                  \o FreePart(field, 2, 4 * c) \o undo)
        \o Settle(field)

InitMap(field, n, undo) ==
    LET c == TableOf(n)
    IN  Clear({field}) \o ClaimPart(field, 1, 8 * c, undo)
        \o ClaimPart(field, 2, 4 * c, FreePart(field, 1, 8 * c) \o undo)
        \o ClaimPart(field, 3, c, FreePart(field, 1, 8 * c)
                                  \o FreePart(field, 2, 4 * c) \o undo)
        \o Settle(field)
DestroyMap(field, n) ==
    LET c == TableOf(n)
    IN  Destroy(field, FreePart(field, 1, 8 * c) \o FreePart(field, 2, 4 * c)
                       \o FreePart(field, 3, c))
MapBytes(n) == TableOf(n) * (8 + 4 + 1)

InitList(field, n, undo) ==
    Clear({field}) \o ClaimPart(field, 1, 4 * n, undo)
    \o ClaimPart(field, 2, 4 * n, FreePart(field, 1, 4 * n) \o undo)
    \o Settle(field)
DestroyList(field, n) ==
    Destroy(field, FreePart(field, 1, 4 * n) \o FreePart(field, 2, 4 * n))
ListBytes(n) == n * 4 * 2

InitRing(field, n, undo) ==
    Clear({field}) \o ClaimPart(field, 1, 4 * n, undo) \o Settle(field)
DestroyRing(field, n) == Destroy(field, FreePart(field, 1, 4 * n))
RingBytes(n) == n * 4

InitHeap(field, n, undo) ==
    Clear({field}) \o ClaimPart(field, 1, 8 * n, undo)
    \o ClaimPart(field, 2, 4 * n, FreePart(field, 1, 8 * n) \o undo)
    \o Settle(field)
DestroyHeap(field, n) ==
    Destroy(field, FreePart(field, 1, 8 * n) \o FreePart(field, 2, 4 * n))
HeapBytes(n) == n * (8 + 4)

(* A priority queue on its own: no bundled C policy holds one. *)
HeapCreate == InitHeap("queue", size, <<>>)
HeapRelease == DestroyHeap("queue", size)
HeapMemory == HeapBytes(size)

FreeStruct == Free(<< <<"self", Struct>> >>)

-----------------------------------------------------------------------------
(* The cache policies: a slot for every entry and one to spare. *)
Slots == size + 1

FifoRelease == Free(<< <<"slots", 8 * Slots>> >>) \o FreeStruct
FifoCreate ==
    Claim("self", Struct, <<>>)
    \o Claim("slots", 8 * Slots, FreeStruct)
FifoMemory == Struct + Slots * 8

LruRelease ==
    DestroyMap("index", Slots) \o DestroyList("recency", Slots)
    \o Free(<< <<"keys", 8 * Slots>>, <<"free_slots", 4 * Slots>> >>)
    \o FreeStruct

(* mutant of LruCreate: the containers are not marked empty at first *)
LruCreateUnprepared ==
    Claim("self", Struct, <<>>)
    \o Take(<< <<"keys", 8 * Slots>>, <<"free_slots", 4 * Slots>> >>)
    \o Check({"keys", "free_slots"}, LruRelease)
    \o InitMap("index", Slots, LruRelease)
    \o InitList("recency", Slots, LruRelease)

LruCreate ==
    Claim("self", Struct, <<>>)
    \o Clear({"keys", "free_slots", "index", "recency"})
    \o Take(<< <<"keys", 8 * Slots>>, <<"free_slots", 4 * Slots>> >>)
    \o Check({"keys", "free_slots"}, LruRelease)
    \o InitMap("index", Slots, LruRelease)
    \o InitList("recency", Slots, LruRelease)
LruMemory == Struct + Slots * (8 + 4) + MapBytes(Slots) + ListBytes(Slots)

ClockRelease ==
    DestroyMap("index", Slots) \o DestroyRing("order", Slots)
    \o Free(<< <<"keys", 8 * Slots>>, <<"referenced", Slots>>,
               <<"free_slots", 4 * Slots>> >>)
    \o FreeStruct
ClockCreate ==
    Claim("self", Struct, <<>>)
    \o Clear({"index", "order"})
    \o Take(<< <<"keys", 8 * Slots>>, <<"referenced", Slots>>,
               <<"free_slots", 4 * Slots>> >>)
    \o Check({"keys", "referenced", "free_slots"}, ClockRelease)
    \o InitMap("index", Slots, ClockRelease)
    \o InitRing("order", Slots, ClockRelease)
ClockMemory == Struct + Slots * (8 + 1 + 4) + MapBytes(Slots) + RingBytes(Slots)

SieveRelease ==
    DestroyMap("index", Slots)
    \o Free(<< <<"keys", 8 * Slots>>, <<"visited", Slots>>,
               <<"newer", 4 * Slots>>, <<"older", 4 * Slots>>,
               <<"free_slots", 4 * Slots>> >>)
    \o FreeStruct
SieveCreate ==
    Claim("self", Struct, <<>>)
    \o Clear({"index"})
    \o Take(<< <<"keys", 8 * Slots>>, <<"visited", Slots>>,
               <<"newer", 4 * Slots>>, <<"older", 4 * Slots>>,
               <<"free_slots", 4 * Slots>> >>)
    \o Check({"keys", "visited", "newer", "older", "free_slots"}, SieveRelease)
    \o InitMap("index", Slots, SieveRelease)

(* mutant of SieveMemory: one of the two links is not counted *)
SieveMemoryOneLink == Struct + Slots * (8 + 1 + 2 * 4) + MapBytes(Slots)

SieveMemory == Struct + Slots * (8 + 1 + 3 * 4) + MapBytes(Slots)

(* Its ghosts are half its capacity at the default, but never none. *)
Kout == Larger(1, size \div 2)
TwoQueueRelease ==
    DestroyMap("index", Slots) \o DestroyMap("ghost_index", Kout)
    \o DestroyRing("admission", Slots)
    \o DestroyList("main", Slots) \o DestroyList("ghost_list", Kout)
    \o Free(<< <<"keys", 8 * Slots>>, <<"in_main", Slots>>,
               <<"free_slots", 4 * Slots>>,
               <<"ghost_keys", 8 * Kout>>, <<"ghost_free", 4 * Kout>> >>)
    \o FreeStruct
TwoQueueCreate ==
    Claim("self", Struct, <<>>)
    \o Clear({"index", "ghost_index", "admission", "main", "ghost_list"})
    \o Take(<< <<"keys", 8 * Slots>>, <<"in_main", Slots>>,
               <<"free_slots", 4 * Slots>>,
               <<"ghost_keys", 8 * Kout>>, <<"ghost_free", 4 * Kout>> >>)
    \o Check({"keys", "in_main", "free_slots", "ghost_keys", "ghost_free"},
             TwoQueueRelease)
    \o InitMap("index", Slots, TwoQueueRelease)
    \o InitMap("ghost_index", Kout, TwoQueueRelease)
    \o InitRing("admission", Slots, TwoQueueRelease)
    \o InitList("main", Slots, TwoQueueRelease)
    \o InitList("ghost_list", Kout, TwoQueueRelease)
TwoQueueMemory ==
    Struct + Slots * (8 + 1 + 4) + Kout * (8 + 4)
    + MapBytes(Slots) + MapBytes(Kout) + RingBytes(Slots)
    + ListBytes(Slots) + ListBytes(Kout)

(* As many ghosts as the main queue holds: all but a tenth. *)
MainSize == size - Larger(1, size \div 10)
S3FifoRelease ==
    DestroyMap("index", Slots) \o DestroyMap("ghost_index", MainSize)
    \o DestroyRing("small", Slots) \o DestroyRing("main", Slots)
    \o DestroyList("ghost_list", MainSize)
    \o Free(<< <<"keys", 8 * Slots>>, <<"frequency", Slots>>,
               <<"queue_of", Slots>>, <<"free_slots", 4 * Slots>>,
               <<"ghost_keys", 8 * MainSize>>, <<"ghost_free", 4 * MainSize>> >>)
    \o FreeStruct
S3FifoCreate ==
    Claim("self", Struct, <<>>)
    \o Clear({"index", "ghost_index", "small", "main", "ghost_list"})
    \o Take(<< <<"keys", 8 * Slots>>, <<"frequency", Slots>>,
               <<"queue_of", Slots>>, <<"free_slots", 4 * Slots>>,
               <<"ghost_keys", 8 * MainSize>>, <<"ghost_free", 4 * MainSize>> >>)
    \o Check({"keys", "frequency", "queue_of", "free_slots", "ghost_keys",
              "ghost_free"}, S3FifoRelease)
    \o InitMap("index", Slots, S3FifoRelease)
    \o InitMap("ghost_index", MainSize, S3FifoRelease)
    \o InitRing("small", Slots, S3FifoRelease)
    \o InitRing("main", Slots, S3FifoRelease)
    \o InitList("ghost_list", MainSize, S3FifoRelease)
S3FifoMemory ==
    Struct + Slots * (8 + 2 * 1 + 4) + MainSize * (8 + 4)
    + MapBytes(Slots) + MapBytes(MainSize)
    + RingBytes(Slots) + RingBytes(Slots) + ListBytes(MainSize)

LfuRelease ==
    DestroyMap("index", Slots)
    \o Free(<< <<"keys", 8 * Slots>>,
               <<"entry_next", 4 * Slots>>, <<"entry_prev", 4 * Slots>>,
               <<"entry_class", 4 * Slots>>, <<"free_entries", 4 * Slots>>,
               <<"class_freq", 4 * Slots>>, <<"class_head", 4 * Slots>>,
               <<"class_tail", 4 * Slots>>, <<"class_next", 4 * Slots>>,
               <<"class_prev", 4 * Slots>>, <<"free_classes", 4 * Slots>> >>)
    \o FreeStruct
LfuCreate ==
    Claim("self", Struct, <<>>)
    \o Clear({"index"})
    \o Take(<< <<"keys", 8 * Slots>>,
               <<"entry_next", 4 * Slots>>, <<"entry_prev", 4 * Slots>>,
               <<"entry_class", 4 * Slots>>, <<"free_entries", 4 * Slots>>,
               <<"class_freq", 4 * Slots>>, <<"class_head", 4 * Slots>>,
               <<"class_tail", 4 * Slots>>, <<"class_next", 4 * Slots>>,
               <<"class_prev", 4 * Slots>>, <<"free_classes", 4 * Slots>> >>)
    \o Check({"keys", "entry_next", "entry_prev", "entry_class", "free_entries",
              "class_freq", "class_head", "class_tail", "class_next",
              "class_prev", "free_classes"}, LfuRelease)
    \o InitMap("index", Slots, LfuRelease)
LfuMemory == Struct + Slots * 8 + Slots * 10 * 4 + MapBytes(Slots)

(* The entries, as many ghosts, and room for a miss. *)
Directory == 2 * size + 2
ArcRelease ==
    DestroyMap("index", Directory)
    \o Free(<< <<"keys", 8 * Directory>>, <<"next", 4 * Directory>>,
               <<"prev", 4 * Directory>>, <<"list_of", Directory>>,
               <<"free_slots", 4 * Directory>> >>)
    \o FreeStruct
ArcCreate ==
    Claim("self", Struct, <<>>)
    \o Clear({"index"})
    \o Take(<< <<"keys", 8 * Directory>>, <<"next", 4 * Directory>>,
               <<"prev", 4 * Directory>>, <<"list_of", Directory>>,
               <<"free_slots", 4 * Directory>> >>)
    \o Check({"keys", "next", "prev", "list_of", "free_slots"}, ArcRelease)
    \o InitMap("index", Directory, ArcRelease)
ArcMemory == Struct + Directory * (8 + 3 * 4 + 1) + MapBytes(Directory)

(* Four rows of four-bit counters, and a bit each at the door. *)
SketchWidth == PowerOfTwo(8 * size, 1)
SketchBytes == (4 * SketchWidth) \div 2
DoorBytes == SketchWidth \div 8
WTinyLfuRelease ==
    DestroyMap("index", Slots)
    \o Free(<< <<"keys", 8 * Slots>>, <<"next", 4 * Slots>>,
               <<"prev", 4 * Slots>>, <<"segment_of", Slots>>,
               <<"free_slots", 4 * Slots>>,
               <<"sketch", SketchBytes>>, <<"doorkeeper", DoorBytes>> >>)
    \o FreeStruct
WTinyLfuCreate ==
    Claim("self", Struct, <<>>)
    \o Clear({"index"})
    \o Take(<< <<"keys", 8 * Slots>>, <<"next", 4 * Slots>>,
               <<"prev", 4 * Slots>>, <<"segment_of", Slots>>,
               <<"free_slots", 4 * Slots>>,
               <<"sketch", SketchBytes>>, <<"doorkeeper", DoorBytes>> >>)
    \o Check({"keys", "next", "prev", "segment_of", "free_slots", "sketch",
              "doorkeeper"}, WTinyLfuRelease)
    \o InitMap("index", Slots, WTinyLfuRelease)
WTinyLfuMemory ==
    Struct + Slots * (8 + 3 * 4 + 1) + SketchBytes + DoorBytes + MapBytes(Slots)

-----------------------------------------------------------------------------
(* The rate limiters: a table of `size` keys.  The index comes first, and  *)
(* when it cannot be had only the struct has to be given back.             *)
TokenBucketRelease ==
    Free(<< <<"tokens", 4 * size>>, <<"credit", 4 * size>>,
            <<"last", 8 * size>> >>)
    \o DestroyMap("index", size) \o FreeStruct
TokenBucketCreate ==
    Claim("self", Struct, <<>>)
    \o Clear({"tokens", "credit", "last"})
    \o InitMap("index", size, FreeStruct)
    \o Take(<< <<"tokens", 4 * size>>, <<"credit", 4 * size>>,
               <<"last", 8 * size>> >>)
    \o Check({"tokens", "credit", "last"}, TokenBucketRelease)
TokenBucketMemory == Struct + size * (2 * 4 + 8) + MapBytes(size)

LeakyBucketRelease ==
    Free(<< <<"level", 4 * size>>, <<"credit", 4 * size>>,
            <<"last", 8 * size>> >>)
    \o DestroyMap("index", size) \o FreeStruct
LeakyBucketCreate ==
    Claim("self", Struct, <<>>)
    \o Clear({"level", "credit", "last"})
    \o InitMap("index", size, FreeStruct)
    \o Take(<< <<"level", 4 * size>>, <<"credit", 4 * size>>,
               <<"last", 8 * size>> >>)
    \o Check({"level", "credit", "last"}, LeakyBucketRelease)
LeakyBucketMemory == Struct + size * (2 * 4 + 8) + MapBytes(size)

GcraRelease ==
    Free(<< <<"tat", 8 * size>> >>)
    \o DestroyMap("index", size) \o FreeStruct
GcraCreate ==
    Claim("self", Struct, <<>>)
    \o Clear({"tat"})
    \o InitMap("index", size, FreeStruct)
    \o Claim("tat", 8 * size, DestroyMap("index", size) \o FreeStruct)
GcraMemory == Struct + size * 8 + MapBytes(size)

FixedWindowRelease ==
    Free(<< <<"window_start", 8 * size>>, <<"count", 4 * size>> >>)
    \o DestroyMap("index", size) \o FreeStruct
FixedWindowCreate ==
    Claim("self", Struct, <<>>)
    \o Clear({"window_start", "count"})
    \o InitMap("index", size, FreeStruct)
    \o Take(<< <<"window_start", 8 * size>>, <<"count", 4 * size>> >>)
    \o Check({"window_start", "count"}, FixedWindowRelease)
FixedWindowMemory == Struct + size * (8 + 4) + MapBytes(size)

SlidingLogRelease ==
    Free(<< <<"times", 8 * size * PerSlot>>, <<"head", 4 * size>>,
            <<"count", 4 * size>> >>)
    \o DestroyMap("index", size) \o FreeStruct
SlidingLogCreate ==
    Claim("self", Struct, <<>>)
    \o Clear({"times", "head", "count"})
    \o InitMap("index", size, FreeStruct)
    \o Take(<< <<"times", 8 * size * PerSlot>>, <<"head", 4 * size>>,
               <<"count", 4 * size>> >>)
    \o Check({"times", "head", "count"}, SlidingLogRelease)
SlidingLogMemory == Struct + size * PerSlot * 8 + size * 2 * 4 + MapBytes(size)

SlidingCounterRelease ==
    Free(<< <<"window_start", 8 * size>>, <<"current", 4 * size>>,
            <<"previous", 4 * size>> >>)
    \o DestroyMap("index", size) \o FreeStruct
SlidingCounterCreate ==
    Claim("self", Struct, <<>>)
    \o Clear({"window_start", "current", "previous"})
    \o InitMap("index", size, FreeStruct)
    \o Take(<< <<"window_start", 8 * size>>, <<"current", 4 * size>>,
               <<"previous", 4 * size>> >>)
    \o Check({"window_start", "current", "previous"}, SlidingCounterRelease)
SlidingCounterMemory == Struct + size * (8 + 2 * 4) + MapBytes(size)

DualBucketRelease ==
    Free(<< <<"requests", 4 * size>>, <<"request_credit", 4 * size>>,
            <<"tokens", 4 * size>>, <<"token_credit", 4 * size>>,
            <<"last", 8 * size>> >>)
    \o DestroyMap("index", size) \o FreeStruct
DualBucketCreate ==
    Claim("self", Struct, <<>>)
    \o Clear({"requests", "request_credit", "tokens", "token_credit", "last"})
    \o InitMap("index", size, FreeStruct)
    \o Take(<< <<"requests", 4 * size>>, <<"request_credit", 4 * size>>,
               <<"tokens", 4 * size>>, <<"token_credit", 4 * size>>,
               <<"last", 8 * size>> >>)
    \o Check({"requests", "request_credit", "tokens", "token_credit", "last"}, DualBucketRelease)
DualBucketMemory == Struct + size * (4 * 4 + 8) + MapBytes(size)

-----------------------------------------------------------------------------
(* The kv-cache policies: a record for every position held and one more    *)
(* (StreamingLLM without sinks, and PyramidKV at a layer whose share is no *)
(* more than the budget).                                                  *)
SlidingWindowRelease ==
    Free(<< <<"slots", 4 * Slots>> >>) \o FreeStruct
SlidingWindowCreate ==
    Claim("self", Struct, <<>>)
    \o Claim("slots", 4 * Slots, FreeStruct)
SlidingWindowMemory == Struct + Slots * 4

StreamingLlmRelease ==
    Free(<< <<"slots", 4 * Slots>> >>) \o FreeStruct
StreamingLlmCreate ==
    Claim("self", Struct, <<>>)
    \o Claim("slots", 4 * Slots, FreeStruct)
StreamingLlmMemory == Struct + Slots * 4

TovaRelease ==
    Free(<< <<"positions", 4 * Slots>>, <<"last_attn", 8 * Slots>>,
            <<"doomed", Slots>> >>) \o FreeStruct
TovaCreate ==
    Claim("self", Struct, <<>>)
    \o Take(<< <<"positions", 4 * Slots>>, <<"last_attn", 8 * Slots>>,
               <<"doomed", Slots>> >>)
    \o Check({"positions", "last_attn", "doomed"}, TovaRelease)
TovaMemory == Struct + Slots * 4 + Slots * 8 + Slots

H2ORelease ==
    Free(<< <<"positions", 4 * Slots>>, <<"scores", 8 * Slots>>,
            <<"doomed", Slots>> >>) \o FreeStruct
H2OCreate ==
    Claim("self", Struct, <<>>)
    \o Take(<< <<"positions", 4 * Slots>>, <<"scores", 8 * Slots>>,
               <<"doomed", Slots>> >>)
    \o Check({"positions", "scores", "doomed"}, H2ORelease)
H2OMemory == Struct + Slots * 4 + Slots * 8 + Slots

ScissorhandsRelease ==
    Free(<< <<"positions", 4 * Slots>>, <<"votes", 4 * Slots>>,
            <<"doomed", Slots>> >>) \o FreeStruct
ScissorhandsCreate ==
    Claim("self", Struct, <<>>)
    \o Take(<< <<"positions", 4 * Slots>>, <<"votes", 4 * Slots>>,
               <<"doomed", Slots>> >>)
    \o Check({"positions", "votes", "doomed"}, ScissorhandsRelease)
ScissorhandsMemory == Struct + Slots * 4 + Slots * 4 + Slots

SnapKvRelease ==
    Free(<< <<"positions", 4 * Slots>>, <<"history", 4 * Slots * PerSlot>>,
            <<"sums", 8 * Slots>>, <<"pooled", 8 * Slots>>,
            <<"doomed", Slots>> >>) \o FreeStruct
SnapKvCreate ==
    Claim("self", Struct, <<>>)
    \o Take(<< <<"positions", 4 * Slots>>,
               <<"history", 4 * Slots * PerSlot>>, <<"sums", 8 * Slots>>,
               <<"pooled", 8 * Slots>>, <<"doomed", Slots>> >>)
    \o Check({"positions", "history", "sums", "pooled", "doomed"}, SnapKvRelease)
SnapKvMemory ==
    Struct + Slots * 4 + Slots * PerSlot * 4 + Slots * 8 + Slots * 8 + Slots

PyramidKvRelease ==
    Free(<< <<"positions", 4 * Slots>>, <<"history", 4 * Slots * PerSlot>>,
            <<"sums", 8 * Slots>>, <<"pooled", 8 * Slots>>,
            <<"doomed", Slots>> >>) \o FreeStruct
PyramidKvCreate ==
    Claim("self", Struct, <<>>)
    \o Take(<< <<"positions", 4 * Slots>>,
               <<"history", 4 * Slots * PerSlot>>, <<"sums", 8 * Slots>>,
               <<"pooled", 8 * Slots>>, <<"doomed", Slots>> >>)
    \o Check({"positions", "history", "sums", "pooled", "doomed"}, PyramidKvRelease)
PyramidKvMemory ==
    Struct + Slots * 4 + Slots * PerSlot * 4 + Slots * 8 + Slots * 8 + Slots

-----------------------------------------------------------------------------
(* A retry policy is its struct. *)
RetryRelease == FreeStruct
RetryCreate == Claim("self", Struct, <<>>)
RetryMemory == Struct

Policies ==
    {"fifo", "lru", "clock", "sieve", "2q",
     "s3-fifo", "lfu", "arc", "w-tinylfu", "token-bucket",
     "leaky-bucket", "gcra", "fixed-window", "sliding-log", "sliding-counter",
     "dual-bucket", "sliding-window", "streaming-llm", "tova", "h2o",
     "scissorhands", "snapkv", "pyramidkv", "retry", "heap"}

CreateOf ==
    CASE policy = "fifo" -> FifoCreate
      [] policy = "lru" -> LruCreate
      [] policy = "clock" -> ClockCreate
      [] policy = "sieve" -> SieveCreate
      [] policy = "2q" -> TwoQueueCreate
      [] policy = "s3-fifo" -> S3FifoCreate
      [] policy = "lfu" -> LfuCreate
      [] policy = "arc" -> ArcCreate
      [] policy = "w-tinylfu" -> WTinyLfuCreate
      [] policy = "token-bucket" -> TokenBucketCreate
      [] policy = "leaky-bucket" -> LeakyBucketCreate
      [] policy = "gcra" -> GcraCreate
      [] policy = "fixed-window" -> FixedWindowCreate
      [] policy = "sliding-log" -> SlidingLogCreate
      [] policy = "sliding-counter" -> SlidingCounterCreate
      [] policy = "dual-bucket" -> DualBucketCreate
      [] policy = "sliding-window" -> SlidingWindowCreate
      [] policy = "streaming-llm" -> StreamingLlmCreate
      [] policy = "tova" -> TovaCreate
      [] policy = "h2o" -> H2OCreate
      [] policy = "scissorhands" -> ScissorhandsCreate
      [] policy = "snapkv" -> SnapKvCreate
      [] policy = "pyramidkv" -> PyramidKvCreate
      [] policy = "retry" -> RetryCreate
      [] policy = "heap" -> HeapCreate

ReleaseOf ==
    CASE policy = "fifo" -> FifoRelease
      [] policy = "lru" -> LruRelease
      [] policy = "clock" -> ClockRelease
      [] policy = "sieve" -> SieveRelease
      [] policy = "2q" -> TwoQueueRelease
      [] policy = "s3-fifo" -> S3FifoRelease
      [] policy = "lfu" -> LfuRelease
      [] policy = "arc" -> ArcRelease
      [] policy = "w-tinylfu" -> WTinyLfuRelease
      [] policy = "token-bucket" -> TokenBucketRelease
      [] policy = "leaky-bucket" -> LeakyBucketRelease
      [] policy = "gcra" -> GcraRelease
      [] policy = "fixed-window" -> FixedWindowRelease
      [] policy = "sliding-log" -> SlidingLogRelease
      [] policy = "sliding-counter" -> SlidingCounterRelease
      [] policy = "dual-bucket" -> DualBucketRelease
      [] policy = "sliding-window" -> SlidingWindowRelease
      [] policy = "streaming-llm" -> StreamingLlmRelease
      [] policy = "tova" -> TovaRelease
      [] policy = "h2o" -> H2ORelease
      [] policy = "scissorhands" -> ScissorhandsRelease
      [] policy = "snapkv" -> SnapKvRelease
      [] policy = "pyramidkv" -> PyramidKvRelease
      [] policy = "retry" -> RetryRelease
      [] policy = "heap" -> HeapRelease

MemoryOf ==
    CASE policy = "fifo" -> FifoMemory
      [] policy = "lru" -> LruMemory
      [] policy = "clock" -> ClockMemory
      [] policy = "sieve" -> SieveMemory
      [] policy = "2q" -> TwoQueueMemory
      [] policy = "s3-fifo" -> S3FifoMemory
      [] policy = "lfu" -> LfuMemory
      [] policy = "arc" -> ArcMemory
      [] policy = "w-tinylfu" -> WTinyLfuMemory
      [] policy = "token-bucket" -> TokenBucketMemory
      [] policy = "leaky-bucket" -> LeakyBucketMemory
      [] policy = "gcra" -> GcraMemory
      [] policy = "fixed-window" -> FixedWindowMemory
      [] policy = "sliding-log" -> SlidingLogMemory
      [] policy = "sliding-counter" -> SlidingCounterMemory
      [] policy = "dual-bucket" -> DualBucketMemory
      [] policy = "sliding-window" -> SlidingWindowMemory
      [] policy = "streaming-llm" -> StreamingLlmMemory
      [] policy = "tova" -> TovaMemory
      [] policy = "h2o" -> H2OMemory
      [] policy = "scissorhands" -> ScissorhandsMemory
      [] policy = "snapkv" -> SnapKvMemory
      [] policy = "pyramidkv" -> PyramidKvMemory
      [] policy = "retry" -> RetryMemory
      [] policy = "heap" -> HeapMemory

(* Parameters no policy can work with are turned down before anything is   *)
(* allocated: two caches divide their capacity and need one for each part. *)
Accepts == size >= (IF policy \in {"s3-fifo", "w-tinylfu"} THEN 2 ELSE 1)

-----------------------------------------------------------------------------
Init ==
    /\ policy \in Policies
    /\ size \in Sizes
    /\ phase = "new"
    /\ todo = <<>>
    /\ fields = <<>>
    /\ heap = <<>>

Refuse ==
    /\ phase = "new" /\ ~ Accepts
    /\ phase' = "gone"
    /\ UNCHANGED <<policy, size, todo, fields, heap>>

Create ==
    /\ phase = "new" /\ Accepts
    /\ phase' = "creating"
    /\ todo' = CreateOf
    /\ UNCHANGED <<policy, size, fields, heap>>

Step == Head(todo)
At(op) == todo # <<>> /\ Step.op = op

Updated(f, names, value) ==
    [x \in DOMAIN f \cup names |-> IF x \in names THEN value ELSE f[x]]
Without(f, x) == [y \in DOMAIN f \ {x} |-> f[y]]

(* The allocator finds the room. *)
Allocate ==
    /\ At("claim") \/ At("part") \/ At("take")
    /\ heap' = Updated(heap, {Step.block}, Step.bytes)
    /\ fields' = IF Step.op = "part" THEN fields
                 ELSE Updated(fields, {Step.block[1]}, "held")
    /\ todo' = Tail(todo)
    /\ UNCHANGED <<policy, size, phase>>

(* It does not, and create looks at the answer at once ... *)
AllocationFails ==
    /\ At("claim") \/ At("part")
    /\ todo' = Step.undo
    /\ phase' = "releasing"
    /\ fields' = IF Step.op = "part" THEN fields
                 ELSE Updated(fields, {Step.block[1]}, "null")
    /\ UNCHANGED <<policy, size, heap>>

(* ... or keeps it for later, when it has asked for the other arrays. *)
TakeFails ==
    /\ At("take")
    /\ fields' = Updated(fields, {Step.block[1]}, "null")
    /\ todo' = Tail(todo)
    /\ UNCHANGED <<policy, size, phase, heap>>

CheckPasses ==
    /\ At("check")
    /\ \A name \in Step.names : fields[name] # "null"
    /\ todo' = Tail(todo)
    /\ UNCHANGED <<policy, size, phase, fields, heap>>

CheckFails ==
    /\ At("check")
    /\ \E name \in Step.names : fields[name] = "null"
    /\ todo' = Step.undo
    /\ phase' = "releasing"
    /\ UNCHANGED <<policy, size, fields, heap>>

ClearFields ==
    /\ At("clear")
    /\ fields' = Updated(fields, Step.names, "null")
    /\ todo' = Tail(todo)
    /\ UNCHANGED <<policy, size, phase, heap>>

(* A container with all its blocks takes its capacity. *)
SettleContainer ==
    /\ At("settle")
    /\ fields' = Updated(fields, {Step.field}, "held")
    /\ todo' = Tail(todo)
    /\ UNCHANGED <<policy, size, phase, heap>>

FreeBlock ==
    /\ At("free") \/ At("freePart")
    /\ heap' = Without(heap, Step.block)
    /\ todo' = Tail(todo)
    /\ UNCHANGED <<policy, size, phase, fields>>

(* A container of capacity zero has nothing to give back. *)
DestroyContainer ==
    /\ At("destroy")
    /\ LET there == Step.field \in DOMAIN fields /\ fields[Step.field] = "held"
       IN  todo' = (IF there THEN Step.parts ELSE <<>>) \o Tail(todo)
    /\ fields' = Updated(fields, {Step.field}, "null")
    /\ UNCHANGED <<policy, size, phase, heap>>

Finish ==
    /\ todo = <<>>
    /\ \/ phase = "creating" /\ phase' = "ready"
       \/ phase = "releasing" /\ phase' = "gone"
    /\ UNCHANGED <<policy, size, todo, fields, heap>>

DestroyPolicy ==
    /\ phase = "ready"
    /\ phase' = "releasing"
    /\ todo' = ReleaseOf
    /\ UNCHANGED <<policy, size, fields, heap>>

Next ==
    \/ Refuse \/ Create \/ Allocate \/ AllocationFails \/ TakeFails
    \/ CheckPasses \/ CheckFails \/ ClearFields \/ SettleContainer
    \/ FreeBlock \/ DestroyContainer \/ Finish \/ DestroyPolicy

Spec == Init /\ [][Next]_vars

-----------------------------------------------------------------------------
Self == <<"self", 1>>

(* Wherever an allocation failed: every release reads a struct that is     *)
(* still there and a pointer or capacity that has been assigned; what it   *)
(* frees is NULL, or a block that is allocated, in the size it was         *)
(* allocated with, and is freed once.                                      *)
FreesAreTrue ==
    /\ At("free") =>
          /\ Self \in DOMAIN heap
          /\ Step.block[1] \in DOMAIN fields
          /\ fields[Step.block[1]] = "held" => Step.block \in DOMAIN heap
          /\ Step.block \in DOMAIN heap => heap[Step.block] = Step.bytes
    /\ At("freePart") =>
          /\ Step.block \in DOMAIN heap
          /\ heap[Step.block] = Step.bytes
    /\ At("destroy") =>
          /\ Step.field \in DOMAIN fields
          /\ "self" \in DOMAIN fields => Self \in DOMAIN heap

(* A create that returned NULL, at whichever allocation, and a destroy     *)
(* both leave the allocator as it was ("Release everything create          *)
(* allocated", cache.h).                                                   *)
NothingIsLost == phase = "gone" => heap = <<>>

(* memory_bytes tells what the policy holds, to the byte, and a policy     *)
(* that was created has every array it is going to use.                    *)
ReportIsTrue ==
    phase = "ready" =>
        /\ MemoryOf = MapThenSumSet(LAMBDA b : heap[b], DOMAIN heap)
        /\ \A name \in DOMAIN fields : fields[name] = "held"
=============================================================================
