--------------------------- MODULE InferenceEngine ---------------------------
(***************************************************************************)
(* The inference engine (inference.rs) with the streamed model             *)
(* (streaming_model.rs), the persistent weights (persistent.rs), the KV    *)
(* cache (kv_cache.rs) and the layer cache sharing one ledger: the engine  *)
(* is constructed, generates any number of times and is dropped.  Every    *)
(* step that can fail (a charge, an allocation, a read, a computation, the *)
(* caller's text callback) may fail, and the error travels to the caller   *)
(* through the clean-up the code performs.                                 *)
(*                                                                         *)
(* Numbers in a tensor, tokens and text are abstracted away; byte sizes,   *)
(* positions and lengths are not.  The staged K/V buffers have exactly the *)
(* capacity asked for, as Vec::try_reserve_exact gives it, so the repeated *)
(* settling of "tmp:forward" finds the charge it wants.                    *)
(***************************************************************************)
EXTENDS LayerStore

CONSTANTS
    NumLayers,      \* block_count
    LayerResident,  \* resident bytes of each layer
    LayerPeak,      \* load_peak_bytes of each layer (module LayerLoad)
    Weights,        \* the persistent weights in load order, [load, resident]
    Output,         \* which of them makes the logits
    ForwardBytes,   \* activations of a forward pass that do not grow
    ScoreBytes,     \* attention scores per position
    DecodedRow,     \* bytes of one row of n_embd floats
    EmbdRow,        \* bytes of one stored row of the embedding matrix
    OutputRow,      \* bytes of one stored row of the output matrix
    LogitsBytes,    \* the logits buffer
    SamplerBytes,   \* the sampler's scratch, 0 for greedy sampling
    KvBytes,        \* K/V bytes of one token over all layers
    Chunk,          \* GROW_CHUNK_TOKENS
    ContextLength,
    Share,          \* STREAM_CHUNK_BUDGET_SHARE
    MaxStreamChunk, \* MAX_STREAM_CHUNK_BYTES
    MaxPrompt,      \* bound on the length of a prompt
    MaxNew,         \* bound on max_tokens
    Totals          \* the RAM budgets considered

ASSUME SizesAssumption ==
    /\ NumLayers \in Nat \ {0} /\ Layers = 1..NumLayers
    /\ \A i \in Layers : /\ LayerResident[i] \in Nat \ {0} /\ LayerPeak[i] \in Nat
                         /\ LayerResident[i] <= LayerPeak[i]
    /\ Output \in DOMAIN Weights
    /\ \A w \in DOMAIN Weights : /\ Weights[w].resident \in Nat \ {0} /\ Weights[w].load \in Nat
                                  /\ Weights[w].resident <= Weights[w].load
    /\ {DecodedRow, ForwardBytes} \subseteq Nat \ {0}
    /\ {EmbdRow, OutputRow} \subseteq 1..DecodedRow
    /\ {KvBytes, Chunk, Share} \subseteq 1..MaxU64
    /\ {ScoreBytes, LogitsBytes, SamplerBytes, MaxStreamChunk,
        ContextLength, MaxPrompt, MaxNew} \subseteq Nat
    /\ Totals \subseteq 1..MaxU64

\* The names the engine charges, by their prefix; each has one bearer.
Only == CHOOSE r \in Rests : TRUE
Weight(w) == <<<<"weight", w>>, Only>>
KvCharge == <<<<"kv_cache", 0>>, Only>>
KvGrowth == <<<<"kv_cache:growth", 0>>, Only>>
Hidden == <<<<"tmp:hidden", 0>>, Only>>
LogitsBuffer == <<<<"tmp:logits", 0>>, Only>>
Forward == <<<<"tmp:forward", 0>>, Only>>
Scratch == <<<<"tmp:scratch", 0>>, Only>>   \* embd_row, sampling, streamed_matvec
LayerName(i) == <<Active(i), Only>>

Temps == {Hidden, LogitsBuffer, Forward, Scratch}

ASSUME NamesAssumption ==
    /\ Rests = {Only}
    /\ Temps \cup {KvCharge, KvGrowth} \cup {Weight(w) : w \in DOMAIN Weights} \subseteq Names

VARIABLES
    budget,   \* the ledger
    cache,    \* the layer cache
    loaded,   \* the persistent weights that are resident
    kv,       \* the KV cache, in the engine or in the running call
    pc,       \* where the engine is
    run,      \* the running generation
    outcome   \* how the last call ended

vars == <<budget, cache, loaded, kv, pc, run, outcome>>

NoKv == [capacity |-> 0, seq_len |-> 0]

\* prompt and max: the request.  pos: the position of the next forward pass
\* (the loop's position, then current_pos).  layer: the layer the pass is at.
\* tokens: generated so far.  scopes: the open with_temp charges.
NoRun == [prompt |-> 0, max |-> 0, pos |-> 0, layer |-> 0, tokens |-> 0, scopes |-> {}]

\* The outcomes of a run that succeeds.
StopReasons == {"Eos", "MaxTokens", "ContextLength"}
Init ==
    /\ \E total \in Totals : budget = NewLedger(total)
    /\ cache = NewCache(0)
    /\ loaded = {}
    /\ kv = NoKv
    /\ pc = "load"
    /\ run = NoRun
    /\ outcome = "None"
-----------------------------------------------------------------------------
(***************************************************************************)
(* Construction: StreamingLlamaModel::load_internal.                       *)
(***************************************************************************)

\* should_keep_resident
KeptResident(w) == Weights[w].resident <= budget.total \div 4

NextWeight == run.layer + 1

\* A construction error: every weight charged so far is rolled back.
LoadFails(b, why) ==
    /\ budget' = ReleasedAll(b, {Weight(w) : w \in loaded})
    /\ loaded' = {}
    /\ outcome' = why
    /\ pc' = "rejected"
    /\ UNCHANGED <<cache, kv, run>>

WeightLoaded(b, kept) ==
    /\ budget' = b
    /\ loaded' = loaded \cup kept
    /\ run' = [run EXCEPT !.layer = NextWeight]
    /\ UNCHANGED <<cache, kv, pc, outcome>>

\* load_persistent_weight.  During construction run.layer counts the weights.
LoadWeight ==
    /\ pc = "load" /\ NextWeight \in DOMAIN Weights
    /\ LET n == Weight(NextWeight)
           load == Weights[NextWeight].load
           charged == Allocated(budget, n, load)
       IN IF ~KeptResident(NextWeight) THEN WeightLoaded(budget, {})
          ELSE IF AllocateResult(budget, n, load) # "Ok" THEN LoadFails(budget, "Short")
          ELSE \/ LoadFails(Released(charged, n), "Fault")
               \/ WeightLoaded(Resized(charged, n, Weights[NextWeight].resident), {NextWeight})

\* What neither the startup peak nor the largest layer leaves to the cache.
ManagedLowerBound ==
    LET peak == CHOOSE p \in {LayerPeak[i] : i \in Layers} : \A i \in Layers : LayerPeak[i] <= p
    IN Larger(budget.peak_used, budget.used + peak)

\* The cache's capacity is the one the configuration asks for.
FinishLoad(capacity) ==
    /\ pc = "load" /\ NextWeight \notin DOMAIN Weights
    /\ IF ManagedLowerBound > budget.total
       THEN LoadFails(budget, "Short")
       ELSE IF capacity > budget.total - ManagedLowerBound
       THEN LoadFails(budget, "Rejected")
       ELSE /\ cache' = NewCache(capacity)
            /\ run' = NoRun
            /\ pc' = "idle"
            /\ UNCHANGED <<budget, loaded, kv, outcome>>
-----------------------------------------------------------------------------
(***************************************************************************)
(* The cache and the ledger a step leaves, and the two ways it ends.       *)
(***************************************************************************)
Store(c, b) == cache' = c /\ budget' = b

Continues(place, c, b) ==
    /\ Store(c, b)
    /\ pc' = place
    /\ UNCHANGED <<loaded, outcome>>

\* An error is returned with `?`; CleanUp shows what its way out does.
Fails(why, c, b) ==
    /\ Store(c, b)
    /\ pc' = "failing"
    /\ outcome' = why
    /\ UNCHANGED <<loaded, kv, run>>

\* ensure_layer_cache_headroom
RoomyCache(bytes) == CacheEvicted(cache, EvictionsFor(cache, budget, bytes))
RoomyBudget(bytes) == BudgetEvicted(cache, budget, EvictionsFor(cache, budget, bytes))

\* clear_layer_cache, on a ledger b.
EmptyCache == CacheEvicted(cache, Len(cache.lru))
WithoutCache(b) == BudgetEvicted(cache, b, Len(cache.lru))

\* A temporary charge that is opened and closed within a step.
Passing(b, bytes) == IF bytes = 0 THEN b ELSE Released(Allocated(b, Scratch, bytes), Scratch)
PassingFits(b, bytes) == bytes = 0 \/ AllocateResult(b, Scratch, bytes) = "Ok"

Needed == run.prompt + run.max
-----------------------------------------------------------------------------
(***************************************************************************)
(* generate_with_callback and generate_impl.                               *)
(***************************************************************************)

\* The release of clear_kv_cache.
WithoutKv(b) == IF Charged(b, KvCharge) THEN Released(b, KvCharge) ELSE b

Generate(prompt, max) ==
    /\ pc = "idle"
    /\ Store(EmptyCache, WithoutCache(WithoutKv(budget)))
    /\ kv' = NoKv
    /\ run' = [NoRun EXCEPT !.prompt = prompt, !.max = max]
    /\ IF prompt = 0 \/ prompt + max > ContextLength
       THEN pc' = "failing" /\ outcome' = "Rejected"
       ELSE pc' = "new_kv" /\ outcome' = "None"
    /\ UNCHANGED loaded

\* KvCache::new_with_budget for the prompt.
NewKv ==
    /\ pc = "new_kv"
    /\ LET bytes == KvBytes * run.prompt
       IN IF AllocateResult(budget, KvCharge, bytes) # "Ok" THEN Fails("Short", cache, budget)
          ELSE \/ Fails("Fault", cache, Released(Allocated(budget, KvCharge, bytes), KvCharge))
               \/ /\ Continues("hidden", cache, Allocated(budget, KvCharge, bytes))
                  /\ kv' = [capacity |-> run.prompt, seq_len |-> 0]
                  /\ UNCHANGED run

\* Opens a with_temp scope around all of the steps that follow.
Opens(n, bytes, place, c, b) ==
    IF AllocateResult(b, n, bytes) # "Ok" THEN Fails("Short", c, b)
    ELSE /\ Continues(place, c, Allocated(b, n, bytes))
         /\ run' = [run EXCEPT !.scopes = @ \cup {n}]
         /\ UNCHANGED kv

OpenHidden == pc = "hidden" /\ Opens(Hidden, DecodedRow, "logits_buffer", cache, budget)

\* The reservation of the hidden buffer may fail before the logits scope opens.
OpenLogits ==
    /\ pc = "logits_buffer"
    /\ \/ Fails("Fault", cache, budget)
       \/ Opens(LogitsBuffer, LogitsBytes, "forward", cache, budget)
-----------------------------------------------------------------------------
(***************************************************************************)
(* forward_single_streaming for the position run.pos.                      *)
(***************************************************************************)
ForwardCharge == ForwardBytes + ScoreBytes * (run.pos + 1)

BeginForward ==
    /\ pc = "forward"
    /\ IF run.pos # kv.seq_len THEN Fails("Position", cache, budget)
       ELSE Opens(Forward, ForwardCharge, "embed",
                  RoomyCache(ForwardCharge), RoomyBudget(ForwardCharge))

\* embedding_workspace_bytes, also what get_embedding_into charges; the
\* embedding matrix is the first weight.
EmbeddingBytes == IF 1 \in loaded THEN DecodedRow ELSE EmbdRow

\* The embedding row, the scratch buffers and the staging tables.
Embed ==
    /\ pc = "embed"
    /\ LET b == RoomyBudget(EmbeddingBytes)
           c == RoomyCache(EmbeddingBytes)
       IN IF ~PassingFits(b, EmbeddingBytes) THEN Fails("Short", c, b)
          ELSE \/ Fails("Fault", c, Passing(b, EmbeddingBytes))
               \/ /\ Continues("layer", c, Passing(b, EmbeddingBytes))
                  /\ run' = [run EXCEPT !.layer = 1]
                  /\ UNCHANGED kv

\* The next layer, or the end of the layers.
NextLayer(c, b) ==
    /\ Continues(IF run.layer = NumLayers THEN "commit" ELSE "layer", c, b)
    /\ run' = [run EXCEPT !.layer = @ + 1]
    /\ UNCHANGED kv

\* A hit: the layer runs under the cache's lock; computing it or staging its
\* K/V may fail.
ExecuteCached ==
    /\ pc = "layer" /\ Cached(cache, run.layer)
    /\ \/ Fails("Fault", Touched(cache, run.layer), budget)
       \/ NextLayer(Touched(cache, run.layer), budget)

(***************************************************************************)
(* A miss: room for the load, then load_layer, which runs short exactly    *)
(* when the estimated peak does not fit and releases what it charged when  *)
(* it fails (module LayerLoad).                                            *)
(***************************************************************************)
LoadMissing ==
    /\ pc = "layer" /\ ~Cached(cache, run.layer)
    /\ LET b == RoomyBudget(LayerPeak[run.layer])
           c == RoomyCache(LayerPeak[run.layer])
           atPeak == Allocated(b, LayerName(run.layer), LayerPeak[run.layer])
       IN IF ~CanAllocate(b, LayerPeak[run.layer]) THEN Fails("Short", c, b)
          ELSE \/ Fails("Fault", c, LayerReleased(atPeak, run.layer))
               \/ /\ Continues("execute", c,
                               Resized(atPeak, LayerName(run.layer), LayerResident[run.layer]))
                  /\ UNCHANGED <<kv, run>>

\* Mutant: a failed computation returns without releasing the layer.
ExecuteLoadedLeaking ==
    /\ pc = "execute"
    /\ \/ Fails("Fault", cache, budget)
       \/ Continues("insert", cache, budget) /\ UNCHANGED <<kv, run>>

\* Computing the layer and staging its K/V; a failure drops and releases it.
ExecuteLoaded ==
    /\ pc = "execute"
    /\ \/ Fails("Fault", cache, LayerReleased(budget, run.layer))
       \/ Continues("insert", cache, budget) /\ UNCHANGED <<kv, run>>

\* insert_loaded, or the release of a layer it declines.
InsertLayer ==
    /\ pc = "insert"
    /\ LET bytes == LayerResident[run.layer]
           k == EvictionsToFit(cache, bytes)
           c == CacheEvicted(cache, k)
           b == BudgetEvicted(cache, budget, k)
       IN IF bytes > cache.capacity
          THEN NextLayer(cache, LayerReleased(budget, run.layer))
          ELSE NextLayer(EntryInserted(c, b, run.layer, bytes),
                         PrefixRenamed(b, Active(run.layer), Resident(run.layer)))

\* The prompt's positions, then one position per generated token.
AfterForward == IF run.pos + 1 < run.prompt THEN "forward"
                ELSE IF run.tokens = run.max THEN "finish" ELSE "logits"

(***************************************************************************)
(* The K/V of all layers is appended, then seq_len advances, then the      *)
(* output norm, which may fail; "tmp:forward" is closed.  After a decode   *)
(* step the generation stops if the context is full.                       *)
(***************************************************************************)
Commit ==
    /\ pc = "commit"
    /\ IF kv.seq_len >= kv.capacity THEN Fails("KvFull", cache, budget)
       ELSE /\ kv' = [kv EXCEPT !.seq_len = @ + 1]
            /\ cache' = cache
            /\ UNCHANGED loaded
            /\ \/ /\ pc' = "failing"
                  /\ outcome' = "Fault"
                  /\ UNCHANGED <<budget, run>>
               \/ /\ budget' = Released(budget, Forward)
                  /\ run' = [run EXCEPT !.pos = @ + 1, !.scopes = @ \ {Forward}]
                  /\ IF run.tokens > 0 /\ run.pos + 1 >= ContextLength
                     THEN pc' = "finish" /\ outcome' = "ContextLength"
                     ELSE pc' = AfterForward /\ outcome' = (IF AfterForward = "finish"
                                                            THEN "MaxTokens" ELSE outcome)
-----------------------------------------------------------------------------
(***************************************************************************)
(* The generation loop.                                                    *)
(***************************************************************************)
DirectF32 == OutputRow = DecodedRow
OutputResident == Output \in loaded

\* logits_workspace_min_bytes
OneRowBytes == IF OutputResident THEN 0
               ELSE IF DirectF32 THEN OutputRow ELSE OutputRow + DecodedRow

Smaller(x, y) == IF x < y THEN x ELSE y

\* The workspace streamed_matvec_into sizes by what is available in b.
MatvecBytes(b) ==
    LET target == Larger(Smaller(Available(b) \div Share, MaxStreamChunk), OutputRow)
        rows == Larger(1, target \div OutputRow)
    IN IF OutputResident THEN 0
       ELSE rows * OutputRow + (IF DirectF32 THEN 0 ELSE DecodedRow)

ComputeLogits ==
    /\ pc = "logits"
    /\ LET b == RoomyBudget(OneRowBytes)
           c == RoomyCache(OneRowBytes)
       IN IF ~PassingFits(b, MatvecBytes(b)) THEN Fails("Short", c, b)
          ELSE \/ Fails("Fault", c, Passing(b, MatvecBytes(b)))
               \/ Continues("sample", c, Passing(b, MatvecBytes(b))) /\ UNCHANGED <<kv, run>>

Sample ==
    /\ pc = "sample"
    /\ LET b == RoomyBudget(SamplerBytes)
           c == RoomyCache(SamplerBytes)
       IN IF ~PassingFits(b, SamplerBytes) THEN Fails("Short", c, b)
          ELSE \/ Fails("Fault", c, Passing(b, SamplerBytes))
               \/ /\ Store(c, Passing(b, SamplerBytes))
                  /\ pc' = "finish" /\ outcome' = "Eos"
                  /\ UNCHANGED <<loaded, kv, run>>
               \/ /\ Continues("emit", c, Passing(b, SamplerBytes))
                  /\ run' = [run EXCEPT !.tokens = @ + 1]
                  /\ UNCHANGED kv

\* The text callback, then the decision whether another token follows.
Emit ==
    /\ pc = "emit"
    /\ \/ Fails("Callback", cache, budget)
       \/ /\ IF run.tokens = run.max THEN pc' = "finish" /\ outcome' = "MaxTokens"
             ELSE IF run.pos + 1 >= ContextLength THEN pc' = "finish" /\ outcome' = "ContextLength"
             ELSE /\ pc' = IF run.pos + 1 > kv.capacity THEN "grow" ELSE "forward"
                  /\ UNCHANGED outcome
          /\ UNCHANGED <<budget, cache, loaded, kv, run>>

ChunkAligned(n) == ((n + Chunk - 1) \div Chunk) * Chunk

\* Mutant: the grown cache holds what is already in it and no more.
GrowthTargetShort == Smaller(ChunkAligned(run.pos), Needed)

GrowthTarget == Smaller(ChunkAligned(run.pos + 1), Needed)

\* Mutant: no room is made for the replacement of the KV cache.
GrowWithoutRoom ==
    /\ pc = "grow"
    /\ LET bytes == KvBytes * GrowthTarget
       IN IF AllocateResult(budget, KvGrowth, bytes) # "Ok" THEN Fails("Short", cache, budget)
          ELSE /\ Continues("forward", cache,
                            ResizeCommitted(Allocated(budget, KvGrowth, bytes),
                                            KvCharge, KvGrowth, bytes))
               /\ kv' = [kv EXCEPT !.capacity = GrowthTarget]
               /\ UNCHANGED run

\* Mutant: a growth that does not fit is tried again.
GrowRetrying ==
    /\ pc = "grow"
    /\ LET bytes == KvBytes * GrowthTarget
           b == RoomyBudget(bytes)
           both == Allocated(b, KvGrowth, bytes)
       IN IF AllocateResult(b, KvGrowth, bytes) # "Ok"
          THEN Continues("grow", RoomyCache(bytes), b) /\ UNCHANGED <<kv, run>>
          ELSE /\ Continues("forward", RoomyCache(bytes),
                            ResizeCommitted(both, KvCharge, KvGrowth, bytes))
               /\ kv' = [kv EXCEPT !.capacity = GrowthTarget]
               /\ UNCHANGED run

\* grow_to_with_budget: old and new buffers are both charged until the swap.
Grow ==
    /\ pc = "grow"
    /\ LET bytes == KvBytes * GrowthTarget
           b == RoomyBudget(bytes)
           c == RoomyCache(bytes)
           both == Allocated(b, KvGrowth, bytes)
       IN IF GrowthTarget <= kv.capacity
          THEN Continues("forward", c, b) /\ UNCHANGED <<kv, run>>
          ELSE IF AllocateResult(b, KvGrowth, bytes) # "Ok" THEN Fails("Short", c, b)
          ELSE IF both.allocations[KvCharge] # KvBytes * kv.capacity
          THEN Fails("KvMismatch", c, Released(both, KvGrowth))
          ELSE \/ Fails("Fault", c, Released(both, KvGrowth))
               \/ IF CommitResizeResult(both, KvCharge, KvGrowth, bytes) # "Ok"
                  THEN Fails("KvCommit", c, both)
                  ELSE /\ Continues("forward", c, ResizeCommitted(both, KvCharge, KvGrowth, bytes))
                       /\ kv' = [kv EXCEPT !.capacity = GrowthTarget]
                       /\ UNCHANGED run

\* The scopes close; the trailing text may fail; the engine keeps the KV
\* cache of a successful run and clears the layer cache.
Finish ==
    /\ pc = "finish"
    /\ LET closed == ReleasedAll(budget, run.scopes)
       IN \/ /\ Store(cache, closed)
             /\ pc' = "failing"
             /\ outcome' = "Callback"
             /\ run' = [run EXCEPT !.scopes = {}]
             /\ UNCHANGED <<loaded, kv>>
          \/ /\ Store(EmptyCache, WithoutCache(closed))
             /\ pc' = "idle"
             /\ run' = NoRun
             /\ UNCHANGED <<loaded, kv, outcome>>

\* The way out of an error: with_temp closes the open scopes, the local KV
\* cache is dropped, generate_with_callback clears both caches.
CleanUp ==
    /\ pc = "failing"
    /\ Store(EmptyCache, WithoutCache(WithoutKv(ReleasedAll(budget, run.scopes))))
    /\ kv' = NoKv
    /\ run' = NoRun
    /\ pc' = "idle"
    /\ UNCHANGED <<loaded, outcome>>

\* Drop: clear_kv_cache, then release_persistent.
Drop ==
    /\ pc = "idle"
    /\ Store(EmptyCache, ReleasedAll(WithoutCache(WithoutKv(budget)), {Weight(w) : w \in loaded}))
    /\ kv' = NoKv
    /\ loaded' = {}
    /\ pc' = "dropped"
    /\ UNCHANGED <<run, outcome>>
-----------------------------------------------------------------------------
GenerationStep ==
    \/ NewKv \/ OpenHidden \/ OpenLogits
    \/ BeginForward \/ Embed \/ ExecuteCached \/ LoadMissing
    \/ ExecuteLoaded \/ InsertLayer \/ Commit
    \/ ComputeLogits \/ Sample \/ Emit \/ Grow
    \/ Finish \/ CleanUp

Next ==
    \/ LoadWeight
    \/ \E capacity \in 0..MaxU64 : FinishLoad(capacity)
    \/ \E prompt \in 0..MaxPrompt, max \in 0..MaxNew : Generate(prompt, max)
    \/ GenerationStep
    \/ Drop

\* A generation runs on one thread and waits for nothing but its own I/O.
Spec == Init /\ [][Next]_vars /\ WF_vars(GenerationStep)
-----------------------------------------------------------------------------
ChargedNames == {n \in Names : Charged(budget, n)}
AtRest == pc \in {"idle", "rejected", "dropped"}

(***************************************************************************)
(* Between calls the ledger holds the resident weights and, after a        *)
(* successful run only, the KV cache, charged by its capacity: no failure  *)
(* at any step leaks a temporary, a loaded layer, a cached layer or a      *)
(* growth reservation, and a dropped or rejected engine leaves nothing.    *)
(***************************************************************************)
NothingLeaksAtRest ==
    AtRest =>
       /\ ChargedNames = {Weight(w) : w \in loaded}
                            \cup (IF kv = NoKv THEN {} ELSE {KvCharge})
       /\ pc = "idle" => (kv # NoKv <=> outcome \in StopReasons)
       /\ pc # "idle" => loaded = {} /\ kv = NoKv

(***************************************************************************)
(* While a KV cache exists its charge is the size of its buffers, through  *)
(* every growth (the "active KV cache <=> kv_cache charge" invariant of    *)
(* clear_kv_cache's comment).                                              *)
(***************************************************************************)
KvChargeMatchesBuffers ==
    /\ kv # NoKv => budget.allocations[KvCharge] = KvBytes * kv.capacity
    /\ kv = NoKv => ~Charged(budget, KvCharge)
    /\ ~Charged(budget, KvGrowth)

(***************************************************************************)
(* Every layer of a forward pass attends to exactly the committed history  *)
(* of its position, the KV cache has room for the position before the pass *)
(* starts, and no position lies beyond prompt + max_tokens.                *)
(***************************************************************************)
HistoryInSync ==
    pc \in {"forward", "embed", "layer", "execute", "insert", "commit"} =>
       /\ kv.seq_len = run.pos
       /\ run.pos < kv.capacity
       /\ kv.capacity <= Needed
       /\ Needed <= ContextLength

(***************************************************************************)
(* The internal errors (position mismatch, KV cache full, KV charge        *)
(* mismatch) and the panic of a failed commit are unreachable.             *)
(***************************************************************************)
InternalErrorsUnreachable ==
    outcome \notin {"Position", "KvFull", "KvMismatch", "KvCommit"}

(***************************************************************************)
(* A generation fails for lack of memory only once no cached layer is left *)
(* to evict: the cache never costs a run its success.                      *)
(***************************************************************************)
ShortOnlyWhenCacheEmpty == pc = "failing" /\ outcome = "Short" => cache.lru = <<>>

(***************************************************************************)
(* A run that is not stopped by the end-of-sequence token delivers exactly *)
(* max_tokens tokens: the context length, checked when it starts, never    *)
(* cuts it short.                                                          *)
(***************************************************************************)
DeliversMaxTokens ==
    /\ outcome # "ContextLength"
    /\ pc = "finish" /\ outcome = "MaxTokens" => run.tokens = run.max
    /\ pc = "finish" /\ outcome = "Eos" => run.tokens < run.max

(***************************************************************************)
(* A streamed output projection runs short of memory only if not even one  *)
(* row of it fits.                                                         *)
(***************************************************************************)
MatvecNeedsOneRow ==
    pc = "logits" =>
       LET b == RoomyBudget(OneRowBytes)
       IN PassingFits(b, OneRowBytes) => PassingFits(b, MatvecBytes(b))

(***************************************************************************)
(* Every generation returns to its caller.                                 *)
(***************************************************************************)
GenerationReturns == pc = "new_kv" ~> pc = "idle"

(***************************************************************************)
(* The ledger is the truth about the engine's memory: during a run the KV  *)
(* cache is charged its buffers, and between runs nothing else is charged. *)
(***************************************************************************)
ChargesMatchState == NothingLeaksAtRest /\ KvChargeMatchesBuffers

(***************************************************************************)
(* A generation proceeds position by position over its own history, never  *)
(* meets one of its internal errors and delivers what was asked for        *)
(* (Engine::generate, forward_token, ensure_capacity).                     *)
(***************************************************************************)
GenerationSound == HistoryInSync /\ InternalErrorsUnreachable /\ DeliversMaxTokens
=============================================================================
