# RAMforge in TLA+

RAMforge runs GGUF language models in less memory than they take: it plans how
to run a model within a memory budget, streams layers from the file, keeps what
fits, charges every byte to a ledger, and hands pages of a memory-mapped model
back to the system when a residency policy asks for it. This directory holds a
model of it: TLA+ modules translated from the Rust source, TLC configurations
that check them on small instances, and proofs checked by TLAPS.

Paths below are relative to `src/crates/`.

## 1. The system

| Component | State | Operations | Talks to |
|---|---|---|---|
| Memory ledger (`ramforge-core/src/memory.rs`) | total, used, peak, charges by name | allocate, release, resize, commit_resize, rename_prefix, with_temp | every component charges it |
| Bounded cache (`ramforge-core/src/cache.rs`, `ramforge-runtime/src/lib.rs`) | entries, recency list, used bytes | get, insert, get_or_load, remove, clear, each with and without a ledger | the ledger, builders that read tensors |
| Layer cache (`ramforge-runtime/src/layer_cache.rs`) | entries with their charge names, LRU list, used bytes, capacity | with_entry, insert_loaded, evict_until_available, clear | renames charges in the ledger; called under a lock by the streaming model |
| Layer loading (`layer_read.rs`, `accounting.rs`, `streaming_model.rs::load_layer`) | the read plan and the estimates of each layer | build_layer_read_plan, estimate_*, load_layer in three modes, release_layer | the data source, the ledger |
| Inference engine (`inference.rs`, `streaming_model.rs`, `kv_cache.rs`, `persistent.rs`) | resident weights, KV cache, layer cache, open temporary charges | load, generate_with_callback, clear_kv_cache, drop | all of the above |
| Supervisor (`ramforge-cli/src/supervisor.rs`, `cgroup.rs`) | the child, its cgroup, the timeout | run_supervised, MemoryCgroup::create, stats, remove | the kernel and the child |
| Residency engine (`residency_engine.rs`, `resource_lifetime.rs`) | inventory and its generation, lifecycle, last plan, lifetime tracker of each tensor | plan_with_profile, staging_plan, apply_last_plan, begin/finish decode, refresh, recover | the native model (ForgeCore), the caller in `main.rs` |
| Residency-managed run (`ramforge-cli/src/main.rs`) | where the run is | run_forgecore_inference, decode_with_residency | the manager, the native session |
| ForgeCore run (`forgecore.rs`, `execution.rs`, `main.rs`) | device, model, context, positions | resolve, load, decode, sample | the native library |
| Prediction (`prediction.rs`, `prediction_planner.rs`, `main.rs`) | profile and history files, a run's predictions and staging | predict, plan_predictions, feedback, evaluate | inventory, admission, native prefetch |
| Prediction simulator (`prediction_sim.rs`) | resident set, budget, costs | run of each strategy | the prediction code itself |
| Planning (`planner.rs`, `plan_compiler.rs`, `plan.rs`, `runtime_config.rs`) | none | plan_model, capabilities, plan, compile | calibration, analysis |
| Calibration (`calibration.rs`) | task list, samples, limits | build a plan, run it | the clock, storage |
| Plan persistence (`plan_persistence.rs`) | plan files | save_new, load, compatibility | the file system, other instances |
| Orchestration (`orchestration.rs`) | a session with its opened model | analyze, plan, compile, activate | all of planning |
| Observation (`page_residency.rs`, `execution_profile.rs`, `graph_manifest.rs`) | a walk and its snapshots; manifests and profiles | observe, correlate; build, merge | mincore, native traces |
| Measurements (`memory_ledger.rs`, `memory_report.rs`, `cgroup.rs`) | readings and what they were derived from | capture, admit, ledger | /proc, cgroup files |
| Resource accounting (`ramforge-core/src/resource.rs`) | resources, and the owner of each allocation | insert, remove, snapshot | |
| Model files (`gguf.rs`, `model_set.rs`, `datasource.rs`) | shard set, locked file handles | discover, open, read, read_coalesced | the file system, reading threads |
| Tokenizer (`tokenizer.rs`) | vocabulary, streaming decoder | encode, decode_stream | the engine |
| Terminal interface (`ramforge-cli/src/tui/app.rs`, `mod.rs`, `terminal.rs`) | screen, settings, session, runtime, run history; raw mode, pending bytes | one handler per screen, one executed action per request; read_key, draw | orchestration, persistence, the engine |

What is hard here: several holders of memory compete for one ledger, each may
fail at any charge, read or callback, and whatever the failure, what it charged
has to come back; estimates made when a model is loaded decide much later
whether a layer is read at all; caches are evicted by those who need their
room; a child process, the kernel's OOM killer and a timeout race each other;
pages of a model are given back, staged and counted on the strength of
observations that may be old by then; a plan made on one machine is loaded on
another, from a file that a crash may have cut; and a user may press any key on
any screen while sessions, plans and runtimes come and go behind it. There is
little concurrency inside the engine (one thread and a lock), a lot of it
between the program and its surroundings: the kernel, the child, the file
system, a second instance, the terminal. `PROJECT.json` lists the hazards line
by line with the properties that would catch them.

## 2. The modules

| Module | Models | How |
|---|---|---|
| `Budget` | `MemoryBudget`'s operations | one pair of operators per operation: the result and the ledger after it. A name is a pair of prefix and rest. Counters are u64 up to `MaxU64`. |
| `MemoryBudget` | the ledger with its callers | one action per operation, a stack of `with_temp` scopes, panics unwinding through them |
| `LruList` | the recency lists of both caches | what stays of a list, its oldest keys, and how many an eviction loop takes |
| `BoundedCache` | the bounded cache on that ledger | the budgeted and the plain form of each operation; builders that fail or panic |
| `LayerStore` | the layer cache's data and `release_layer` | operators on a cache record and a ledger, shared by the next modules |
| `LayerCache` | `LayerCache` and its clients | one action per call; the eviction loops one iteration per step |
| `LayerLoad` | read plan, estimates, `load_layer` | plan and estimates as operators; the load as one action per charge and read, in its three modes |
| `InferenceEngine` | engine load, generation, drop | one action per stage of a forward pass and of the generation loop; evictions by the operators of `LayerStore` |
| `Supervisor` | `run_supervised`, `MemoryCgroup` | one action per system call; kernel, child and clock as environment |
| `ResidencyPlanner` | sharing analysis, release plan, staging plan | pure operators |
| `PlannerCases` | every plan over a set of inventories | compares the operators with definitions on sets of pages |
| `ResidencyManager` | `ResidencyManager`, `ResidencyLifecycle`, `ResourceLifetime` | one action per call, in any order the lifecycle accepts; native contexts as environment |
| `ResidencyRun` | the residency calls `main.rs` makes | the manager's actions in the caller's order, with failures |
| `ForgeCoreRun` | device resolution and the decode loop | one action per native call, each of which may be refused |
| `Prediction` | manifests, profiles and their merging; confidence, predictions, staging, scoring | operators on traces, profile, history and inventory |
| `PredictionRuns` | runs one after the other over the same files | one action per step of a run; the process may die between any two; the model may be replaced between runs |
| `PredictionSim` | the simulator | one action per access, load and eviction |
| `PageResidency` | observation around a prefetch | one action per mincore call, the kernel moving pages in between |
| `MemoryLedger` | measurements, admission, ledger | one action per reading, the kernel moving pages in between |
| `ResourceAccounting` | the registry | one action per operation; exact, estimated and unknown bytes |
| `ExecutionPlanner` | `plan_model`, capabilities, candidates, costs, the chosen plan; the checks of the compiler, in order | pure operators |
| `PlanPersistence` | the file format, structural checks, compatibility | encoding and decoding as operators on cells |
| `Calibration` | task list and runner | one action per set-up, warm-up, sample and task; time passes in each |
| `PlanFile` | what saving and loading promises | abstract specification |
| `PlanStore` | `save_new` and `load`, cell by cell | pieces written and read, crashes, power loss, another instance |
| `PlanLifecycle` | a plan's life | composes `Calibration`, planning and compiling with an instance of `PlanStore` under a changing environment |
| `GgufSource` | shard discovery, validation, reads | validation as operators; a read one locked piece at a time |
| `Tokenizer` | encoders and streaming decoder | operators; one action per token |
| `Terminal` | raw mode and what its end fails to restore, key decoding, frames | one action per byte and per timeout |
| `TuiConfig`, `TuiApp` | settings, sessions, screens, executed actions | one action per screen handler and per executed action; what each stage of the orchestration may return and leaves of the session |
| `BudgetProofs`, `LayerStoreProofs` | | lemmas: what the operations of the ledger and of the layer cache preserve, what the sums, folds and orderings of the models compute |
| `MemoryBudgetProofs` | | theorems about the ledger, the bounded cache, the memory measurements, the page observation and the registry of resources |
| `LayerCacheProofs` | | theorems about the layer cache, the data source, the terminal session and the prefetch simulation |
| `InferenceEngineProofs`, `TuiAppProofs` | | theorems about those modules |
| `RunProofs` | | theorems about the residency manager, the residency-managed run, the ForgeCore run and the life of a plan |
| `HostProofs` | | theorems about the supervised run, the plan files and the loading of layers |
| `MC*` | | the constants of the runs |

How they compose: `BoundedCache` extends `MemoryBudget`; it and `LayerStore`
use `LruList`. `LayerCache`,
`LayerLoad` and `InferenceEngine` use `LayerStore` and `Budget`; what
`InferenceEngine` assumes of a load (it runs short exactly when the estimated
peak does not fit, a failure gives everything back) is what `LayerLoad` checks,
and what it assumes of evictions (the fewest that suffice) is what `LayerCache`
checks step by step. `ResidencyRun` composes the manager with its caller, and
the manager, `PlannerCases` and `Prediction` all use `ResidencyPlanner`.
`PredictionSim` and `PredictionRuns` both extend `Prediction`, as the simulator
and production share that code. `PlanPersistence` extends `ExecutionPlanner`, and `PlanLifecycle` puts them,
the calibration and the file together.

`MCAlgorithms` gathers thirteen components that share no state. `turn` says
which of them a behaviour is about; it alone takes steps, from every initial
state its constants allow, and the others stay where they are. Behaviours of
different turns never meet, so the run is thirteen separate checks in one.
`MCRuns` does the same for the two ways of running a model, with their liveness:
the supervised run begins once the residency-managed one has returned.

`PROJECT.json` maps every definition that models code to its lines. Definitions
commented `Mutant:` are wrong variants of the one that follows them; each is
what a plausible bug would make of the code, and each property of a passing run
fails when its mutant replaces the definition.

### Abstractions

* Tensors, weights and layers are sizes. Token values, logits and activations
  are left out: a sampled token either is the end token or is not.
* A read, a decode or a callback may fail at every place where the code handles
  a failure; a failure is one outcome per place.
* A name of a charge is a pair, since the code finds the charges of a layer by
  prefix; a prefix match is equality of the first component.
* An empty tensor is charged 1 byte, as in `accounting.rs`.
* In the manager, a call that returns an error without changing anything is not
  a step, except `apply_last_plan`, whose refusals are kept in `outcome`.
  `ShuttingDown` and the lifetime states that need events no code sends
  (`ContextReferenced`, `ExecutionSubmitted`, ...) are left out.
* Profiles of machines, models and storage are records of the facts that a
  decision reads; fingerprints and paths are model values, and an identifier
  that is a hash is the tuple of what is hashed.
* A plan's encoding is a sequence of cells, a cell being one number, tag or
  string; an optional value is a presence cell and maybe the value, a list its
  count and its items. A write, a read or a power loss
  cuts between two cells, at the places `Cuts` names.
* A file of a model set is what its header says; its byte at position p is the
  pair of its name and p, so that a read returns the right bytes only if it
  read the right place of the right file.
* The tokenizer's alphabet is small and has a character of two bytes, the two
  space marks and the byte alphabet's letters for those two bytes.
* Texts typed into the interface are empty, invalid, or the value they parse
  to; error lines, numbers shown and live counters are left out, because
  nothing that moves a screen reads them.
* The native library is external: what `src/` calls may succeed or be refused.

## 3. The runs

| Run | Question | Bounds, and why they suffice |
|---|---|---|
| `memory_budget` | Does `used` stay the sum of the charges, is a resize refused only for what does not fit, does every scope return its charge, and is a bounded cache charged exactly its entries, in every order of calls, builder failures and panics? | 2 bytes of budget in a u64 of at most 3, 4 prefixes of 2 names, 2 nested scopes: full ledgers, sums beyond the counter's width, rename collisions, a committed resize beside a live charge, evictions by an insertion, nested unwinding |
| `layer_cache` | Do cache, list and ledger agree inside every eviction loop, are evictions the fewest that suffice and of nobody else's charges, does every call return? | 2 layers of up to 2 tensors, every capacity, 4 bytes |
| `inference_engine` | Does a generation that fails anywhere leave the ledger as the engine's state says, do history and position stay in step, does the cache never cost a run its success, does the run end? | 2 layers, 2 weights, prompts of up to 2 and runs of up to 3 tokens in a context of 4 with chunks of 2; budgets from one that cannot hold a layer next to a run to one that keeps the embedding resident |
| `runs` | The two ways of running a model. A residency-managed run, in the order `main.rs` calls: no release with a context open, only of promoted tensors, and the run ends. A supervised run: does the outcome say what happened to the child, is no unlimited cgroup left, does it end? | 3 inventories, all policies, 2 decodes; 2 removal attempts (20 in the code), the rest of the supervisor's state is finite |
| `tui` | Whatever keys are pressed and whatever the actions return: do screen, session, plan, runtime, selection and settings agree, and does no screen wait for an action nobody requested? | 2 models with different token caps, 1 saved plan, 2 modes, a history of 2 out of 3 runs, so that a remembered run is dropped while selected |
| `plan_lifecycle` | Does what is compiled fit the session, does what is called valid have its costs from this machine, storage and model, does calibration keep its time limits, does the file refine `PlanFile`? | a machine, a smaller one with its own storage, and the first with less RAM free and another model; 2 users; writes and reads cut at one place; set-ups, warm-ups and whole samples of 0 or 1 time units against limits of a few |
| `algorithms` | The seventeen invariants below | each component's bounds are at its constants in `MCAlgorithms` |
| `engine_streamed_output`, `residency_terminal`, `prediction_window`, `tui_activation`, `ledger_shards` | violations, see 5 | |

The invariants of `algorithms`:

* `PlanCoversTensors`, `EstimatesHold`, `ChargesSettled` (`LayerLoad`): the plan
  reads every tensor once, and no range spans a gap or a length beyond the limits;
  the estimates are the peaks that occur; a failed load
  gives everything back. Layers of 2 and 4 tensors, empty to 2 bytes, with all
  kinds of gaps, in and out of file order, in every ledger up to 16 bytes.
* `ResidencyPlansSound` (`PlannerCases`): sharing, reclaim and staging totals
  are those of the page sets. Three tensors with nested, adjacent, equal and
  overlapping ranges in two mappings.
* `PlansNeverStale` (`ResidencyManager`): a plan is applied to the inventory it
  was made for, in any order of the manager's calls and refreshes.
* `PlansUsable` (`ExecutionPlanner`, `PlanPersistence`): every
  plan for 144 users' settings, over sessions and calibrations, compiles where it
  was made, decodes to itself, neither a strict prefix of its encoding decodes nor the
  encoding with a cell more, and a plan of another version is incompatible.
* `RegistryAddsUp` (`ResourceAccounting`): an allocation has the owner that is
  registered, after records that were refused and removed too, and requests and
  padding add up to the actual bytes where all are known, up to the largest value.
* `PredictionsAddUp` (`PredictionRuns`): the numbers of the plan in hand and of
  the history agree with the sets they summarise, through deaths of the process
  and replaced models.
* `StagedBytesAccountedFor` (`PredictionSim`): what is resident is what is
  charged and fits the budget, and every byte selected for staging has one fate.
* `TensorReadsFaithful` (`GgufSource`): a read that succeeds returns the
  tensor's own bytes, with two readers on the same handles; every kind of
  mismatched shard set is refused.
* `ObservationSound` (`PageResidency`): counts add up, the page budget is kept
  and goes to the selection first, and no verdict on a prefetch is a guess,
  while pages come and go between two mincore calls.
* `MeasurementsHonest` (`MemoryLedger`): peaks cover the readings that were made
  before them, what could not be read at all stays unknown, and an admission is a
  fit. `memory.peak` of a cgroup is read before `memory.current`, so that the
  peak of a snapshot covers the earlier snapshots and not its own current size.
  A figure for the mappings may be that of some of the shards (see 5).
* `TextIntact` (`Tokenizer`): a prompt survives encoding (behind the BOS
  token that the vocabulary adds) and decoding, and what
  is printed token by token is the text of the stream. All texts of up to 3 characters, three kinds of vocabulary.
* `KeysDecodeWhole`, `ScreenRespected` (`Terminal`): however the bytes of the
  keys are spread over the reads, each key is one command and leaves no byte
  behind; raw mode and the cursor are restored but for what a restoring call
  itself failed to do; frames stay in the window. Windows of 2 columns and 1, 2, 3
  and 5 rows, the last of which shows a whole screen. A character is one column,
  as in the code: wide ones, which take two, are not told apart. Out of scope are
  a timeout inside a key, a bare Escape with keys typed ahead of its decoding, and
  sequences that the decoder takes to end early (`ESC [ [ A`).
* `ContextHoldsSequence`, `RunAsAsked` (`ForgeCoreRun`): every token is decoded
  once, at its own position within the context; the run is on a device the
  command line names and ends for the reason it prints.

Deadlock is checked where the component may always be called again
(`memory_budget`, `layer_cache`, `plan_lifecycle`); the other runs end when the
engine is dropped, the run is over or the program is left.

### Fairness

* `LayerCache`: weak fairness of a call in progress. It runs under the cache's
  lock and waits for nothing.
* `InferenceEngine`: weak fairness of the generation's steps, which run on one
  thread and wait only for their own reads. Nobody is obliged to call `generate`.
* `Supervisor`: weak fairness of the supervisor's steps, of the timeout and of
  the deadline after a kill (time passes), and of the death of a process that
  was sent SIGKILL. The last is an assumption on the kernel: the supervisor's
  final wait has no deadline, and a child in uninterruptible sleep would hold it
  up. A child never has to exit by itself, and `try_wait` never
  has to fail.
* `ResidencyRun`: weak fairness of the run, a sequential program. In `MCRuns` the
  supervisor's steps are fair from where it has returned.

The other modules state safety only. That a calibration ends is stated as a
bound on its time (`CalibrationTimeBounded`), that the interface never hangs as
an invariant (`NeverStuck`).

## 4. What is proved

The theorems hold for every value of the constants; the assumptions are the
named `ASSUME`s of the modules (`SizesAssumption`: a model has at least one layer, no layer, weight or row
is empty, and a load's peak covers what stays resident; `NamesAssumption`: the
engine's names are names of the ledger; `MaxU64`, `MaxAttempts`,
`MaxGeneration` and `MaxDecodes` are positive, policies are valid and have a
mode of the enum; `ConfigAssumption`: the interface has at least one preset of
each kind, and a test preset names one of the memory presets and a number of
tokens that is a preset too; `NoneAssumption`: "nothing there" is not a record;
`RequestsAssumption`: a requested run has a text, a prompt and a limit;
`LifecycleAssumption`: sizes and counts of a user, a machine and a model's
layers are numbers, and so are the sums over its tensors that stay, which a fold
computes; `CalibrationAssumption`: the limits of a calibration are numbers;
`CompileErrorsAssumption`, `BuildErrorsAssumption`, `MismatchAssumption`: "no
error" is not one of the errors; `LayoutsAssumption`, `LayerAssumption`,
`MappingsAssumption`: a layout is a sequence of tensors with bytes in a file,
the layer loaded is one of it, its temporary prefix is a prefix of names, and a
mapping is there or not; `LedgerCasesAssumption`: the amounts a tensor declares
are u64, and a hard limit of `u64::MAX` comes only with tensors whose bytes u64
can count; `PageLimitsAssumption`, `RangeListsAssumption`: a page has bytes,
budgets are numbers, and inventories are sequences of byte ranges;
`MeasuresAssumption`: a measurement is a number of bytes or unknown, and
"unknown" is not a number; `DirectoriesAssumption`, `ReadersAssumption`: a
directory has finitely many files, lengths, offsets and sizes in a header are
numbers, a count may also be absent or something else, and there are finitely
many readers; `ScreensAssumption`, `WindowsAssumption`: a screen is a sequence of
lines, and a window has a row and a column, as `terminal_size` refuses one
without; `ScenariosAssumption`: a simulated scenario names each of its resources
once and accesses no others, as those of `standard_scenarios` do) and, for the file, `FormatCorrect`. Three
theorems about the life of a plan have the hypothesis `NothingIsNoPlan`: what
stands for "nothing" and for "does not decode" are different and neither is a
record. TLC's model values are such, but TLC cannot evaluate a `DOMAIN` of one,
so it is a hypothesis and not an `ASSUME`.

* **Ledger** (`BudgetProofs`, `MemoryBudgetProofs`). `TypeCorrect`,
  `LedgerBalancedTheorem`, `WithinBudgetTheorem`, `AccountingErrorsTheorem`,
  `TempChargesTheorem`. The sum of the charges is the cardinality of the set of
  bytes they stand for, so that the finite-set theorems do what would need an
  induction over a sum. `BudgetProofs` shows for each operation what it does to
  that set; the inductive invariant joins type, balance, bounds and scopes,
  because `release` is free of underflow only if the total is the sum (only
  `commit_resize` adds before it compares, and it reports an overflow only for a
  total that does not fit the budget either), and the
  scopes of a prefix hold their charges only if no other operation may touch
  that prefix.
* **Sums, folds and orderings** (`BudgetProofs`). The folds of the community
  modules are recursive functions over data, for which the library has no
  induction that can be cited. A set for which a sum were wrong would include a
  smallest one (`SmallestSet`, from the least counterexample among the
  cardinalities), and taking one element from that is a contradiction. From this
  come what a sum over a set is, that it grows with its terms, and what a fold
  over a sequence does. An ordering is defined by rank (the place of an index is
  the number of those before it), and `RankedOnce` shows that a strict order of
  n indices gives each a place of its own.
* **Bounded cache** (`MemoryBudgetProofs`). `CacheChargesMatchTheorem` and
  `SharedLedgerTheorem`. `CacheInv` holds of the cache alone what every
  operation needs: the recency list names each entry once and nothing else, and
  the byte count is the cardinality of the bytes of the entries. Of the ledger
  it says that the charge of each key is the size of its entry, for the
  budgeted form. The step that matters is an insertion: it takes off an old
  entry and then the oldest ones, and the lemmas follow the pair of cache and
  ledger through that, through the charge, and through the four ways in which
  the builder may end. The other users of the ledger take any of their steps
  that leaves the cache's names alone, so `SharedLedgerTheorem` is the ledger's
  own invariant with one more user.
* **Memory measurements** (`MemoryBudgetProofs`). `MeasurementsTheorem`. The
  property speaks of finished snapshots only, so the invariant says how one comes
  about: how many of the resident-set readings have been made at each stage of
  the run and that none is above the kernel's high-water mark
  (`RssReadings`), what a capture in progress has collected (`CaptureHeld`),
  that no cgroup figure taken so far is above the kernel's own peak (`CgroupCovered`),
  and that the ledger never admits more than its hard limit (`AdmittedFits`).
* **Page observation** (`MemoryBudgetProofs`). `ObservationTheorem`. The walk
  is long and the property is about what it leaves. `WalkHeld` says, of a walk
  in progress, that what is reported of each range so far describes the kernel's
  answers for it; that a range is short of answers only if the page budget is
  spent or a call failed; and that once a page outside the selection has been
  asked about, all the selected ranges have been walked, which is what the
  order of processing is for. The verdict compares two snapshots, and the
  invariant has it that both report the ranges in the inventory's order.
* **Registry of resources** (`MemoryBudgetProofs`). `RegistryTheorem`. A
  snapshot is computed from the records at hand: where the padding of each
  allocation of a domain is known, so are request and size, and the sums of the
  requests and of the padding are that of the sizes (`SumPlus`, term by term).
  `RegistryInv` adds what that needs: every allocation's measurements are numbers
  or unknown and its padding is the one computed from them, and an identifier
  names one record, without which a removal would not take the one owner off.
* **Data source** (`LayerCacheProofs`). `TensorReadsTheorem`. The address space
  of a model set is the data of its shards one after the other: `PartsStart`,
  `PartAt` and `PartOnce` find for an address the one shard it lies in, as
  `FlattenMade` does for each tensor of the merged sequence, and `MergedTensor` concludes that the bytes read at a tensor's
  addresses are that tensor's. `SetsAgreeHeld` shows of every directory that a
  set that is accepted is found from each of its shards, and names each tensor
  once. The invariant `SourceInv` is about the readers: a position the source
  remembers for a file is where its cursor is, so that a seek that is avoided
  was not needed; the bytes a read has so far are those from its start on; and
  each operation of a read under way is covered by a seek made or avoided.
* **Terminal session** (`LayerCacheProofs`). `ScreenTheorem`. Lines are clipped
  twice, before and after the choice of those that are shown, so that the frame
  is right only because clipping a clipped line changes nothing (`ClipAgain`,
  over the fold that clips), and because each case of the choice keeps the first
  and the last line within the height (`VisibleShows`). `ScreenInv` adds that a
  frame, once drawn, is the one composed of a screen for a window, and that
  the terminal is as it was found before the session opens, and after it ends,
  by each of its ends, but for what the calls of `Drop` that failed would have
  restored.
* **Prefetch simulation** (`LayerCacheProofs`). `SimulationTheorem`. The invariant
  is inductive for a run as it is (`Accounted`: charges are the sizes of what is
  resident, what waits for its first use is resident, and the bytes evicted
  unused and those still waiting are within what was staged), with the shape of
  a run (`Simulations`). What needs an argument is the loops: what starts out
  resident is charged once because a name is given once (`StartedFresh`); the
  selected names in their order are each of them once (`NamesInOrder`), so that
  each byte gets one fate (`PrefetchCounts`, `PrefetchFates`); and making room
  only ever evicts (`RoomSteps`, `RoomKept`).
* **Layer cache** (`LayerCacheProofs`). `CacheConsistentTheorem`: the same
  agreement for a cache whose entries have several charges each, at every
  iteration of the eviction loops. The invariant adds that the charges of an
  entry carry its name and that no other user has one, so that releasing an
  entry cannot fail; that is why the error returns of the loops are
  unreachable. `EvictionsExactTheorem` compares the loop with the counts of
  `LruList`: the invariant of a call in progress relates the cache and the
  ledger to those the call began with by the evictions made so far, and says
  that fewer did not suffice.
* **Inference engine** (`LayerStoreProofs`, `InferenceEngineProofs`).
  `ChargesMatchStateTheorem`, `GenerationSoundTheorem`, `ShortOnlyTheorem` and
  `DirectShortOnlyTheorem`. The properties speak of the engine between calls
  and of the places of a forward pass; the inductive invariant says of every
  place what is held there: which scopes are open, whether a layer has been
  loaded that is not in the cache, and that the ledger charges exactly those
  names, the resident weights, the KV cache by its capacity, and the cached
  layers. `Positions` says where in its request a generation is at each place
  of the loop: a position of the prompt before the first token, afterwards one
  position behind the tokens, which the pass and the sampling catch up with in
  turn; that the context length never stops a run and that growth always gains
  a position follow from that. The engine's evictions are the closed forms of
  `LayerStore`; `LayerStoreProofs` shows by the least counterexample that any
  number of them leaves cache and ledger in agreement, and that after those a
  demand costs there is room for it or nothing left to evict. From that
  `ShortOnlyTheorem` follows, under the proviso `MatvecNeedsOneRow`, which the
  code does not give for every model (finding `engine_streamed_output`); for an
  output matrix of stored f32 rows it does (`DirectShortOnlyTheorem`).
* **Layer loading** (`HostProofs`). `PlanCoversTheorem`,
  `EstimatesHoldTheorem`, `ChargesSettledTheorem`. The reads of a layer are cuts
  of its tensors in file order; the lemmas show that the cuts are consecutive and
  partition the layer, that each range starts at the first and ends behind the
  last byte of its tensors, and what the load holds at most in each range, which
  is what the estimates are compared with. `ChargesSettled` speaks of a load that
  has returned; `LoadInvariant` adds what is charged at each place of it: what was
  there when it was called (`LoadKept`), and the range, the temporaries and the
  tensors read so far (`LoadThere`), so that every error return is seen to give
  back exactly what was taken.
* **Supervisor** (`HostProofs`). `OutcomeTheorem`, `OutOfMemoryTheorem`,
  `CgroupTheorem`. None of the three properties is inductive: they speak of the
  end of a run. The invariant says in which phase of the run there is a child,
  a limited cgroup, a status, a kill; that a kill is recorded as a timeout
  before the signal is sent; and that the memory events were read of the child
  once dead, whose fate can no longer change.
* **Residency manager** (`RunProofs`). `PlansNeverStaleTheorem`,
  `ReconciledTheorem`, `NoReleaseTheorem`. The invariant adds that a decode in
  flight keeps the lifecycle in `Executing` (no accepted call but the end of the
  decode leaves it) and that a plan that is kept was made for the current
  inventory from tensors with pages. The planner enters only through the lemma
  that it selects tensors of the inventory with pages.
* **Residency run** (`RunProofs`). `RunImplementsManager` (every run
  is a behaviour of the manager, whose invariant therefore holds),
  `NoReleaseWithContextTheorem`, `OnlyEligibleTheorem`, `NothingSelectedTheorem`.
  The manager itself acts on an old observation; that the observation is right
  when it counts follows from the caller's order, and the invariant `RunInv`
  says where a context is open, where every tensor is still `Owned` and where
  the selected ones have been promoted.
* **ForgeCore run** (`RunProofs`). `ContextHoldsSequenceTheorem` and
  `RunAsAskedTheorem`. The invariant says, for each phase of the run, how much
  of the sequence the context holds, that prefill and decoding stay within the
  context's length, and which of the limits was met when a reason was chosen;
  and that the device in hand is one the parsed selection allows.
* **Plan files** (`HostProofs`). `StorePrefix`: whatever the crashes, the
  file is a prefix of the one encoding that was saved to it, and what a load has
  read so far is a prefix of that. `StoreRefinesFile`: hence, for any format of
  which `FormatCorrect` holds (a plan decodes to itself, a strict prefix of its
  encoding does not decode), saving and loading implements `PlanFile`: a load
  returns the plan that was saved or fails. That the program's own format is
  such is what `PlansRoundTrip`, a part of `PlansUsable`, checks over the plans
  of `algorithms`; `FileRefined` is the same refinement within
  `plan_lifecycle`, where three pieces stand for the format.
* **Life of a plan** (`RunProofs`). `ConfigurationFitsTheorem`,
  `ValidMeansTheorem`, `CalibrationTimeTheorem`, `FileRefinedTheorem`. The
  compiler and the planner reject with the first check that fails; the lemmas on
  `Checks` turn "no error" into "no check failed", list by list, and
  `CompiledMeans` collects what a plan that compiles is known to satisfy. Their
  use needs numbers: `LifeHeld` says that the context at hand is that of an
  environment analysed for a user's budget, and that the plan at hand, the one
  in the file and the one loaded have a user's budget and numbers for threads
  and cache; it holds through saving and loading because the file is a prefix
  of the encoding of what its owner saved. `ReportHeld` and `ConfigHeld` tie the
  report and the configuration to the plan and the context they were made of.
  For the calibration, `TimeInv` says in each phase how much of the total is
  spent: while a task is measured, what has elapsed besides the task's own
  spending leaves room for its whole time, but for one set-up, so that only the
  warm-up or the sample that ends it can be beyond. `ValidMeansTheorem` is about
  identifiers: a calibration's is a hash of its plan (machine, storage, model,
  limits and tasks), so that a plan stays valid beside a later run of the same
  calibration, whose values may differ.
* **Terminal interface** (`TuiAppProofs`). `ScreenMatchesSessionTheorem` and
  `NeverStuckTheorem`. Neither is inductive: a handler relies on what earlier
  screens left behind. The invariant has four parts. `Places`: a busy screen has
  the action that will replace it, an action in flight belongs to its screen,
  and the screens of a plan in the making exist only for a new plan. `Held`:
  settings, session and loaded plan are such as the handlers can make, and an
  incompatible report is about a loaded plan of another model than the
  session's. `Selected`: run numbers increase along the history, which is what
  makes a new run's number new after old ones were dropped. `TokensInv`: an open
  token editor keeps the two numbers it will restore. There is one lemma per
  screen and per executed action and part, over a few lemmas on kinds of steps
  (a move, a request, an edit, an error line, a step that drops the runtime).

What stays with TLC, and why:

* all liveness properties (`CallsReturn`, `GenerationReturns`, `RunEnds`,
  `RunReturns`): fairness and ENABLED are out of the prover's reach;
* what rests on a recursion over data that is neither a sum nor a fold: the
  encodings of plans (`PlansUsable`), the tokenizer and the key decoder
  (`TextIntact`, `KeysDecodeWhole`), whose modules declare RECURSIVE operators
  or define functions by recursion over their input;
* not attempted: `ResidencyPlansSound`, `PredictionsAddUp`.

## 5. Findings

* `tui_activation` / `PlanValidCanActivate`: `activate_plan` takes the session's
  opened model before it builds the runtime and nothing puts it back. After Back
  on the review screen, or after a construction error, the interface shows the
  plan screen with "Activate runtime" again, and every later activation fails.
* `prediction_window` / `StagingWithinWindow`: staging and speculative prefetch
  are bounded each on its own, so a plan may ask for the window plus the
  speculative budget, while the README calls the window strict and the
  speculative budget a portion of it.
* `engine_streamed_output` / `MatvecNeedsOneRow`: `streamed_matvec_into`
  (`persistent.rs`) sizes its chunk to a quarter of the free budget, at least
  one row, and fails if the chunk and one decoded row do not fit together. Its
  comment says it fails "if one row does not fit". With a quantized output
  matrix whose decoded row is large there are budgets where one stored row and
  the decoded row fit and the pass fails nevertheless: it does not try fewer
  rows.
* `residency_terminal` / `ReleaseFailureIsTerminal`: the lifetime tracker's test
  calls a release failure terminal and asserts that a late acceptance is an
  error. The manager keeps the plan of a failed release, `recover()` returns to
  a safe boundary, and `apply_last_plan` then releases the same tensors again;
  the trackers refuse the events, the refusal is ignored, and they stay in
  `ReleaseFailed` although the pages were released.
* `ledger_shards` / `ExactAcrossAllShards`: `capture_paths` skips a shard whose
  path no longer resolves and adds up the others, and the ledger labels that sum
  `ExactMeasured`. Its comment says it captures the residency "across all model
  shard paths", and `MEMORY_ACCOUNTING.md` that unknown components are not
  silently turned into zero.

Seen while modelling, without a run of their own: `encode_greedy`'s byte fallback
pushes only the first byte of a character that no token covers; the function
keys of the Linux console (`ESC [ [ A`) leave a byte behind and are not among
the keys of `Terminal`; a comment in `main.rs` (1158-1160) has the device
resolved before the model is parsed, while `discover_model_set` runs first;
`stats_at` reads `memory.peak` before `memory.current`, so the peak it
reports may be below the current size; a panic in `execute_layer` under the
cache lock poisons the mutex (panics are modelled in the ledger and the bounded
cache only).

## 6. Not modelled

`PROJECT.json` lists every component with its status.

* Floating-point kernels, quantization and sampling: outside what TLC and the
  proof system can say anything about. They are a large part of the code.
* Chat templates, rendering, diagnostics and reports: text without state.
* Host discovery, profiling counters, the support table, argument parsing:
  probing and printing; what discovery finds is an input of the planner.
* The byte-level GGUF header parser and metadata extraction: files are modelled
  by what their header says.
* The pre-tokenizer's regular expressions, reduced to the word split that the
  merges see.
* The native library and its tracing callbacks: external.
* Overwriting saves of plans, which the program does not use.

Worth proving next: the prediction history (`PredictionsAddUp`), whose totals are
the sums and folds that the lemmas of `BudgetProofs` are about, and then the page
sets of `ResidencyPlansSound`.
