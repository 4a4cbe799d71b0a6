---------------------------- MODULE MCAlgorithms ----------------------------
(***************************************************************************)
(* The components that share no state with one another, checked in one     *)
(* run.  turn says which of them this behaviour is about: it alone takes   *)
(* steps, from every initial state its constants allow, and the others     *)
(* stay where they are.                                                    *)
(***************************************************************************)
EXTENDS LayerLoad, PlannerCases, PlanPersistence, ResourceAccounting, PredictionRuns,
        GgufSource, PageResidency, PredictionSim, Tokenizer, Terminal, MemoryLedger,
        ForgeCoreRun, ResidencyManager

CONSTANTS Turns,              \* the components of this run
          m1, m2, r1, r2,     \* identities of models and of resources
          big, ssd, stick, here,
          NotAnIndex

VARIABLES turn, case

-----------------------------------------------------------------------------
(* LayerLoad: layers of 2 and of 4 tensors, empty, of 1 or 2 bytes, or of  *)
(* 1 byte in half precision, in file order or in reverse, back to back,    *)
(* within the coalescing gap or beyond it; every ledger from too small for *)
(* one tensor to large enough for any mode.                                *)

MCLayer == 1
MCPrefixes == {Active(1), Resident(1), <<"tmp", 1>>}

MCKinds == {[file |-> 0, half |-> FALSE], [file |-> 1, half |-> FALSE],
            [file |-> 1, half |-> TRUE], [file |-> 2, half |-> FALSE]}

\* The tensors of kinds ks one after the other, gaps[j] before the j-th.
MCPlace(ks, gaps) ==
    LET before(j) == MapThenSumSet(LAMBDA i : ks[i].file + gaps[i], 1..(j - 1))
    IN [j \in DOMAIN ks |-> [start |-> before(j) + gaps[j], file |-> ks[j].file, half |-> ks[j].half]]

MCLayouts ==
    LET pairs == {MCPlace(ks, gaps) : ks \in [1..2 -> MCKinds], gaps \in {<<0, 0>>, <<0, 1>>, <<0, 2>>}}
        fours == {MCPlace(ks, gaps) : ks \in [1..4 -> MCKinds \ {[file |-> 0, half |-> FALSE]}],
                                      gaps \in {<<0, 1, 2, 0>>}}
        reversed == {Reverse(ts) : ts \in pairs \cup {MCPlace(ks, <<0, 2, 0, 1>>) : ks \in [1..4 -> {k \in MCKinds : k.file = 1}]}}
    IN  pairs \cup fours \cup reversed

-----------------------------------------------------------------------------
(* PlannerCases: three tensors over two mappings of four bytes: nested,    *)
(* adjacent, equal, partly overlapping, empty and anonymous ranges.        *)

MCRanges == {<<0, 1>>, <<0, 2>>, <<0, 4>>, <<1, 2>>, <<1, 3>>, <<2, 4>>, <<3, 4>>, <<2, 2>>}

MCTensor(file_backed, mapping, range, layer) ==
    [file_backed |-> file_backed, mapping |-> mapping,
     start |-> range[1], end |-> range[2], layer |-> layer]

MCTensors(layer) ==
    {MCTensor(TRUE, 0, range, layer) : range \in MCRanges}
        \cup {MCTensor(TRUE, 1, <<1, 3>>, layer), MCTensor(TRUE, NoValue, <<0, 2>>, layer),
              MCTensor(FALSE, NoValue, <<0, 0>>, layer), MCTensor(FALSE, 0, <<0, 0>>, layer)}

MCPlannedInventories ==
    {<<a, b, c>> : a \in MCTensors(2), b \in MCTensors(0),
                   c \in {MCTensor(TRUE, 0, <<1, 3>>, 1), MCTensor(TRUE, 0, <<0, 2>>, 1), MCTensor(TRUE, 0, <<2, 2>>, 1),
                          MCTensor(TRUE, 1, <<1, 3>>, 1), MCTensor(FALSE, NoValue, <<0, 0>>, 1)}}

MCPolicy(kind, target, reserve) == [mode |-> kind, target |-> target, reserve |-> reserve]

MCPlannedPolicies ==
    {MCPolicy("Conservative", 2, 0), MCPolicy("Active", 3, 1), MCPolicy("ReuseAware", 0, 0),
     MCPolicy("Observe", NoValue, 1), MCPolicy("Off", 1, 0)}

MCPlannedMeasurements == {NoValue, 4, 6}
MCLimits == {0, 2, 3, 5}
MCProfiles == {<<>>, <<2, 1>>}

(* ResidencyManager: inventories of two and one tensors, so that a plan of *)
(* the first does not fit the second, one anonymous tensor, and a policy   *)
(* of each kind.                                                           *)

MCWeights(from, to) == MCTensor(TRUE, 0, <<from, to>>, 0)
MCInventories ==
    {<<MCWeights(0, 1), MCWeights(1, 3)>>, <<MCWeights(0, 1)>>,
     <<MCTensor(FALSE, NoValue, <<0, 0>>, 0), MCWeights(0, 2)>>}
MCPolicies == {MCPolicy(kind, 2, 1) : kind \in {"Off", "Observe", "Active"}}
MCMeasurements == {1, 3, 4}

-----------------------------------------------------------------------------
(* Plans: every plan of the execution planner over users, sessions and     *)
(* calibrations, taken through the compiler and the file format.           *)

MCUser(ram, kind, level) ==
    [ram |-> ram, mode |-> kind, thread_limit |-> None, gpu |-> "Prefer", level |-> level,
     threads |-> None, cache_enabled |-> None, cache_capacity |-> None, coalescing |-> None,
     reuse |-> None, device |-> None]

MCUsers ==
    {[MCUser(ram, kind, level) EXCEPT !.thread_limit = limit, !.gpu = gpu] :
        ram \in {4, 7, 12}, kind \in {"Background", "Balanced", "Performance"},
        level \in {0, 1}, limit \in {None, 1}, gpu \in {"Disabled", "Prefer"}}
    \cup
    {[MCUser(ram, "Advanced", 1) EXCEPT !.threads = threads, !.cache_enabled = enabled,
        !.cache_capacity = capacity, !.coalescing = coalescing] :
        ram \in {7, 12}, threads \in {None, 2}, enabled \in {None, FALSE, TRUE},
        capacity \in {None, 0, 3}, coalescing \in {None, FALSE}}

MCPlannedModel(charge, peak, coalescible) ==
    [id |-> m1, size |-> 9, executable |-> TRUE, coalescible |-> coalescible, reusable |-> coalescible,
     persistents |-> <<[resident |-> 2, charge |-> charge], [resident |-> 1, charge |-> 1]>>,
     layers |-> <<[resident |-> 2, peak |-> peak], [resident |-> 3, peak |-> 4]>>,
     reads |-> 8, formats |-> {"Q4K"}, supported |-> {"Q4K"}]

MCContexts(user) ==
    {[machine |-> [id |-> big, cores |-> cores, total |-> 16, available |-> 16, cpu |-> TRUE, gpus |-> {}],
      model |-> file, storage |-> [id |-> ssd, path |-> here, ready |-> TRUE, size |-> 9],
      static |-> PlanModel(file, user.ram)] :
        cores \in {1, 4}, file \in {MCPlannedModel(charge, peak, coalescible) :
                                        charge \in {2, 8}, peak \in {3, 5}, coalescible \in BOOLEAN}}

MCObservation(id, metric, strategy, samples) ==
    [id |-> id, metric |-> metric, strategy |-> strategy, status |-> "Measured",
     latency |-> metric = "StrategyLatency", samples |-> samples,
     value |-> AggregateValue(samples, metric = "StrategyLatency"),
     duration |-> Total(samples, "elapsed"), quality |-> Quality(samples), reason |-> None]

MCCalibration(storage) ==
    [id |-> 5, level |-> 1, machine |-> big, model |-> m1, storage |-> storage,
     observations |->
        <<MCObservation(1, "SequentialRead", None, <<[elapsed |-> 1, units |-> 2]>>),
          MCObservation(2, "SequentialRead", None, <<[elapsed |-> 1, units |-> 2], [elapsed |-> 2, units |-> 2]>>),
          MCObservation(3, "StrategyLatency", "CpuLayerStreaming", <<[elapsed |-> 4, units |-> 2]>>)>>]

MCCalibrations == {None, MCCalibration(ssd), MCCalibration(stick)}

\* The format of the file as PlanStore needs it.
File == INSTANCE PlanStore
            WITH Plans <- {}, Encode <- EncodePlan, Decode <- DecodePlan, Cuts <- {},
                 owner <- case, file <- case, writing <- case, reader <- case, loaded <- case

NoCase == [kind |-> "none"]

PlanCase ==
    /\ case = NoCase
    /\ \E user \in MCUsers : \E ctx \in MCContexts(user), calibration \in MCCalibrations :
        LET planned == Plan(user, ctx, calibration)
        IN  /\ planned.ok
            /\ case' = [kind |-> "plan", plan |-> planned.value, user |-> user, ctx |-> ctx]

\* Planner and compiler were written apart: every plan the planner makes is
\* accepted by the compiler in the session it was made in, keeps the RAM the
\* user gave, and passes validate_structure, which guards the file.
PlansCompileWhereMade ==
    case # NoCase =>
        LET compiled == Compile(case.plan, case.ctx)
        IN  /\ compiled.ok
            /\ compiled.value.ram = case.user.ram
            /\ StructureValid(Persist(case.plan))

\* The file format: a plan decodes to itself, no strict prefix of its
\* encoding decodes to a plan, nor does the encoding with one more cell
\* (from_bytes, PlanReader, encode_unchecked).
PlansRoundTrip ==
    case # NoCase =>
        LET s == Persist(case.plan)
        IN  File!FormatOf(s) /\ DecodePlan(Append(EncodePlan(s), 0)) = Torn

\* The plan of another version of the program can be read, to be told that it
\* is incompatible, even where it was made (from_bytes, validate_plan_header).
OtherVersionsIncompatible ==
    case # NoCase =>
        LET s == Persist(case.plan)
        IN  \A other \in {[s EXCEPT !.schema = @ + 1], [s EXCEPT !.ruleset = @ + 1]} :
               /\ DecodePlan(EncodePlan(other)) = other
               /\ CompatibilityReport(other, case.ctx, None) = "Incompatible"

\* A plan can be activated where it was made, by the same version of the
\* program, and read back as it was saved
\* (ExecutionPlanner::plan, PlanCompiler::compile, PersistentPlan).
PlansUsable == PlansCompileWhereMade /\ PlansRoundTrip /\ OtherVersionsIncompatible

-----------------------------------------------------------------------------
(* ResourceAccounting *)

MCMeasures == {[certainty |-> "Exact", bytes |-> 2], [certainty |-> "Estimated", bytes |-> 1], [certainty |-> "Unknown", bytes |-> NoBytes]}

MCDescriptors ==
    {[family |-> f, number |-> 0, type |-> [block |-> 2, bytes |-> 1, estimated |-> FALSE],
      elements |-> 4, byte_length |-> 2] : f \in {"output", "blk"}}
    \cup {[family |-> "x", number |-> 0, type |-> [block |-> 2, bytes |-> 1, estimated |-> TRUE],
           elements |-> 3, byte_length |-> NoBytes]}

-----------------------------------------------------------------------------
(* PredictionRuns: two models of four tensors that share pages, one with a *)
(* tensor twice; a history of three earlier runs.                          *)

MCPredicted(name, from, to) ==
    [name |-> name, file_backed |-> TRUE, mapping |-> 0, start |-> from, end |-> to,
     layer |-> name, size |-> to - from]

MCModel(identity, last) ==
    [identity |-> identity,
     inventory |-> <<MCPredicted(1, 0, 2), MCPredicted(2, 1, 3), MCPredicted(3, 3, 4), last>>]

MCModels ==
    {MCModel(m1, [MCPredicted(4, 0, 1) EXCEPT !.file_backed = FALSE]), MCModel(m2, MCPredicted(3, 0, 1))}

MCConfigs ==
    {[enabled |-> TRUE, min_confidence |-> 6000, window |-> 3, speculative |-> 2, lookahead |-> 3],
     [enabled |-> TRUE, min_confidence |-> 2500, window |-> 4, speculative |-> 1, lookahead |-> 2]}

MCSituation(current, hard) == [current |-> current, hard |-> hard, reserve |-> 1, admitted |-> TRUE]
MCSituations ==
    {MCSituation(4, 8), MCSituation(NoValue, 8), [MCSituation(8, 8) EXCEPT !.admitted = FALSE]}

MCEvent(kind, execution, node, weights) ==
    [phase |-> kind, execution |-> execution, node |-> node, reads |-> weights]
MCReads(names) == [k \in DOMAIN names |-> <<names[k], 0>>]
MCNode(execution, node, weights) ==
    <<MCEvent("Requested", execution, node, weights),
      MCEvent("CompletedSynchronized", execution, node, <<>>)>>
MCTraces ==
    {MCNode(1, 1, MCReads(<<1, 2, 3>>)) \o MCNode(2, 1, MCReads(<<2, 1>>))
         \o MCNode(2, 2, Append(MCReads(<<3>>), <<9, 1>>)),
     MCNode(1, 1, MCReads(<<3, 4>>)),
     MCNode(1, 1, <<<<1, 2>>>>) \o MCNode(1, 2, <<<<2, 1>>>>)}

\* Three runs that predicted the first three tensors and read some of them.
MCPast(observed) ==
    LET profile == [NewProfile(m1) EXCEPT !.observations = 2,
                       !.access = [t \in 1..3 |-> [first |-> t, last |-> t]]]
        tensorsOf == MCModel(m1, MCPredicted(4, 0, 1)).inventory
        configOf == CHOOSE c \in MCConfigs : c.lookahead = 3
        AfterRun(h, names) ==
            LET predictions == Predict(configOf, profile, tensorsOf, h)
                staging == PlanPredictions(configOf, predictions, tensorsOf, NoValue, NoValue, 0, TRUE)
                seen == [profile EXCEPT !.access = [t \in names |-> @[t]]]
            IN WithEvaluation(WithFeedback(WithPredictions(h, predictions), predictions, seen, staging),
                              predictions, seen, tensorsOf, staging,
                              [accepted_bytes |-> 0, error |-> FALSE], 3)
    IN FoldLeft(AfterRun, NewHistory(m1), observed)
MCHistories == {MCPast(<<{1, 3}, {1, 2, 3}, {1, 2}>>)}

(* PredictionSim *)

MCSimulated(name, bytes, initial, group) ==
    [name |-> name, bytes |-> bytes, file_backed |-> TRUE, known_size |-> TRUE,
     initial |-> initial, group |-> group]
MCScenario(resources, ram, training, test) ==
    [name |-> 1, budget |-> ram, window |-> ram, speculative |-> ram, min_confidence |-> 5000,
     horizon |-> 3, resources |-> resources, training |-> training, test |-> test,
     effect |-> "MakesResident", timing |-> "OnTime", mode |-> "Disabled", page_budget |-> 0]
MCInitials == {"Resident", "NonResident", "Unknown"}
MCScenarios ==
    {[MCScenario(<<MCSimulated(1, 1, i1, NoValue), MCSimulated(2, 2, i2, g),
                   MCSimulated(3, 1, "NonResident", g)>>, ram, training, test)
      EXCEPT !.effect = effect, !.timing = timing, !.mode = observe[1], !.page_budget = observe[2]] :
        i1 \in {"Resident", "NonResident"}, i2 \in MCInitials, g \in {NoValue, 7}, ram \in {1, 3},
        training \in {<<1, 2>>, <<3, 1>>}, test \in {<<>>, <<2, 1, 3, 2>>},
        effect \in {"MakesResident", "NoEffect", "Fail", "Unknown"}, timing \in {"OnTime", "Late"},
        observe \in {<<"Disabled", 0>>, <<"General", 1>>, <<"Targeted", 2>>}}
MCCosts == [setup |-> 10, prediction |-> 1, planning |-> 1, observation |-> 1, staging |-> 2,
            reread |-> 3, execution |-> 10, synchronization |-> 1]

-----------------------------------------------------------------------------
(* GgufSource: a pair of shards, and every way to get one wrong. *)

MCStored(name, elements, f32, offset) ==
    [name |-> name, elements |-> elements, f32 |-> f32, block |-> IF f32 THEN 1 ELSE 2,
     block_bytes |-> IF f32 THEN 2 ELSE 1, offset |-> offset]
MCFile(no, stored, size) ==
    [readable |-> TRUE, header_end |-> 3, alignment |-> 2, size |-> size,
     split_count |-> 2, split_no |-> no, tensor_count |-> Absent,
     general |-> 7, architecture |-> IF no = 0 THEN 5 ELSE Absent, tensors |-> stored]
MCFirst == MCFile(0, <<MCStored(1, 2, TRUE, 0), MCStored(2, 3, FALSE, 4)>>, 10)
MCSecond == MCFile(1, <<MCStored(3, 2, FALSE, 0), MCStored(4, 2, TRUE, 2)>>, 10)
MCOneOfTwo == <<1, 1, 2>>
MCTwoOfTwo == <<1, 2, 2>>
MCPair(a, b) == MCOneOfTwo :> a @@ MCTwoOfTwo :> b
MCSingle(f) == [f EXCEPT !.split_count = Absent, !.split_no = Absent]
MCDirectories ==
    LET a == MCFirst
        b == MCSecond
    IN  {MCPair(a, b), MCPair(b, a), MCPair(a, a), MCOneOfTwo :> a, MCPair(a, [b EXCEPT !.split_no = 2]),
         <<1>> :> MCSingle(a), (<<1>> :> MCSingle(a)) @@ (<<2>> :> MCSingle(b)),
         MCPair(a, b) @@ (<<2, 1, 2>> :> a),
         <<1>> :> a, MCOneOfTwo :> MCSingle(a),
         MCPair([a EXCEPT !.tensor_count = 4], [b EXCEPT !.tensor_count = 3]),
         MCPair([a EXCEPT !.tensor_count = 3], b), MCPair(a, [b EXCEPT !.general = 8]),
         MCPair(a, [b EXCEPT !.architecture = 6]), MCPair([a EXCEPT !.architecture = Absent], b),
         MCPair(a, [b EXCEPT !.tensors[1].name = 1]), MCPair(a, [b EXCEPT !.size = 9]),
         MCPair(a, [b EXCEPT !.readable = FALSE]), MCPair(a, [b EXCEPT !.split_count = 3]),
         MCPair(a, [b EXCEPT !.split_count = NotANumber]),
         MCPair(a, [b EXCEPT !.alignment = 0, !.tensors[1].block = 0]),
         MCOneOfTwo :> [MCSingle(a) EXCEPT !.split_count = 1]}

(* PageResidency: ranges that share pages, one of two mappings under one   *)
(* name, one without a mapping and one without bytes.                      *)

MCRangeLists ==
    {<<PageRangeOf("a", 1, 0, 4), PageRangeOf("b", 1, 2, 5)>>,
     <<PageRangeOf("a", 1, 0, 2), PageRangeOf("b", 2, 0, 2), PageRangeOf("b", 1, 0, 4)>>,
     <<PageRangeOf("a", 0, 0, 2), PageRangeOf("b", 1, 0, 3), PageRangeOf("c", 1, 2, 2)>>}

PageIdle ==
    /\ ranges = <<>> /\ selected = {} /\ mapped = {} /\ memory = {}
    /\ walk = NotWalking /\ snapshots = <<>>

-----------------------------------------------------------------------------
(* Tokenizer: a unigram, a chat and a byte-pair vocabulary. *)

MCToken(text, type) == [text |-> text, type |-> type, hex |-> NoByte]
MCHex(b) == [text |-> <<"0x", b>>, type |-> "Byte", hex |-> b]
MCVocabulary(kind, tokens, scores, merges) ==
    [model |-> kind, pre |-> "none", tokens |-> tokens, scores |-> scores, merges |-> merges,
     bos |-> 1, eos |-> 1, unk |-> 2, add_bos |-> "absent", add_eos |-> FALSE]
MCUnigram ==
    MCVocabulary("llama",
        <<MCToken(<<"<", "s">>, "Normal"), MCToken(<<"u">>, "Unknown"), MCToken(<<"_">>, "Normal"),
          MCToken(<<"a">>, "Normal"), MCToken(<<"_", "a">>, "Normal"), MCToken(<<"a", "b">>, "Normal"),
          MCToken(<<"b">>, "Normal"), MCHex("L"), MCHex("c"), MCToken(<<"e">>, "Normal")>>,
        <<0, 0, -1, -2, -4, -2, -1, 0, 0, -3>>, NoMerges)
MCChat ==
    [MCVocabulary("llama",
        <<MCToken(<<"<", "s">>, "Control"), MCToken(<<"u">>, "Unknown"), MCToken(<<"a">>, "Normal"),
          MCHex("L"), MCHex("c"), MCToken(<<" ">>, "Byte")>>,
        [k \in 1..6 |-> 0], NoMerges) EXCEPT !.add_eos = TRUE]
MCBytePair ==
    MCVocabulary("gpt2",
        <<MCToken(<<"<", "s">>, "Control"), MCToken(<<"u">>, "Unknown"), MCToken(<<"a">>, "Normal"),
          MCToken(<<"G", "a">>, "Normal"), MCToken(<<"U">>, "Normal"), MCToken(<<"a", "V">>, "Normal"),
          MCToken(<<"V", "a">>, "Normal"), MCToken(<<"b">>, "Byte"), MCToken(<<"a", "b">>, "UserDefined")>>,
        [k \in 1..9 |-> 0], << <<<<"G">>, <<"a">>>>, <<<<"a">>, <<"b">>>> >>)
MCVocabularies == {MCUnigram, MCChat, MCBytePair}
MCTexts == UNION {[1..n -> {"a", "b", " ", "e"}] : n \in 0..3}
           \cup {<<"a", "<", "s", "b">>, <<"<", "s", "<">>}

(* Terminal: a letter, Escape, an arrow, Delete, Alt with a letter, and a  *)
(* letter of three bytes.                                                  *)

MCKey(bytes, menu, text) == [bytes |-> bytes, menu |-> menu, text |-> text]
MCKeys ==
    {MCKey(<<113>>, "Quit", <<113>>), MCKey(<<27>>, "Back", "Back"), MCKey(<<27, 91, 65>>, "Up", "Up"),
     MCKey(<<27, 91, 51, 126>>, "None", "None"), MCKey(<<27, 120>>, "None", "None"),
     MCKey(<<226, 130, 172>>, <<226, 130, 172>>, <<226, 130, 172>>)}
MCScreens ==
    {<< <<"a", "tab", "b">>, <<"control", "c">>, <<"d">>, <<"e">>, <<"f", "f", "f">> >>}
MCWindowSizes == [width : {2}, height : {1, 2, 3, 5}]

-----------------------------------------------------------------------------
(* MemoryLedger *)

MCMappings == {[path |-> "a", pages |-> 1, sharers |-> 1], [path |-> "b", pages |-> 1, sharers |-> 2]}
MCShardPaths == <<"a", "b">>
MCLedgerCase(soft, hard, reserve, fileBacked, anonymousBytes, isBound, isQuiescent) ==
    [soft |-> soft, hard |-> hard, reserve |-> reserve, fileBacked |-> fileBacked,
     anonymous |-> anonymousBytes, pageBytes |-> 2,
     resources |-> {[bytes |-> 2, shared |-> 1, safe |-> TRUE], [bytes |-> 1, shared |-> 0, safe |-> FALSE]},
     bound |-> isBound, quiescent |-> isQuiescent]
MCLedgerCases ==
    {MCLedgerCase({}, {}, 0, 2, 0, TRUE, TRUE), MCLedgerCase({2}, {4}, 1, 2, 1, TRUE, FALSE),
     MCLedgerCase({}, {5}, 2, 4, 3, FALSE, FALSE)}

\* Everything can be read, or one source cannot, or none.
MCSources ==
    LET all == [status |-> TRUE, smaps |-> TRUE, cgroup |-> TRUE, paths |-> {"a", "b"}]
    IN  {all, [all EXCEPT !.status = FALSE], [all EXCEPT !.smaps = FALSE], [all EXCEPT !.cgroup = FALSE],
         [all EXCEPT !.paths = {}], [all EXCEPT !.paths = {"a"}, !.status = FALSE],
         [all EXCEPT !.smaps = FALSE, !.status = FALSE, !.cgroup = FALSE]}

(* ForgeCoreRun *)

MCNative(kind, index, name) == [kind |-> kind, index |-> index, name |-> name]
MCRegistries ==
    {<<>>, <<MCNative("Gpu", 0, "a")>>, <<MCNative("Gpu", 0, "a"), MCNative("Cpu", 1, "c")>>,
     <<MCNative("Cpu", 0, "c"), MCNative("Cpu", 1, "c"), MCNative("Gpu", 2, "a")>>}
MCSelections ==
    {<<"cpu">>, <<"CPU">>, <<"gpu">>, <<"id", "">>, <<"id", "cpu">>, <<"id", "Gpu", 0, "a">>,
     <<"backend", "cpu">>, <<"backend", "", 0>>, <<"backend", "cpu", 0>>, <<"backend", "cpu", 1>>,
     <<"backend", "cpu", NotAnIndex>>, <<"backend", "Gpu", "a", 2>>}
MCRequests ==
    [text : MCSelections, ctx : {Unset, 0, 1, 3}, trace : {Unset, 0, 8},
     prompt : {<<>>, <<1>>, <<1, 2>>}, bos : {NoToken, 0}, max : {0, 1, 3}]

-----------------------------------------------------------------------------
(* The run *)

\* All of S for the component whose turn it is, one member for the others.
Only(S, component) == IF turn = component THEN S ELSE {CHOOSE x \in S : TRUE}

AlgorithmsInit ==
    /\ turn \in Turns
    /\ Init
    /\ turn # "manager" => <<inventory, policy>> = CHOOSE p \in MCInventories \X MCPolicies : TRUE
    /\ LoadStart(IF turn = "load" THEN MCLayouts ELSE {<<>>},
                 Only(ReadSwitches, "load"), Only(1..MaxU64, "load"))
    /\ PlannerStart(IF turn = "planner" THEN MCPlannedInventories ELSE {<<>>})
    /\ case = NoCase
    /\ RegistryInit
    /\ PredictionStart(Only(MCModels, "prediction"),
                       IF turn = "prediction" THEN {NoFile} \cup MCHistories ELSE {NoFile})
    /\ SourceStart(Only(MCDirectories, "source"))
    /\ IF turn = "pages" THEN PageInit ELSE PageIdle
    /\ SimStart(Only(MCScenarios, "simulation"))
    /\ TokenizerStart(Only(MCVocabularies, "tokenizer"), Only(MCTexts, "tokenizer"))
    /\ TerminalInit
    /\ LedgerStart(Only(AnonPages, "ledger"), Only(MCSources, "ledger"), Only(MCLedgerCases, "ledger"))
    /\ ForgeStart(Only(MCRequests, "forge"), Only(MCRegistries, "forge"), Only(EosTokens, "forge"))

\* The variables in three groups, for the steps that leave them alone.
loadingVars == <<loadVars, plannerVars, case, registry>>
predictingVars == <<predictionVars, sourceVars, pageVars, simVars>>
talkingVars == <<tokenizerVars, terminalVars, ledgerVars, forgeVars, vars>>

LoadTurn ==
    /\ turn = "load" /\ LoadNext
    /\ UNCHANGED <<turn, predictingVars, talkingVars, plannerVars, case, registry>>

PlannerTurn ==
    /\ turn = "planner" /\ PlannerNext
    /\ UNCHANGED <<turn, predictingVars, talkingVars, loadVars, case, registry>>

PlansTurn ==
    /\ turn = "plans" /\ PlanCase
    /\ UNCHANGED <<turn, predictingVars, talkingVars, loadVars, plannerVars, registry>>

RegistryTurn ==
    /\ turn = "registry" /\ RegistryNext
    /\ UNCHANGED <<turn, predictingVars, talkingVars, loadVars, plannerVars, case>>

PredictionTurn ==
    /\ turn = "prediction" /\ PredictionNext
    /\ UNCHANGED <<turn, loadingVars, talkingVars, sourceVars, pageVars, simVars>>

SourceTurn ==
    /\ turn = "source" /\ SourceNext
    /\ UNCHANGED <<turn, loadingVars, talkingVars, predictionVars, pageVars, simVars>>

PagesTurn ==
    /\ turn = "pages" /\ PageNext
    /\ UNCHANGED <<turn, loadingVars, talkingVars, predictionVars, sourceVars, simVars>>

SimulationTurn ==
    /\ turn = "simulation" /\ SimNext
    /\ UNCHANGED <<turn, loadingVars, talkingVars, predictionVars, sourceVars, pageVars>>

TokenizerTurn ==
    /\ turn = "tokenizer" /\ TokenizerNext
    /\ UNCHANGED <<turn, loadingVars, predictingVars, terminalVars, ledgerVars, forgeVars, vars>>

TerminalTurn ==
    /\ turn = "terminal" /\ TerminalNext
    /\ UNCHANGED <<turn, loadingVars, predictingVars, tokenizerVars, ledgerVars, forgeVars, vars>>

LedgerTurn ==
    /\ turn = "ledger" /\ LedgerNext
    /\ UNCHANGED <<turn, loadingVars, predictingVars, tokenizerVars, terminalVars, forgeVars, vars>>

ForgeTurn ==
    /\ turn = "forge" /\ ForgeNext
    /\ UNCHANGED <<turn, loadingVars, predictingVars, tokenizerVars, terminalVars, ledgerVars, vars>>

ManagerTurn ==
    /\ turn = "manager" /\ Next
    /\ UNCHANGED <<turn, loadingVars, predictingVars, tokenizerVars, terminalVars, ledgerVars, forgeVars>>

AlgorithmsNext ==
    \/ LoadTurn \/ PlannerTurn \/ PlansTurn \/ RegistryTurn \/ PredictionTurn \/ SourceTurn \/ PagesTurn
    \/ SimulationTurn \/ TokenizerTurn \/ TerminalTurn \/ LedgerTurn \/ ForgeTurn \/ ManagerTurn

AlgorithmsSpec == AlgorithmsInit /\ [][AlgorithmsNext]_<<turn, loadingVars, predictingVars, talkingVars>>
=============================================================================
