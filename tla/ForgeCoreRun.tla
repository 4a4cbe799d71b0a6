---------------------------- MODULE ForgeCoreRun ----------------------------
(***************************************************************************)
(* A run of the forgeCORE backend: the device asked for on the command     *)
(* line is resolved against the native registry (execution.rs), the model  *)
(* is loaded and its context opened by the adapter (forgecore.rs), and     *)
(* run_forgecore_inference (crates/ramforge-cli/src/main.rs) decodes the   *)
(* prompt and then one token at a time, giving every token its position.   *)
(* The residency calls around a decode are module ResidencyRun; the native *)
(* library is external and may refuse any call.                            *)
(***************************************************************************)
EXTENDS Integers, SequencesExt

CONSTANTS
  Registries,     \* what enumerate_devices may return: sequences of [kind, index, name]
  Requests,       \* [text, ctx, trace, prompt, bos, max]: text is --device cut at its colons
  Tokens,         \* what the sampler may return
  EosTokens,      \* what the model may name as end of sequence, NoToken included
  TrainedContext, \* the context length a model is trained for
  NoToken,        \* no such token id
  Unset           \* an option that is not given

\* A command line: a device option of at least one part, counts that are not
\* negative, and token ids for the prompt.
ASSUME RequestsAssumption ==
  /\ TrainedContext \in Nat
  /\ Tokens \subseteq Nat
  /\ \A r \in Requests :
       /\ Len(r.text) \in Nat \ {0}
       /\ r.text = [i \in 1..Len(r.text) |-> r.text[i]]
       /\ r.ctx \in Nat \cup {Unset}
       /\ r.prompt \in Seq(Nat)
       /\ r.bos \in Nat \cup {NoToken}
       /\ r.max \in Nat

VARIABLES
  request,    \* the command line of this run
  devices,    \* DeviceRegistry::discover()
  eos,        \* tokenizer.eos_id
  phase,      \* where the run stands
  device,     \* ForgeCoreModel.device, Unset before the load
  window,     \* session.context_length()
  inputs,     \* prompt_tokens
  outputs,    \* generated_token_ids
  kv,         \* the native context: the tokens it has decoded, by position
  logits,     \* the position the logits at hand belong to, -1 before any
  drawn,      \* the token last sampled
  stopReason  \* stop_reason

forgeVars == <<request, devices, eos, phase, device, window, inputs, outputs, kv, logits, drawn,
               stopReason>>
runInputs == <<request, devices, eos>>

---------------------------------------------------------------------------
(* Device selection.                                                       *)

Cpu == "Cpu"

DeviceInfoFromForgecore(info) ==
  [id |-> IF info.kind = Cpu THEN <<"cpu">> ELSE <<info.kind, info.index, info.name>>,
   backend |-> IF info.kind = Cpu THEN <<"cpu">> ELSE <<info.kind, info.name>>,
   kind |-> info.kind,
   registryIndex |-> info.index,
   modelExecution |-> info.kind = Cpu,
   available |-> TRUE,
   selectable |-> info.kind = Cpu]

\* The stable sort by id: every CPU device has the id "cpu", which sorts before
\* the "forgecore/..." ids. Those are distinct, so their order decides nothing.
FromDevices(infos) ==
  SelectSeq(infos, LAMBDA d : d.kind = Cpu) \o SelectSeq(infos, LAMBDA d : d.kind # Cpu)

Discover(natives) ==
  FromDevices([i \in DOMAIN natives |-> DeviceInfoFromForgecore(natives[i])])

InvalidSyntax == [by |-> "InvalidSyntax"]

\* DeviceSelection::from_str: an id keeps its colons, the index of a backend
\* follows the last one.
ParseSelection(text) ==
  LET rest == Tail(text)
  IN  CASE text \in {<<"cpu">>, <<"CPU">>} -> [by |-> "Cpu"]
        [] Head(text) = "id" /\ rest # <<>> ->
             IF rest = <<"">> THEN InvalidSyntax ELSE [by |-> "ById", id |-> rest]
        [] Head(text) = "backend" /\ rest # <<>> ->
             IF Len(rest) < 2 \/ Front(rest) = <<"">> \/ Last(rest) \notin Nat
             THEN InvalidSyntax
             ELSE [by |-> "BackendIndex", backend |-> Front(rest), index |-> Last(rest)]
        [] OTHER -> InvalidSyntax

Matches(d, selection) ==
  CASE selection.by = "Cpu" -> d.kind = Cpu
    [] selection.by = "ById" -> d.id = selection.id
    [] selection.by = "BackendIndex" ->
         d.backend = selection.backend /\ d.registryIndex = selection.index

\* DeviceRegistry::select: the first device that matches and never another one
\* in its stead; nothing where there is none or it is not selectable.
Select(registry, selection) ==
  {registry[i] : i \in {j \in DOMAIN registry :
     /\ Matches(registry[j], selection)
     /\ \A k \in 1..(j - 1) : ~Matches(registry[k], selection)
     /\ registry[j].available /\ registry[j].selectable}}

---------------------------------------------------------------------------
(* Loading and opening.                                                    *)

ForgeStart(requests, registries, eosTokens) ==
  /\ request \in requests
  /\ devices \in {Discover(natives) : natives \in registries}
  /\ eos \in eosTokens
  /\ phase = "start"
  /\ device = Unset
  /\ window = 0
  /\ inputs = <<>>
  /\ outputs = <<>>
  /\ kv = <<>>
  /\ logits = -1
  /\ drawn = NoToken
  /\ stopReason = Unset

ForgeInit == ForgeStart(Requests, Registries, EosTokens)

\* Every `?` of the run: the error is returned and nothing more happens.
FailRun ==
  /\ phase' = "failed"
  /\ UNCHANGED <<runInputs, device, window, inputs, outputs, kv, logits, drawn, stopReason>>

\* The selection is parsed before the model files are looked for; reading them
\* may fail.
Start ==
  /\ phase = "start"
  /\ \/ FailRun
     \/ /\ ParseSelection(request.text) # InvalidSyntax
        /\ phase' = "load"
        /\ UNCHANGED <<runInputs, device, window, inputs, outputs, kv, logits, drawn, stopReason>>

\* load_for_execution_with_options: an unusable device is an error, whatever
\* its kind, and so is any failure of the native load.
LoadModel ==
  /\ phase = "load"
  /\ \/ FailRun
     \/ \E info \in Select(devices, ParseSelection(request.text)) :
          /\ info.kind = Cpu
          /\ info.modelExecution
          /\ device' = info
          /\ phase' = "open"
          /\ UNCHANGED <<runInputs, window, inputs, outputs, kv, logits, drawn, stopReason>>

\* ForgeCoreContextOptions::validate, with the one thread of the run.
ContextOptionsValid == request.ctx # 0 /\ request.trace # 0

\* The context open_context asks for, the model's own where none is given.
ContextLength == IF request.ctx = Unset THEN TrainedContext ELSE request.ctx

\* prompt_tokens: a prompt without tokens becomes the BOS token, if there is one.
PromptTokens ==
  IF request.prompt = <<>> /\ request.bos # NoToken THEN <<request.bos>> ELSE request.prompt

\* A prompt as long as the context is let through; a longer one is an error.
OpenRunContext ==
  /\ phase = "open"
  /\ \/ FailRun
     \/ /\ PromptTokens # <<>>
        /\ ContextOptionsValid
        /\ Len(PromptTokens) <= ContextLength
        /\ window' = ContextLength
        /\ inputs' = PromptTokens
        /\ phase' = "prompt"
        /\ UNCHANGED <<runInputs, device, outputs, kv, logits, drawn, stopReason>>

---------------------------------------------------------------------------
(* Decoding.                                                               *)

\* The native context (external): a batch is decoded when its positions follow
\* those of the sequence and fit the context.
NativeDecodes(tokens, position) ==
  tokens # <<>> /\ position = Len(kv) /\ position + Len(tokens) <= window

\* ForgeCoreSession::decode_tokens: positions count up from the first one, and
\* the logits asked for are those of the last token.
DecodeTokens(tokens, position) ==
  /\ NativeDecodes(tokens, position)
  /\ kv' = kv \o tokens
  /\ logits' = position + Len(tokens) - 1

DecodePrompt ==
  /\ phase = "prompt"
  /\ \/ FailRun
     \/ /\ DecodeTokens(inputs, 0)
        /\ stopReason' = IF request.max = 0 THEN "max_tokens" ELSE "context_length"
        /\ phase' = "loop"
        /\ UNCHANGED <<runInputs, device, window, inputs, outputs, drawn>>

CurrentLength == Len(inputs) + Len(outputs)

\* Mutant: a loop that stops one token past the context.
ContextFullLate == CurrentLength > window

ContextFull == CurrentLength >= window

\* The loop's head: it has run out of tokens, of context, or it samples.
Sample ==
  /\ phase = "loop"
  /\ \/ /\ Len(outputs) = request.max
        /\ phase' = "done"
        /\ UNCHANGED <<drawn, stopReason>>
     \/ /\ Len(outputs) < request.max
        /\ ContextFull
        /\ stopReason' = "context_length"
        /\ phase' = "done"
        /\ UNCHANGED drawn
     \/ /\ Len(outputs) < request.max
        /\ ~ContextFull
        /\ drawn' \in Tokens
        /\ IF drawn' = eos
           THEN stopReason' = "eos" /\ phase' = "done"
           ELSE phase' = "sampled" /\ UNCHANGED stopReason
  /\ UNCHANGED <<runInputs, device, window, inputs, outputs, kv, logits>>

\* The token is recorded and its text written, which may fail; a full count
\* ends the run before the token is decoded.
Record ==
  /\ phase = "sampled"
  /\ \/ FailRun
     \/ /\ outputs' = Append(outputs, drawn)
        /\ IF Len(outputs') >= request.max
           THEN stopReason' = "max_tokens" /\ phase' = "done"
           ELSE phase' = "decode" /\ UNCHANGED stopReason
        /\ UNCHANGED <<runInputs, device, window, inputs, kv, logits, drawn>>

\* Mutant: a position that counts the token about to be decoded as decoded.
NextPositionLate == CurrentLength

NextPosition == CurrentLength - 1

DecodeNext ==
  /\ phase = "decode"
  /\ \/ FailRun
     \/ /\ DecodeTokens(<<drawn>>, NextPosition)
        /\ phase' = "loop"
        /\ UNCHANGED <<runInputs, device, window, inputs, outputs, drawn, stopReason>>

ForgeNext ==
  \/ Start \/ LoadModel \/ OpenRunContext
  \/ DecodePrompt \/ Sample \/ Record \/ DecodeNext

ForgeSpec == ForgeInit /\ [][ForgeNext]_forgeVars

---------------------------------------------------------------------------
(* Properties.                                                             *)

\* The texts that name a device: `cpu`, its id, its backend and index.
NamesOf(d) ==
  {<<"id">> \o d.id, <<"backend">> \o Append(d.backend, d.registryIndex)}
    \cup IF d.kind = Cpu THEN {<<"cpu">>, <<"CPU">>} ELSE {}

\* A model runs on a device the command line names and never on another in its
\* stead: load_for_execution_with_options promises "no CPU fallback".
RunsWhereAsked == device # Unset => request.text \in NamesOf(device)

\* The native context holds the sequence so far, each token once and at its own
\* position, and is never asked for a position it cannot take: it is sampled
\* only from the logits of the last token, and only the last token of a
\* finished run is left undecoded.
ContextHoldsSequence ==
  /\ phase \in {"loop", "sampled"} => kv = inputs \o outputs /\ logits = Len(kv) - 1
  /\ phase = "decode" => NativeDecodes(<<drawn>>, NextPosition)
  /\ phase = "done" => kv \in {inputs \o outputs, Front(inputs \o outputs)}

\* The reason printed is why the run stopped: the count asked for is reached,
\* or the sequence fills the context, or the model ended the sequence; where
\* two hold, the count comes first.
StopReasonTrue ==
  phase = "done" =>
    /\ stopReason = "max_tokens" <=> Len(outputs) = request.max
    /\ stopReason = "context_length" <=> Len(outputs) < request.max /\ CurrentLength = window
    /\ stopReason = "eos" => drawn = eos

\* A run does what its command line asks: on the device it names, and until
\* the reason that is printed (run_forgecore_inference).
RunAsAsked == RunsWhereAsked /\ StopReasonTrue
=============================================================================
