--------------------------- MODULE PlanPersistence ---------------------------
(***************************************************************************)
(* Persisted plans (crates/ramforge-runtime/src/plan_persistence.rs): what *)
(* is kept of a plan, how it is checked, written and read back, and how it *)
(* fares in the environment it is loaded into.                             *)
(*                                                                         *)
(* The encoding is a sequence of cells: a cell stands for the bytes of one *)
(* number, tag or string (read whole or not at all).  An optional value is *)
(* a presence cell and maybe the value, a list its count and its items.    *)
(***************************************************************************)
EXTENDS ExecutionPlanner

CONSTANTS MaxListItems,   \* MAX_LIST_ITEMS
          Torn            \* what a decoding returns that fails

\* from_execution_plan: everything but the model's path.
Persist(p) == [f \in DOMAIN p \ {"path"} |-> p[f]]

\* materialize: only identities, the path and the free RAM become current.
Materialize(s, ctx) ==
    [f \in DOMAIN s \cup {"path"} |->
        CASE f = "machine"   -> ctx.machine.id
          [] f = "storage"   -> ctx.storage.id
          [] f = "path"      -> ctx.storage.path
          [] f = "available" -> Default(ctx.machine.available, s.available)
          [] OTHER           -> s[f]]

ProvenanceValid(s) ==
    /\ s.calibration = None => s.observations = {}
    /\ Cardinality(s.observations) <= MaxListItems

ReasonValid(s) ==
    CASE s.reason = "NotRequested"        -> s.calibration = None /\ s.observations = {}
      [] s.reason = "NotApplicable"       -> s.observations = {}
      [] s.reason = "ObservationsApplied" -> s.calibration # None /\ s.observations # {}

\* Structure is checked on every save, load and report; a GPU plan passes.
StructureValid(s) ==
    /\ s.schema # 0 /\ s.ruleset # 0
    /\ s.available >= s.ram
    /\ s.bound <= s.ram /\ s.remaining = s.ram - s.bound
    /\ s.cache_capacity <= s.remaining
    /\ ProvenanceValid(s) /\ ReasonValid(s)
    /\ FirstError(DecisionInconsistencies(s)) \in {None, "UnsupportedGpuExecution"}

-----------------------------------------------------------------------------
(* The file format *)

Layout ==
    << <<"schema", "scalar">>, <<"ruleset", "scalar">>,
       <<"model", "scalar">>, <<"machine", "scalar">>, <<"storage", "scalar">>,
       <<"mode", "mode">>, <<"strategy", "strategy">>, <<"ram", "scalar">>, <<"threads", "scalar">>,
       <<"cache_enabled", "boolean">>, <<"cache_capacity", "scalar">>,
       <<"coalescing", "boolean">>, <<"reuse", "boolean">>,
       <<"gpu", "gpu">>, <<"device", "optional">>,
       <<"available", "scalar">>, <<"resident", "scalar">>, <<"startup", "scalar">>,
       <<"layer_peak", "scalar">>, <<"bound", "scalar">>, <<"remaining", "scalar">>,
       <<"reads", "scalar">>, <<"read_time", "optional">>, <<"latency", "optional">>,
       <<"calibration", "optional">>, <<"observations", "list">>, <<"reason", "reason">> >>

Magic == 0
SchemaVersion == 1

\* The tags of enumerations: the place in the list.
Variants ==
    [mode |-> <<"Background", "Balanced", "Performance", "Advanced">>,
     strategy |-> <<"CpuLayerStreaming", "GpuLayerOffload">>,
     gpu |-> <<"Disabled", "Prefer", "Require">>,
     reason |-> <<"NotRequested", "NotApplicable", "ObservationsApplied">>]

Tag(kind, value) == CHOOSE i \in DOMAIN Variants[kind] : Variants[kind][i] = value

EncodeField(kind, value) ==
    CASE kind = "scalar"   -> <<value>>
      [] kind = "boolean"  -> <<IF value THEN 1 ELSE 0>>
      [] kind = "optional" -> IF value = None THEN <<0>> ELSE <<1, value>>
      [] kind = "list"     -> <<Cardinality(value)>> \o SetToSortSeq(value, <)
      [] kind \in DOMAIN Variants -> <<Tag(kind, value)>>

EncodePlan(s) ==
    <<Magic, SchemaVersion>>
        \o FlattenSeq([i \in DOMAIN Layout |-> EncodeField(Layout[i][2], s[Layout[i][1]])])

\* A read takes n cells from the reader or fails: Truncated.
Truncated == [ok |-> FALSE]
Take(cells, n) ==
    IF Len(cells) < n THEN Truncated
    ELSE [ok |-> TRUE, got |-> SubSeq(cells, 1, n), rest |-> SubSeq(cells, n + 1, Len(cells))]

\* How many cells a field takes, from its first one; 0 for a bad tag or count.
FieldCells(kind, first) ==
    CASE kind = "scalar"   -> 1
      [] kind = "boolean"  -> IF first \in {0, 1} THEN 1 ELSE 0
      [] kind = "optional" -> IF first \in {0, 1} THEN 1 + first ELSE 0
      [] kind = "list"     -> IF first \in 0..MaxListItems THEN 1 + first ELSE 0
      [] kind \in DOMAIN Variants -> IF first \in DOMAIN Variants[kind] THEN 1 ELSE 0

\* Mutant: an absent value is read as zero.
FieldValueDefaulting(kind, got) ==
    CASE kind = "scalar"   -> got[1]
      [] kind = "boolean"  -> got[1] = 1
      [] kind = "optional" -> IF got[1] = 0 THEN 0 ELSE got[2]
      [] kind = "list"     -> ToSet(Tail(got))
      [] kind \in DOMAIN Variants -> Variants[kind][got[1]]

FieldValue(kind, got) ==
    CASE kind = "scalar"   -> got[1]
      [] kind = "boolean"  -> got[1] = 1
      [] kind = "optional" -> IF got[1] = 0 THEN None ELSE got[2]
      [] kind = "list"     -> ToSet(Tail(got))
      [] kind \in DOMAIN Variants -> Variants[kind][got[1]]

DecodeField(r, f) ==
    IF ~r.ok \/ r.rest = <<>> THEN Truncated
    ELSE LET n == FieldCells(f[2], r.rest[1])
             taken == Take(r.rest, n)
         IN  IF n = 0 \/ ~taken.ok THEN Truncated
             ELSE [ok |-> TRUE, rest |-> taken.rest, plan |-> r.plan @@ (f[1] :> FieldValue(f[2], taken.got))]

\* from_bytes: magic and version, the fields in order, nothing after them,
\* a valid structure.
DecodePlan(cells) ==
    LET after[i \in 0..Len(Layout)] ==
            IF i = 0 THEN [ok |-> TRUE, rest |-> SubSeq(cells, 3, Len(cells)), plan |-> <<>>]
            ELSE CHOOSE r \in {DecodeField(before, Layout[i]) : before \in {after[i - 1]}} : TRUE
        end == after[Len(Layout)]
    IN  IF Len(cells) < 2 \/ SubSeq(cells, 1, 2) # <<Magic, SchemaVersion>> THEN Torn
        ELSE IF ~end.ok THEN Torn
        ELSE IF end.rest # <<>> \/ ~StructureValid(end.plan) THEN Torn
        ELSE end.plan

-----------------------------------------------------------------------------
(* Compatibility of a loaded plan *)

\* Mutant: any calibration of this machine, model and storage will do.
CalibrationMismatchAny(s, ctx, c) ==
    IF c = None THEN "CalibrationMissing"
    ELSE FirstError(
        << <<~CalibrationValid(c), "CalibrationInvalid">>,
           <<c.machine # ctx.machine.id \/ c.model # ctx.model.id \/ c.storage # ctx.storage.id,
             "CalibrationBindingMismatch">> >>)

\* calibration_mismatch_reason, in its order.
CalibrationMismatch(s, ctx, c) ==
    IF c = None THEN "CalibrationMissing"
    ELSE FirstError(
        << <<~CalibrationValid(c), "CalibrationInvalid">>,
           <<s.machine # ctx.machine.id, "CalibrationSourceMachineChanged">>,
           <<s.storage # ctx.storage.id, "CalibrationSourceStorageChanged">>,
           <<s.calibration # c.id, "CalibrationProvenanceMismatch">>,
           <<c.machine # ctx.machine.id \/ c.model # ctx.model.id \/ c.storage # ctx.storage.id,
             "CalibrationBindingMismatch">>,
           <<\E id \in s.observations :
                ~\E i \in DOMAIN c.observations :
                    c.observations[i].id = id /\ c.observations[i].status = "Measured",
             "CalibrationObservationUnavailable">> >>)

\* That a calibration fits is not one of the reasons why one does not.
ASSUME MismatchAssumption ==
    None \notin {"CalibrationMissing", "CalibrationInvalid", "CalibrationSourceMachineChanged",
                 "CalibrationSourceStorageChanged", "CalibrationProvenanceMismatch",
                 "CalibrationBindingMismatch", "CalibrationObservationUnavailable",
                 "CalibrationNotApplied"}

RecalibrationReason(s, ctx, c) ==
    CASE s.reason = "NotRequested"        -> None
      [] s.reason = "NotApplicable"       -> "CalibrationNotApplied"
      [] s.reason = "ObservationsApplied" -> CalibrationMismatch(s, ctx, c)

CompatibilityReport(s, ctx, c) ==
    IF ~StructureValid(s) \/ s.model # ctx.model.id THEN "Incompatible"
    ELSE IF ~Compile(Materialize(s, ctx), ctx).ok THEN "Incompatible"
    ELSE IF RecalibrationReason(s, ctx, c) = None THEN "Valid"
    ELSE "RecalibrationRecommended"
=============================================================================
