------------------------- MODULE ResourceAccounting -------------------------
(***************************************************************************)
(* The registry of resources and its snapshots (crates/ramforge-core/src/  *)
(* resource.rs).  A measurement keeps what it knows of a number of bytes   *)
(* apart from what it estimates and from what it does not know.            *)
(***************************************************************************)
EXTENDS Integers, FiniteSets, FiniteSetsExt

CONSTANTS
    NoBytes,
    ResourceIds, AllocationIds, Domains,
    NoId,       \* the empty identifier
    LargestTotal,  \* the largest value of a byte total
    Descriptors,   \* GGUF tensor descriptors
    Measures       \* byte measurements

VARIABLE registry

Exact(bytes) == [certainty |-> "Exact", bytes |-> bytes]
Estimated(bytes) == [certainty |-> "Estimated", bytes |-> bytes]
Unknown == [certainty |-> "Unknown", bytes |-> NoBytes]

\* A measurement is a number of bytes with what it is worth, or unknown.
IsMeasure(m) == m = Unknown \/ (m.bytes \in Nat /\ m \in {Exact(m.bytes), Estimated(m.bytes)})

ASSUME MeasuresAssumption == NoBytes \notin Nat /\ \A m \in Measures : IsMeasure(m)

AlignmentPadding(requested, actual) ==
    IF requested.bytes = NoBytes \/ actual.bytes = NoBytes \/ actual.bytes < requested.bytes THEN Unknown
    ELSE IF requested.certainty = "Exact" /\ actual.certainty = "Exact"
         THEN Exact(actual.bytes - requested.bytes)
    ELSE Estimated(actual.bytes - requested.bytes)

Allocation(id, domain, requested, actual, resident) ==
    [id |-> id, domain |-> domain, requested |-> requested, actual |-> actual,
     padding |-> AlignmentPadding(requested, actual), resident |-> resident]

\* An allocation of which only the request is known.
UnmeasuredAllocation(id, domain, requested) ==
    Allocation(id, domain, requested, Unknown, Unknown)

(***************************************************************************)
(* The logical size of a tensor: unknown for an unknown type, an           *)
(* incomplete block or a size beyond the counter.                          *)
(***************************************************************************)
LogicalTensorBytes(type, elements) ==
    IF elements = 0 THEN Exact(0)
    ELSE IF type.block = NoBytes \/ type.block = 0 THEN Unknown
    ELSE IF elements % type.block # 0 THEN Unknown
    ELSE LET bytes == (elements \div type.block) * type.bytes
         IN IF bytes > LargestTotal THEN Unknown
            ELSE IF type.estimated THEN Estimated(bytes) ELSE Exact(bytes)

\* The families of tensor names that classify_tensor_name tells apart; a block
\* without a readable number is part of the rest of the model.
Classify(tensor) ==
    CASE tensor.family = "token_embd" -> [scope |-> "Embedding", layer |-> NoBytes]
      [] tensor.family = "output" -> [scope |-> "Output", layer |-> NoBytes]
      [] tensor.family = "output_norm" -> [scope |-> "Persistent", layer |-> NoBytes]
      [] tensor.family = "blk" /\ tensor.number # NoBytes -> [scope |-> "Layer", layer |-> tensor.number]
      [] OTHER -> [scope |-> "Model", layer |-> NoBytes]

\* from_descriptor: a file-backed tensor, with no allocation.
TensorRecord(id, tensor) ==
    [id |-> id, category |-> "Weights", weight |-> Classify(tensor),
     logical |-> LogicalTensorBytes(tensor.type, tensor.elements),
     file |-> IF tensor.byte_length = NoBytes THEN Unknown ELSE Exact(tensor.byte_length),
     allocation |-> NoBytes]

\* A runtime buffer; one that is not measured has an unknown logical size.
RuntimeRecord(id, category, logical, allocation) ==
    [id |-> id, category |-> category, weight |-> NoBytes, logical |-> logical, file |-> NoBytes,
     allocation |-> allocation]
-----------------------------------------------------------------------------
NewRegistry == [resources |-> {}, owners |-> {}]

RegistryInit == registry = NewRegistry

Registered(id) == \E r \in registry.resources : r.id = id
Owned(allocation) == \E pair \in registry.owners : pair[1] = allocation.id

Insertable(r) ==
    /\ r.id # NoId
    /\ ~Registered(r.id)
    /\ r.allocation # NoBytes => r.allocation.id # NoId /\ ~Owned(r.allocation)

InsertRecord(r) ==
    /\ registry' = IF ~Insertable(r) THEN registry
                   ELSE [resources |-> registry.resources \union {r},
                         owners |-> registry.owners \union
                             (IF r.allocation = NoBytes THEN {} ELSE {<<r.allocation.id, r.id>>})]

\* Mutant: the allocation of a removed resource stays owned.
RemoveRecordOnly(id) ==
    registry' = [registry EXCEPT !.resources = {r \in @ : r.id # id}]

RemoveRecord(id) ==
    LET removed == {r \in registry.resources : r.id = id /\ r.allocation # NoBytes}
    IN registry' = [resources |-> {r \in registry.resources : r.id # id},
                    owners |-> {pair \in registry.owners :
                                  pair[1] \notin {r.allocation.id : r \in removed}}]

Records ==
    {TensorRecord(id, tensor) : id \in ResourceIds, tensor \in Descriptors}
        \union {RuntimeRecord(id, category, logical, NoBytes) :
                   id \in ResourceIds, category \in {"KvCache"}, logical \in Measures}
        \union {RuntimeRecord(id, category, Unknown, allocation) :
                   id \in ResourceIds, category \in {"KvCache", "Weights"},
                   allocation \in {Allocation(a, domain, requested, actual, Unknown) :
                                      a \in AllocationIds, domain \in Domains,
                                      requested \in Measures, actual \in Measures}
                                   \union {UnmeasuredAllocation(a, domain, requested) :
                                      a \in AllocationIds, domain \in Domains,
                                      requested \in Measures}}

RegistryNext ==
    \/ \E r \in Records : InsertRecord(r)
    \/ \E id \in ResourceIds : RemoveRecord(id)
-----------------------------------------------------------------------------
\* A total of measurements, by record, kept apart by what is known.
ByteTotal(measured) ==
    LET Of(certainty) == {r \in DOMAIN measured : measured[r].certainty = certainty}
    IN [exact |-> MapThenSumSet(LAMBDA r : measured[r].bytes, Of("Exact")),
        estimated |-> MapThenSumSet(LAMBDA r : measured[r].bytes, Of("Estimated")),
        unknown |-> Cardinality(Of("Unknown"))]

RegistrySpec == RegistryInit /\ [][RegistryNext]_registry

InDomain(records, domain) ==
    {r \in records : r.allocation # NoBytes /\ r.allocation.domain = domain}

Categories(records) == {r.category : r \in records}

\* Every total of a snapshot, before the counters' width.
Totals(records) ==
    [logical |-> ByteTotal([r \in {s \in records : s.category = "Weights"} |-> r.logical]),
     file |-> ByteTotal([r \in {s \in records : s.file # NoBytes} |-> r.file]),
     requested |-> [d \in Domains |-> ByteTotal([r \in InDomain(records, d) |-> r.allocation.requested])],
     actual |-> [d \in Domains |-> ByteTotal([r \in InDomain(records, d) |-> r.allocation.actual])],
     padding |-> [d \in Domains |-> ByteTotal([r \in InDomain(records, d) |-> r.allocation.padding])],
     resident |-> [d \in Domains |-> ByteTotal([r \in InDomain(records, d) |-> r.allocation.resident])],
     category |-> [d \in Domains, c \in Categories(records) |->
                      ByteTotal([r \in {s \in InDomain(records, d) : s.category = c} |->
                                    r.allocation.actual])]]

Representable(total) == total.exact <= LargestTotal /\ total.estimated <= LargestTotal

\* snapshot: an error (NoBytes) as soon as one total leaves the counter's width.
Snapshot(records) ==
    LET totals == Totals(records)
    IN IF /\ Representable(totals.logical) /\ Representable(totals.file)
          /\ \A d \in Domains :
                /\ Representable(totals.requested[d]) /\ Representable(totals.actual[d])
                /\ Representable(totals.padding[d]) /\ Representable(totals.resident[d])
                /\ \A c \in Categories(records) : Representable(totals.category[<<d, c>>])
       THEN totals ELSE NoBytes
-----------------------------------------------------------------------------
\* All the bytes a total was given, the exact and the estimated ones
\* (known_lower_bound_bytes is the exact part alone).
BytesGiven(total) == total.exact + total.estimated

(***************************************************************************)
(* The registry's two maps describe the same allocations after any inserts *)
(* (refused ones included) and removals, so that an identifier is free     *)
(* again exactly when its resource is gone; and where a snapshot has the   *)
(* padding of every allocation of a domain, exact or estimated, the bytes  *)
(* given as requests and as padding add up to those given as actual ones:  *)
(* nothing unknown was counted as zero.                                    *)
(***************************************************************************)
RegistryAddsUp ==
    /\ registry.owners = {<<r.allocation.id, r.id>> :
                             r \in {s \in registry.resources : s.allocation # NoBytes}}
    /\ \A p, q \in registry.owners : p[1] = q[1] => p = q
    /\ LET snapshot == Snapshot(registry.resources)
       IN snapshot # NoBytes =>
            \A d \in Domains :
               /\ snapshot.padding[d].unknown = 0 =>
                     /\ snapshot.actual[d].unknown = 0
                     /\ BytesGiven(snapshot.requested[d]) + BytesGiven(snapshot.padding[d])
                           = BytesGiven(snapshot.actual[d])
               /\ snapshot.padding[d].unknown >= snapshot.actual[d].unknown
=============================================================================
