----------------------------- MODULE GgufSource -----------------------------
(***************************************************************************)
(* GGUF model sets (crates/ramforge-core/src/gguf.rs, model_set.rs) and    *)
(* the data source that reads tensors from their files (datasource.rs).    *)
(*                                                                         *)
(* A directory maps names to files.  A name is <<prefix, index, count>>    *)
(* for '<prefix>-<index>-of-<count>.gguf' and <<prefix>> for any other.  A *)
(* file is what its header says, with its size; its byte at position p is  *)
(* the pair <<name, p>>.  Readers are threads: each shard's file handle is *)
(* behind a lock that is taken for one contiguous piece of a read.         *)
(***************************************************************************)
EXTENDS Integers, FiniteSets, SequencesExt, FiniteSetsExt

CONSTANTS
    Directories,   \* contents of the model's directory
    Readers,       \* threads that read
    ElementBytes,  \* size of an F32 element
    MaxReads       \* bound on the number of reads

VARIABLES
    directory,  \* the files
    source,     \* the open data source
    reads,      \* what each reader is doing
    io          \* the I/O profile

sourceVars == <<directory, source, reads, io>>

Absent == -1      \* a metadata key that there is not
NotANumber == -2  \* one that holds something else

\* What a header may say: lengths, offsets and counts are numbers, and a count
\* may be absent or hold something else.
ASSUME DirectoriesAssumption ==
    \A dir \in Directories :
        /\ IsFiniteSet(DOMAIN dir)
        /\ \A name \in DOMAIN dir :
              LET file == dir[name]
              IN  /\ name \in Seq(Range(name))
                  /\ {file.header_end, file.alignment, file.size} \subseteq Nat
                  /\ {file.split_count, file.split_no, file.tensor_count}
                        \subseteq Nat \union {Absent, NotANumber}
                  /\ file.tensors \in Seq(Range(file.tensors))
                  /\ \A i \in DOMAIN file.tensors :
                        LET t == file.tensors[i]
                        IN  {t.elements, t.block, t.block_bytes, t.offset} \subseteq Nat

ASSUME ReadersAssumption == IsFiniteSet(Readers) /\ ElementBytes \in Nat
-----------------------------------------------------------------------------
(* Parsing *)

AlignOffset(offset, alignment) ==
    IF alignment = 0 THEN offset ELSE offset + ((alignment - (offset % alignment)) % alignment)

\* The parser knows the byte length of the types it knows.
ByteLength(t) ==
    IF t.block = 0 THEN Absent ELSE ((t.elements + t.block - 1) \div t.block) * t.block_bytes

DataStart(file) == AlignOffset(file.header_end, file.alignment)

ParseGguf(name, file) ==
    [name |-> name, size |-> file.size, data_start |-> DataStart(file),
     split_count |-> file.split_count, split_no |-> file.split_no,
     tensor_count |-> file.tensor_count, general |-> file.general, architecture |-> file.architecture,
     tensors |-> [i \in DOMAIN file.tensors |->
                     LET t == file.tensors[i]
                     IN [name |-> t.name, elements |-> t.elements, f32 |-> t.f32,
                         bytes |-> ByteLength(t), at |-> DataStart(file) + t.offset,
                         byte0 |-> <<name, DataStart(file) + t.offset>>]]]

\* Files whose header the parser accepts.
Parses(file) == file.readable

-----------------------------------------------------------------------------
(* Model sets *)

SplitCount(m) == IF m.split_count = Absent THEN 1 ELSE m.split_count

\* The shards that say something say the same.
Agree(values) == Cardinality(values \ {Absent}) <= 1

DataLength(m) == IF m.size < m.data_start THEN 0 ELSE m.size - m.data_start

AllTensors(shards) == FlattenSeq([i \in DOMAIN shards |-> shards[i].tensors])

Assembles(count, candidates) ==
    LET tensors == AllTensors(SetToSeq(candidates))
        counts == {m.tensor_count : m \in candidates}
    IN /\ Cardinality(candidates) = count
       /\ NotANumber \notin counts /\ Agree(counts)
       /\ \A m \in candidates : SplitCount(m) = count
       /\ {m.split_no : m \in candidates} = 0..(count - 1)
       /\ Agree({m.general : m \in candidates})
       /\ Agree({m.architecture : m \in candidates})
       /\ Cardinality({tensors[i].name : i \in DOMAIN tensors}) = Len(tensors)
       /\ \A m \in candidates : \A i \in DOMAIN m.tensors :
             m.tensors[i].bytes # Absent => m.tensors[i].at + m.tensors[i].bytes <= m.size
       /\ counts \subseteq {Absent, Len(tensors)}
       /\ \A m \in candidates : m.split_no = 0 => m.architecture # Absent

\* assemble_shards: the shards in the order of split.no; <<>> is an error.
AssembleShards(count, candidates) ==
    IF ~Assembles(count, candidates) THEN <<>>
    ELSE [i \in 1..count |-> CHOOSE m \in candidates : m.split_no = i - 1]

StandardName(name) == Len(name) = 3 /\ name[2] \in 1..name[3]

Parsed(dir, names) == {ParseGguf(name, dir[name]) : name \in names}

DiscoverFromFile(dir, name) ==
    LET m == ParseGguf(name, dir[name])
        names == {<<name[1], i, name[3]>> : i \in 1..SplitCount(m)}
    IN IF ~Parses(dir[name]) \/ m.split_count = NotANumber THEN <<>>
       ELSE IF SplitCount(m) <= 1 THEN <<m>>
       ELSE IF ~StandardName(name) THEN <<>>
       ELSE IF /\ name[3] = SplitCount(m)
               /\ \A n \in names : n \in DOMAIN dir /\ Parses(dir[n])
       THEN AssembleShards(SplitCount(m), Parsed(dir, names)) ELSE <<>>

DiscoverFromDir(dir) ==
    LET models == Parsed(dir, DOMAIN dir)
        split == {m \in models : SplitCount(m) > 1}
    IN IF \/ models = {}
          \/ \E name \in DOMAIN dir : ~Parses(dir[name])
          \/ \E m \in models : m.split_count = NotANumber
       THEN <<>>
       ELSE IF split = {} THEN IF Cardinality(models) = 1 THEN SetToSeq(models) ELSE <<>>
       ELSE IF /\ split = models
               /\ \A m \in models : StandardName(m.name) /\ m.name[3] = SplitCount(m)
               /\ Cardinality({<<m.name[1], m.name[3]>> : m \in models}) = 1
       THEN AssembleShards(SplitCount(CHOOSE m \in models : TRUE), models) ELSE <<>>

-----------------------------------------------------------------------------
(* The address space of a set.  Of one file it is the file; of several it  *)
(* is their data sections one after the other.                             *)

IsSharded(shards) == Len(shards) > 1

VirtualLength(shards, i) == IF IsSharded(shards) THEN DataLength(shards[i]) ELSE shards[i].size

VirtualStart(shards, i) == MapThenSumSet(LAMBDA j : VirtualLength(shards, j), 1..(i - 1))

PhysicalStart(shards, i) == IF IsSharded(shards) THEN shards[i].data_start ELSE 0

MergedTensors(shards) ==
    IF ~IsSharded(shards) THEN shards[1].tensors
    ELSE FlattenSeq([i \in DOMAIN shards |->
            [k \in DOMAIN shards[i].tensors |->
                [shards[i].tensors[k] EXCEPT
                    !.at = MapThenSumSet(LAMBDA j : DataLength(shards[j]), 1..(i - 1))
                             + (@ - shards[i].data_start)]]])

VirtualSize(shards) == MapThenSumSet(LAMBDA i : VirtualLength(shards, i), DOMAIN shards)

Closed == [shards |-> <<>>]

SourceOf(shards) ==
    [shards |-> shards, tensors |-> MergedTensors(shards), size |-> VirtualSize(shards),
     data_start |-> IF IsSharded(shards) THEN 0 ELSE shards[1].data_start,
     position |-> [i \in DOMAIN shards |-> 0],  \* what the source takes the cursor to be
     cursor |-> [i \in DOMAIN shards |-> 0],    \* the cursor of the file handle
     started |-> 0]                              \* reads so far (a bound)

-----------------------------------------------------------------------------
NoRead == [phase |-> "idle"]
NoIo == [bytes_read |-> 0, read_operations |-> 0, read_failures |-> 0, seek_operations |-> 0,
         seeks_avoided |-> 0, logical_tensor_reads |-> 0, logical_tensor_bytes |-> 0,
         coalesced_ranges |-> 0, coalesced_gap_bytes |-> 0]

SourceStart(directories) ==
    /\ directory \in directories
    /\ source = Closed
    /\ reads = [r \in Readers |-> NoRead]
    /\ io = NoIo

SourceInit == SourceStart(Directories)

Open(shards) ==
    /\ source = Closed
    /\ shards # <<>>
    /\ source' = SourceOf(shards)
    /\ UNCHANGED <<directory, reads, io>>

InBounds(start, length) == start >= source.data_start /\ start + length <= source.size

\* A read that passed validation: length bytes of the address space from
\* start, for these tensors.
BeginRead(r, tensors, start, length) ==
    /\ source # Closed
    /\ reads[r] = NoRead
    /\ source.started < MaxReads
    /\ InBounds(start, length)
    /\ source' = [source EXCEPT !.started = @ + 1]
    /\ reads' = [reads EXCEPT ![r] = [phase |-> "reading", tensors |-> tensors, start |-> start,
                                      length |-> length, bytes |-> <<>>, operations |-> 0]]
    /\ UNCHANGED <<directory, io>>

Tensor(i) == source.tensors[i]

ReadTensor(r, i) ==
    /\ Tensor(i).bytes # Absent
    /\ BeginRead(r, {i}, Tensor(i).at, Tensor(i).bytes)

ReadTensorRange(r, i, offset, length) ==
    /\ Tensor(i).bytes # Absent
    /\ offset + length <= Tensor(i).bytes
    /\ BeginRead(r, {i}, Tensor(i).at + offset, length)

ReadF32TensorRange(r, i, offset, count) ==
    /\ Tensor(i).f32
    /\ Tensor(i).bytes = Tensor(i).elements * ElementBytes
    /\ offset + count <= Tensor(i).elements
    /\ BeginRead(r, {i}, Tensor(i).at + offset * ElementBytes, count * ElementBytes)

LogicalBytes(tensors) == MapThenSumSet(LAMBDA i : Tensor(i).bytes, tensors)

ReadCoalescedTensorRange(r, tensors, start, length) ==
    /\ tensors # {}
    /\ \A i \in tensors :
          /\ Tensor(i).bytes # Absent
          /\ InBounds(Tensor(i).at, Tensor(i).bytes)
          /\ start <= Tensor(i).at /\ Tensor(i).at + Tensor(i).bytes <= start + length
    /\ LogicalBytes(tensors) <= length
    /\ BeginRead(r, tensors, start, length)

\* read_exact_into: the next piece lies in this shard, up to its end.
ShardAt(virtual) ==
    CHOOSE i \in DOMAIN source.shards :
        /\ virtual >= VirtualStart(source.shards, i)
        /\ virtual < VirtualStart(source.shards, i) + VirtualLength(source.shards, i)

Lesser(a, b) == IF a < b THEN a ELSE b

Piece(r) ==
    LET read == reads[r]
        virtual == read.start + Len(read.bytes)
        i == ShardAt(virtual)
        end == VirtualStart(source.shards, i) + VirtualLength(source.shards, i)
    IN [shard |-> i, length |-> Lesser(end - virtual, read.length - Len(read.bytes)),
        physical |-> virtual - VirtualStart(source.shards, i) + PhysicalStart(source.shards, i)]

InProgress(r) == reads[r].phase = "reading" /\ Len(reads[r].bytes) < reads[r].length

\* The seek is skipped where the cursor is taken to be in place already.
Positioned(p) == source.position[p.shard] = p.physical

WithSeek(p) ==
    IF Positioned(p) THEN [io EXCEPT !.seeks_avoided = @ + 1]
    ELSE [io EXCEPT !.seek_operations = @ + 1]

ReadPiece(r) ==
    /\ InProgress(r)
    /\ LET p == Piece(r)
           from == IF Positioned(p) THEN source.cursor[p.shard] ELSE p.physical
           name == source.shards[p.shard].name
       IN /\ from + p.length <= source.shards[p.shard].size
          /\ reads' = [reads EXCEPT ![r].bytes = @ \o [k \in 1..p.length |-> <<name, from + k - 1>>],
                                    ![r].operations = @ + 1]
          /\ source' = [source EXCEPT !.position[p.shard] = p.physical + p.length,
                                      !.cursor[p.shard] = from + p.length]
          /\ io' = WithSeek(p)
    /\ UNCHANGED directory

\* Mutant: the position is kept when a read failed.
PositionAfterFailureKept(p) == p.physical

PositionAfterFailure(p) == Absent

\* The seek or the read fails; a read may have moved the cursor.
ReadPieceFails(r) ==
    /\ InProgress(r)
    /\ LET p == Piece(r)
       IN /\ source' \in {[source EXCEPT !.position[p.shard] = PositionAfterFailure(p),
                                         !.cursor[p.shard] = c] :
                             c \in {source.cursor[p.shard], p.physical + p.length - 1}}
          /\ io' = WithSeek(p)
    /\ reads' = [reads EXCEPT ![r].phase = "failed"]
    /\ UNCHANGED directory

\* record_read, record_tensor_read and record_coalesced_range.
RecordedRead(r, failed) ==
    LET read == reads[r]
        many == Cardinality(read.tensors) > 1
        logical == IF many THEN LogicalBytes(read.tensors) ELSE read.length
    IN [io EXCEPT !.bytes_read = IF failed THEN @ ELSE @ + read.length,
                  !.read_operations = IF failed THEN @ ELSE @ + read.operations,
                  !.read_failures = IF failed THEN @ + 1 ELSE @,
                  !.logical_tensor_reads = @ + Cardinality(read.tensors),
                  !.logical_tensor_bytes = IF failed THEN @ ELSE @ + logical,
                  !.coalesced_ranges = IF many /\ ~failed THEN @ + 1 ELSE @,
                  !.coalesced_gap_bytes = IF many /\ ~failed THEN @ + read.length - logical ELSE @]

EndRead(r) ==
    /\ reads[r] # NoRead
    /\ ~InProgress(r)
    /\ io' = RecordedRead(r, reads[r].phase = "failed")
    /\ reads' = [reads EXCEPT ![r] = NoRead]
    /\ UNCHANGED <<directory, source>>

\* Between generations.
ResetIoProfile ==
    /\ \A r \in Readers : reads[r] = NoRead
    /\ io # NoIo
    /\ io' = NoIo
    /\ UNCHANGED <<directory, source, reads>>

\* What layers are loaded with: neighbouring tensors and the span they take.
Spans ==
    LET known == {i \in DOMAIN source.tensors : Tensor(i).bytes # Absent}
    IN {tensors \in SUBSET known : Cardinality(tensors) = 2}

StartOf(tensors) == Min({Tensor(i).at : i \in tensors})
EndOf(tensors) == Max({Tensor(i).at + Tensor(i).bytes : i \in tensors})

SourceNext ==
    \/ Open(DiscoverFromDir(directory))
    \/ \E name \in DOMAIN directory : Open(DiscoverFromFile(directory, name))
    \/ ResetIoProfile
    \/ \E r \in Readers :
          \/ source # Closed /\ \E i \in DOMAIN source.tensors :
                \/ ReadTensor(r, i)
                \/ ReadTensorRange(r, i, 1, 1)
                \/ ReadF32TensorRange(r, i, 1, 1)
          \/ source # Closed /\ \E tensors \in Spans :
                ReadCoalescedTensorRange(r, tensors, StartOf(tensors), EndOf(tensors) - StartOf(tensors))
          \/ ReadPiece(r)
          \/ ReadPieceFails(r)
          \/ EndRead(r)

SourceSpec == SourceInit /\ [][SourceNext]_sourceVars

-----------------------------------------------------------------------------
\* A set found in a directory is the one found from each of its shards, and a
\* sharded one is one model: every tensor has its own name and, if its length
\* is known, lies within its file (a single file is taken as it is parsed)
\* (discover_from_dir, discover_from_file, assemble_shards).
SetsAgree ==
    LET shards == DiscoverFromDir(directory)
        tensors == AllTensors(shards)
    IN /\ \A i \in DOMAIN shards : DiscoverFromFile(directory, shards[i].name) = shards
       /\ IsSharded(shards) =>
             /\ \A i, j \in DOMAIN tensors : tensors[i].name = tensors[j].name => i = j
             /\ \A i \in DOMAIN tensors :
                   tensors[i].bytes # Absent =>
                      tensors[i].at + tensors[i].bytes <= directory[tensors[i].byte0[1]].size

\* A read that did not fail has exactly the bytes of its tensors, from their
\* own shards: across shard boundaries, with seeks skipped, with other reads
\* moving the same cursor between its pieces and after reads that failed
\* half-way (merged_model, shard_layouts, read_exact_into,
\* ensure_file_position).
ReadsReturnTheTensor ==
    \A r \in Readers :
        reads[r].phase = "reading" =>
            \A i \in reads[r].tensors :
                \A k \in 0..(Tensor(i).bytes - 1) :
                    LET t == Tensor(i)
                        j == t.at + k - reads[r].start + 1
                    IN j \in DOMAIN reads[r].bytes
                        => reads[r].bytes[j] = <<t.byte0[1], t.byte0[2] + k>>

\* What was read from the files is what tensors asked for and the gaps
\* between them, and every physical read was preceded by a seek or by the
\* decision to skip it (record_read, record_tensor_read,
\* record_coalesced_range).
IoProfileAddsUp ==
    /\ io.bytes_read = io.logical_tensor_bytes + io.coalesced_gap_bytes
    /\ io.read_operations <= io.seek_operations + io.seeks_avoided

\* From files to bytes: the set found is one model, each read returns the bytes
\* of its tensors and the I/O profile accounts for all of them
\* (GgufDataSource, discover_model_set).
TensorReadsFaithful == SetsAgree /\ ReadsReturnTheTensor /\ IoProfileAddsUp
=============================================================================
