------------------------------ MODULE PlanStore ------------------------------
(***************************************************************************)
(* A plan's file under save_new and load                                   *)
(* (crates/ramforge-runtime/src/plan_persistence.rs).  A save creates the  *)
(* file, which must not exist, and writes the encoding in pieces; it may   *)
(* fail or be killed between two of them, and nothing removes what it      *)
(* left.  The file is flushed but not synced, so that a power loss may     *)
(* take any tail of it, or the file.  A load reads in pieces too, maybe of *)
(* a file that another instance is still writing, and decodes what it has  *)
(* when it meets the end.                                                  *)
(***************************************************************************)
EXTENDS Integers, Sequences

CONSTANTS Plans, None, Torn,
          Encode(_), Decode(_),   \* the format: EncodePlan and DecodePlan
          Cuts                    \* bound of the model: where a write or a
                                  \* read may stop within the encoding

VARIABLES owner,     \* the plan whose save took the path, None before
          file,      \* None or what was written: [cells, length]
          writing,   \* is the save under way
          reader,    \* None or what a load has read: [cells, length]
          loaded     \* what the last load returned: a plan, Torn or None

svars == <<owner, file, writing, reader, loaded>>

Size(p) == Len(Encode(p))

Cut(cells, n) == [cells |-> [i \in 1..n |-> cells[i]], length |-> n]

\* What the refinement needs of the format: a plan is read back as it was
\* written, and no strict prefix of it is taken for a plan.
FormatOf(p) ==
    /\ Size(p) \in Nat \ {0}
    /\ Decode(Cut(Encode(p), Size(p)).cells) = p
    /\ \A n \in 0..(Size(p) - 1) : Decode(Cut(Encode(p), n).cells) = Torn

FormatCorrect ==
    /\ \A p \in Plans : FormatOf(p) /\ \A n \in 0..Size(p) : Cut(Encode(p), n) # None
    /\ None \notin Plans /\ Torn \notin Plans /\ None # Torn

StoreInit == owner = None /\ file = None /\ writing = FALSE /\ reader = None /\ loaded = None

\* Mutant: a save creates the file or truncates the one that is there.
CreateOver(p) ==
    /\ ~writing
    /\ owner' = p /\ file' = Cut(Encode(p), 0) /\ writing' = TRUE

\* create_new: the file must not exist.
CreateNew(p) ==
    /\ file = None
    /\ owner' = p /\ file' = Cut(Encode(p), 0) /\ writing' = TRUE

SaveNew(p) == CreateNew(p) /\ UNCHANGED <<reader, loaded>>

\* write_all goes on, maybe to the end.
Write ==
    /\ writing
    /\ \E n \in (Cuts \cap (file.length + 1)..Size(owner)) \cup {Size(owner)} :
          file' = Cut(Encode(owner), n)
    /\ UNCHANGED <<owner, writing, reader, loaded>>

\* The save returns: everything is written, or a write failed, or the
\* process was killed.  What is in the file stays.
SaveEnds ==
    /\ writing
    /\ writing' = FALSE
    /\ UNCHANGED <<owner, file, reader, loaded>>

PowerLoss ==
    /\ file # None
    /\ \/ \E n \in (Cuts \cap 0..file.length) \cup {file.length} : file' = Cut(file.cells, n) /\ UNCHANGED owner
       \/ file' = None /\ owner' = None
    /\ writing' = FALSE /\ reader' = None
    /\ UNCHANGED loaded

OpenFile ==
    /\ file # None /\ reader = None
    /\ \E n \in (Cuts \cap 0..file.length) \cup {file.length} : reader' = Cut(file.cells, n)
    /\ UNCHANGED <<owner, file, writing, loaded>>

AtEnd(length) == length = file.length

\* Reads go on to the end of the file, which is where it is at the last one.
ReadToEnd ==
    /\ reader # None
    /\ AtEnd(reader.length)
    /\ loaded' = Decode(reader.cells)
    /\ reader' = None
    /\ UNCHANGED <<owner, file, writing>>

ReadMore ==
    /\ reader # None /\ reader.length < file.length
    /\ reader' = Cut([i \in 1..file.length |->
                        IF i <= reader.length THEN reader.cells[i] ELSE file.cells[i]], file.length)
    /\ UNCHANGED <<owner, file, writing, loaded>>

ReadFails ==
    /\ reader # None
    /\ reader' = None /\ loaded' = None
    /\ UNCHANGED <<owner, file, writing>>

StoreNext ==
    \/ \E p \in Plans : SaveNew(p)
    \/ Write \/ SaveEnds \/ PowerLoss \/ OpenFile \/ ReadToEnd \/ ReadMore \/ ReadFails

StoreSpec == StoreInit /\ [][StoreNext]_svars

-----------------------------------------------------------------------------
(* The refinement of PlanFile *)

\* What is in the file is a prefix of its owner's encoding, and what a load
\* has read is a prefix of that.
StoreInv ==
    /\ file = None => owner = None /\ reader = None /\ writing = FALSE
    /\ file # None =>
          /\ owner \in Plans
          /\ file.length \in 0..Size(owner) /\ file = Cut(Encode(owner), file.length)
          /\ reader # None =>
                reader.length \in 0..file.length /\ reader = Cut(Encode(owner), reader.length)

Content == IF file = None THEN None ELSE Decode(file.cells)

File == INSTANCE PlanFile WITH content <- Content, saved <- owner

\* What a load returns is the plan that was saved, or nothing: saving and
\* loading behave as PlanFile says, through crashes, power losses and loads
\* of a file that is being written.
BehavesAsPlanFile == File!FileSpec
=============================================================================
