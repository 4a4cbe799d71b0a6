----------------------------- MODULE HostProofs -----------------------------
(***************************************************************************)
(* What RAMforge does with its host, for every value of the constants.     *)
(* A supervised run: its safety properties, for every number of removal    *)
(* attempts, rest on where the supervisor can be in each phase of the      *)
(* child's and of the cgroup's life, which the properties themselves do not *)
(* mention.  The plan files: saving and loading implements PlanFile, for   *)
(* every format that FormatCorrect describes, every set of plans and       *)
(* wherever writes and reads stop.  The layers read from the model file:   *)
(* for every sequence of tensors, every limit of the read plan and every   *)
(* budget, the plan covers the tensors, the estimates are what a load then *)
(* costs, and a load that fails gives everything back.                     *)
(***************************************************************************)
EXTENDS Supervisor, PlanStore, LayerLoad, LayerStoreProofs
-----------------------------------------------------------------------------
(* The supervised run.                                                     *)
\* The phases of the run: which child, cgroup and ending go with which place.
Setup == {"create", "limit", "spawn"}
Watching == {"poll", "check", "reap", "wait"}
Closing == {"remove", "drop", "done"}

\* The cgroup is bare only while its limits are written, and stays limited
\* until its removal.
CgroupPhases ==
    /\ stage = "create" => cgroup = "absent"
    /\ cgroup = "bare" => stage = "limit"
    /\ stage \in {"spawn", "stats", "remove"} \cup Watching => cgroup = "limited"

\* There is a child exactly between its spawn and the end of the run.
ChildPhases ==
    /\ stage \in Setup => child = "none"
    /\ stage \in Watching \cup {"stats", "remove"} => child # "none"

\* The child's status is taken once, from a dead child, before the outcome.
ReapedPhases ==
    /\ reaped => child \in Dead /\ stage \in {"stats"} \cup Closing
    /\ stage \in {"stats", "remove"} => reaped
    /\ ending = "Ok" => reaped
    /\ ending = "Err" => ~reaped
    /\ ending = "none" <=> stage \notin Closing

\* Nobody is killed before the timeout is recorded.
KillPhases ==
    /\ doomed => timed_out
    /\ child = "killed" => timed_out
    /\ stage \in {"reap", "wait"} => timed_out

\* What the memory events said was said of the dead child.
StatsPhases == ending = "Ok" => stats \in {Events, "default"}

IInv == SupervisorTypeOK /\ CgroupPhases /\ ChildPhases /\ ReapedPhases /\ KillPhases /\ StatsPhases

USE AttemptsAssumption

LEMMA InitIInv == SupervisorInit => IInv
<1> SUFFICES ASSUME SupervisorInit PROVE IInv
  OBVIOUS
<1> USE DEF SupervisorInit
<1>1. SupervisorTypeOK
  <2>1. attempts \in 0..(MaxAttempts - 1) OBVIOUS
  <2> QED BY <2>1, Zenon DEF SupervisorTypeOK
<1>2. CgroupPhases /\ ChildPhases BY DEF CgroupPhases, ChildPhases, Setup, Watching
<1>3. ReapedPhases BY DEF ReapedPhases, Closing
<1>4. KillPhases BY DEF KillPhases
<1>5. StatsPhases BY DEF StatsPhases
<1> QED BY <1>1, <1>2, <1>3, <1>4, <1>5 DEF IInv

LEMMA TypeStep == SupervisorTypeOK /\ [SupervisorNext]_supervisorVars => SupervisorTypeOK'
<1> SUFFICES ASSUME SupervisorTypeOK, [SupervisorNext]_supervisorVars PROVE SupervisorTypeOK'
  OBVIOUS
<1> USE DEF SupervisorTypeOK, Dead, osvars
<1>1. CASE CreateDir BY <1>1 DEF CreateDir, ReturnsErr
<1>2. CASE WriteLimits BY <1>2 DEF WriteLimits, ReturnsErr
<1>3. CASE Spawn BY <1>3 DEF Spawn, ReturnsErr
<1>4. CASE Poll
  <2>1. UNCHANGED <<cgroup, child, doomed, expired, overdue>>
    BY <1>4 DEF Poll
  <2>2. CASE Reaps BY <2>1, <2>2 DEF Reaps
  <2>3. CASE stage' = "check" /\ UNCHANGED <<reaped, timed_out, stats, attempts, ending>>
    BY <2>1, <2>3
  <2> QED BY <1>4, <2>2, <2>3 DEF Poll
<1>5. CASE CheckTimeout BY <1>5 DEF CheckTimeout
<1>6. CASE WaitAfterKill BY <1>6 DEF WaitAfterKill, Reaps
<1>7. CASE Wait BY <1>7 DEF Wait, Reaps
<1>8. CASE ReadStats BY <1>8 DEF ReadStats, Events
<1>9. CASE RemoveBestEffort
  <2>1. attempts' \in 0..(MaxAttempts - 1) BY <1>9 DEF RemoveBestEffort
  <2>2. cgroup' \in {"absent", "bare", "limited"} BY <1>9 DEF RemoveBestEffort
  <2>3. stage' \in {"remove", "drop", "done"} BY <1>9 DEF RemoveBestEffort
  <2>4. UNCHANGED <<child, reaped, doomed, expired, overdue, timed_out, stats, ending>>
    BY <1>9, Zenon DEF RemoveBestEffort
  <2>5. (child \in {"none", "running"} \cup Dead)' BY <2>4
  <2> QED BY <2>1, <2>2, <2>3, <2>4, <2>5, Zenon
<1>10. CASE PollFails BY <1>10 DEF PollFails, ReturnsErr
<1>11. CASE ChildExits \/ ChildOutOfMemory \/ ChildKilled
  BY <1>11 DEF ChildExits, ChildOutOfMemory, ChildKilled, Dies
<1>12. CASE Expire \/ DeadlinePasses
  <2>1. expired' \in BOOLEAN /\ overdue' \in BOOLEAN
    BY <1>12, Zenon DEF Expire, DeadlinePasses
  <2>2. UNCHANGED <<stage, child, reaped, doomed, cgroup, timed_out, stats, attempts, ending>>
    BY <1>12, Zenon DEF Expire, DeadlinePasses
  <2>3. (child \in {"none", "running"} \cup Dead)' BY <2>2
  <2> QED BY <2>1, <2>2, <2>3, Zenon
<1>13. CASE UNCHANGED supervisorVars BY <1>13 DEF supervisorVars
<1> QED BY <1>1, <1>2, <1>3, <1>4, <1>5, <1>6, <1>7, <1>8, <1>9, <1>10, <1>11, <1>12, <1>13
        DEF SupervisorNext, Supervise

LEMMA PhaseStep == IInv /\ [SupervisorNext]_supervisorVars => (CgroupPhases /\ ChildPhases /\ ReapedPhases)'
<1> SUFFICES ASSUME IInv, [SupervisorNext]_supervisorVars PROVE (CgroupPhases /\ ChildPhases /\ ReapedPhases)'
  OBVIOUS
<1> USE DEF IInv, SupervisorTypeOK, CgroupPhases, ChildPhases, ReapedPhases, Setup, Watching, Closing,
            Dead, osvars
<1>1. CASE CreateDir BY <1>1 DEF CreateDir, ReturnsErr
<1>2. CASE WriteLimits BY <1>2 DEF WriteLimits, ReturnsErr
<1>3. CASE Spawn BY <1>3 DEF Spawn, ReturnsErr
<1>4. CASE Poll BY <1>4 DEF Poll, Reaps
<1>5. CASE CheckTimeout BY <1>5 DEF CheckTimeout
<1>6. CASE WaitAfterKill BY <1>6 DEF WaitAfterKill, Reaps
<1>7. CASE Wait BY <1>7 DEF Wait, Reaps
<1>8. CASE ReadStats BY <1>8 DEF ReadStats, Events
<1>9. CASE RemoveBestEffort BY <1>9 DEF RemoveBestEffort
<1>10. CASE PollFails BY <1>10 DEF PollFails, ReturnsErr
<1>11. CASE ChildExits \/ ChildOutOfMemory \/ ChildKilled
  BY <1>11 DEF ChildExits, ChildOutOfMemory, ChildKilled, Dies
<1>12. CASE Expire \/ DeadlinePasses BY <1>12 DEF Expire, DeadlinePasses
<1>13. CASE UNCHANGED supervisorVars BY <1>13 DEF supervisorVars
<1> QED BY <1>1, <1>2, <1>3, <1>4, <1>5, <1>6, <1>7, <1>8, <1>9, <1>10, <1>11, <1>12, <1>13
        DEF SupervisorNext, Supervise

LEMMA EvidenceStep == IInv /\ [SupervisorNext]_supervisorVars => (KillPhases /\ StatsPhases)'
<1> SUFFICES ASSUME IInv, [SupervisorNext]_supervisorVars PROVE (KillPhases /\ StatsPhases)'
  OBVIOUS
<1> USE DEF IInv, SupervisorTypeOK, KillPhases, StatsPhases, Events, ReapedPhases, Closing, Dead, osvars
<1>1. CASE CreateDir BY <1>1 DEF CreateDir, ReturnsErr
<1>2. CASE WriteLimits BY <1>2 DEF WriteLimits, ReturnsErr
<1>3. CASE Spawn BY <1>3 DEF Spawn, ReturnsErr
<1>4. CASE Poll BY <1>4 DEF Poll, Reaps
<1>5. CASE CheckTimeout BY <1>5 DEF CheckTimeout
<1>6. CASE WaitAfterKill
  <2>1. timed_out BY <1>6 DEF WaitAfterKill
  <2> QED BY <1>6, <2>1 DEF WaitAfterKill, Reaps
<1>7. CASE Wait BY <1>7 DEF Wait, Reaps
<1>8. CASE ReadStats BY <1>8 DEF ReadStats
<1>9. CASE RemoveBestEffort BY <1>9 DEF RemoveBestEffort
<1>10. CASE PollFails BY <1>10 DEF PollFails, ReturnsErr
<1>11. CASE ChildExits \/ ChildOutOfMemory \/ ChildKilled
  BY <1>11 DEF ChildExits, ChildOutOfMemory, ChildKilled, Dies
<1>12. CASE Expire \/ DeadlinePasses BY <1>12 DEF Expire, DeadlinePasses
<1>13. CASE UNCHANGED supervisorVars BY <1>13 DEF supervisorVars
<1> QED BY <1>1, <1>2, <1>3, <1>4, <1>5, <1>6, <1>7, <1>8, <1>9, <1>10, <1>11, <1>12, <1>13
        DEF SupervisorNext, Supervise

\* The inductive invariant holds in every reachable state.
THEOREM Invariance == SupervisorSpec => []IInv
<1>1. IInv /\ [SupervisorNext]_supervisorVars => IInv'
  BY TypeStep, PhaseStep, EvidenceStep DEF IInv
<1> QED BY InitIInv, <1>1, PTL DEF SupervisorSpec

\* An outcome is reported of a reaped child, and says how it ended
\* (run_supervised, exit_code).
THEOREM OutcomeTheorem == SupervisorSpec => []OutcomeIsTrue
<1>1. IInv => OutcomeIsTrue
  BY DEF IInv, SupervisorTypeOK, ReapedPhases, KillPhases, Closing, Dead, OutcomeIsTrue, ExitCode
<1> QED BY <1>1, Invariance, PTL

\* An out-of-memory kill never becomes a clean report (MemoryCgroup::stats).
THEOREM OutOfMemoryTheorem == SupervisorSpec => []OutOfMemoryReported
<1>1. IInv => OutOfMemoryReported
  BY DEF IInv, StatsPhases, Events, OutOfMemoryReported
<1> QED BY <1>1, Invariance, PTL

\* No directory without limits is left behind, and no child runs in one
\* (MemoryCgroup::create_in, run_supervised).
THEOREM CgroupTheorem == SupervisorSpec => []NoBareCgroupLeft
<1>1. IInv => NoBareCgroupLeft
  BY DEF IInv, SupervisorTypeOK, CgroupPhases, ChildPhases, Setup, Watching, NoBareCgroupLeft
<1> QED BY <1>1, Invariance, PTL

-----------------------------------------------------------------------------
(* The plan files.                                                         *)
\* A prefix of a prefix of an encoding is a prefix of the encoding.
LEMMA CutOfCut ==
    ASSUME NEW s, NEW m \in Nat, NEW n \in 0..m
    PROVE  Cut(Cut(s, m).cells, n) = Cut(s, n)
<1> DEFINE whole == [i \in 1..m |-> s[i]]
           part == [i \in 1..n |-> whole[i]]
<1>1. part = [i \in 1..n |-> s[i]]
  OBVIOUS
<1>2. Cut(s, m).cells = whole
  BY DEF Cut
<1>3. Cut(whole, n) = [cells |-> part, length |-> n]
  BY DEF Cut
<1> QED BY <1>1, <1>2, <1>3 DEF Cut

\* A cut has the length it is named by.
LEMMA CutLength ==
    ASSUME NEW s, NEW n
    PROVE  Cut(s, n).length = n
  BY DEF Cut

\* The prefix invariant holds initially.
LEMMA StoreInvInit == StoreInit => StoreInv
  BY DEF StoreInit, StoreInv

\* The prefix invariant is preserved by every step (save_new, load, and the
\* faults between their steps).
LEMMA StoreInvNext ==
    ASSUME FormatCorrect, StoreInv, [StoreNext]_svars
    PROVE  StoreInv'
<1>1. CASE UNCHANGED svars
  BY <1>1 DEF svars, StoreInv, Size
<1>2. ASSUME NEW p \in Plans, SaveNew(p) PROVE StoreInv'
  <2>1. Size(p) \in Nat \ {0} /\ Cut(Encode(p), 0) # None
    BY DEF FormatCorrect, FormatOf
  <2>2. reader = None
    BY <1>2 DEF SaveNew, CreateNew, StoreInv
  <2> QED BY <1>2, <2>1, <2>2, CutLength DEF SaveNew, CreateNew, StoreInv
<1>3. CASE Write
  <2>1. file # None
    BY <1>3 DEF Write, StoreInv
  <2>2. owner \in Plans /\ Size(owner) \in Nat \ {0}
    BY <2>1 DEF StoreInv, FormatCorrect, FormatOf
  <2>3. PICK n \in (Cuts \cap (file.length + 1)..Size(owner)) \cup {Size(owner)} :
            file' = Cut(Encode(owner), n)
    BY <1>3 DEF Write
  <2>4. n \in 0..Size(owner) /\ file.length <= n
    BY <2>1, <2>2, <2>3 DEF StoreInv
  <2>5. file'.length = n /\ file' # None
    BY <2>2, <2>3, <2>4, CutLength DEF FormatCorrect
  <2> QED BY <1>3, <2>1, <2>2, <2>3, <2>4, <2>5 DEF Write, StoreInv, Size
<1>4. CASE SaveEnds
  BY <1>4 DEF SaveEnds, StoreInv, Size
<1>5. CASE PowerLoss
  <2>1. file # None /\ owner \in Plans /\ Size(owner) \in Nat \ {0}
    BY <1>5 DEF PowerLoss, StoreInv, FormatCorrect, FormatOf
  <2>2. CASE file' = None /\ owner' = None
    BY <1>5, <2>2 DEF PowerLoss, StoreInv
  <2>3. ASSUME NEW n \in (Cuts \cap 0..file.length) \cup {file.length},
               file' = Cut(file.cells, n), UNCHANGED owner
        PROVE  StoreInv'
    <3>1. n \in 0..file.length /\ n \in 0..Size(owner) /\ file.length \in Nat
      BY <2>1, <2>3 DEF StoreInv
    <3>2. file' = Cut(Encode(owner), n)
      BY <2>1, <2>3, <3>1, CutOfCut DEF StoreInv
    <3>3. file' # None
      BY <2>1, <3>1, <3>2 DEF FormatCorrect
    <3> QED BY <1>5, <2>1, <2>3, <3>1, <3>2, <3>3, CutLength DEF PowerLoss, StoreInv, Size
  <2> QED BY <1>5, <2>2, <2>3 DEF PowerLoss
<1>6. CASE OpenFile
  <2>1. file # None /\ owner \in Plans /\ Size(owner) \in Nat \ {0}
    BY <1>6 DEF OpenFile, StoreInv, FormatCorrect, FormatOf
  <2>2. PICK n \in (Cuts \cap 0..file.length) \cup {file.length} : reader' = Cut(file.cells, n)
    BY <1>6 DEF OpenFile
  <2>3. n \in 0..file.length /\ file.length \in Nat
    BY <2>1, <2>2 DEF StoreInv
  <2>4. reader' = Cut(Encode(owner), n)
    BY <2>1, <2>2, <2>3, CutOfCut DEF StoreInv
  <2> QED BY <1>6, <2>1, <2>3, <2>4, CutLength DEF OpenFile, StoreInv, Size
<1>7. CASE ReadToEnd
  BY <1>7 DEF ReadToEnd, StoreInv, Size
<1>8. CASE ReadMore
  <2>1. file # None /\ owner \in Plans /\ Size(owner) \in Nat \ {0}
    BY <1>8 DEF ReadMore, StoreInv, FormatCorrect, FormatOf
  <2>2. file.length \in Nat /\ reader.length \in 0..file.length
    BY <1>8, <2>1 DEF ReadMore, StoreInv
  <2>3. file.cells = [i \in 1..file.length |-> Encode(owner)[i]]
    BY <2>1 DEF StoreInv, Cut
  <2>4. reader.cells = [i \in 1..reader.length |-> Encode(owner)[i]]
    BY <1>8, <2>1 DEF ReadMore, StoreInv, Cut
  <2> DEFINE joined == [i \in 1..file.length |->
                           IF i <= reader.length THEN reader.cells[i] ELSE file.cells[i]]
  <2>5. reader' = Cut(Encode(owner), file.length)
    <3>1. ASSUME NEW i \in 1..file.length
          PROVE  (IF i <= reader.length THEN reader.cells[i] ELSE file.cells[i]) = Encode(owner)[i]
      BY <2>2, <2>3, <2>4
    <3>2. joined = [i \in 1..file.length |-> Encode(owner)[i]]
      BY <3>1
    <3>3. reader' = Cut(joined, file.length)
      BY <1>8 DEF ReadMore
    <3> HIDE DEF joined
    <3> QED BY <2>2, <3>2, <3>3 DEF Cut
  <2> QED BY <1>8, <2>1, <2>2, <2>5, CutLength DEF ReadMore, StoreInv, Size
<1>9. CASE ReadFails
  BY <1>9 DEF ReadFails, StoreInv, Size
<1> QED BY <1>1, <1>2, <1>3, <1>4, <1>5, <1>6, <1>7, <1>8, <1>9 DEF StoreNext

\* In every behaviour the file holds a prefix of the one encoding that was
\* saved, and a load under way a prefix of that.
THEOREM StorePrefix == FormatCorrect => (StoreSpec => []StoreInv)
<1> SUFFICES ASSUME FormatCorrect PROVE StoreSpec => []StoreInv
  OBVIOUS
<1>1. StoreInv /\ [StoreNext]_svars => StoreInv'
  BY StoreInvNext
<1> QED BY <1>1, StoreInvInit, PTL DEF StoreSpec

-----------------------------------------------------------------------------
\* What a load of the file finds: the owner's plan if all of it is there.
LEMMA ContentOfFile ==
    ASSUME FormatCorrect, StoreInv, file # None
    PROVE  /\ owner \in Plans /\ owner # None /\ owner # Torn
           /\ Content = IF file.length = Size(owner) THEN owner ELSE Torn
<1>1. owner \in Plans /\ owner # None /\ owner # Torn
  BY DEF StoreInv, FormatCorrect
<1>2. FormatOf(owner) /\ file.length \in 0..Size(owner) /\ file = Cut(Encode(owner), file.length)
  BY <1>1 DEF StoreInv, FormatCorrect
<1>3. CASE file.length = Size(owner)
  BY <1>1, <1>2, <1>3 DEF Content, FormatOf
<1>4. CASE file.length # Size(owner)
  <2>1. file.length \in 0..(Size(owner) - 1)
    BY <1>2, <1>4 DEF FormatOf
  <2>2. Decode(Cut(Encode(owner), file.length).cells) = Torn
    BY <1>2, <2>1 DEF FormatOf
  <2> QED BY <1>1, <1>2, <1>4, <2>2 DEF Content
<1> QED BY <1>1, <1>3, <1>4

\* Every step of the store is a step of PlanFile or changes nothing of it.
LEMMA StepRefines ==
    ASSUME FormatCorrect, StoreInv, StoreInv', [StoreNext]_svars
    PROVE  [File!FileNext]_(File!fvars)
<1>1. CASE UNCHANGED svars
  BY <1>1 DEF svars, File!fvars, Content
<1>2. ASSUME NEW p \in Plans, SaveNew(p) PROVE File!Take
  <2>1. file = None /\ owner = None /\ owner' = p /\ file' = Cut(Encode(p), 0) /\ loaded' = loaded
    BY <1>2 DEF SaveNew, CreateNew, StoreInv
  <2>2. FormatOf(p) /\ Cut(Encode(p), 0) # None /\ p # None /\ p # Torn
    BY <2>1 DEF FormatCorrect, FormatOf
  <2>3. Decode(Cut(Encode(p), 0).cells) = Torn
    BY <2>2 DEF FormatOf
  <2>4. Content' = Torn
    BY <2>1, <2>2, <2>3 DEF Content
  <2> QED BY <2>1, <2>2, <2>4 DEF File!Take
<1>3. CASE Write
  <2>1. file # None /\ UNCHANGED <<owner, loaded>>
    BY <1>3 DEF Write, StoreInv
  <2>2. /\ owner \in Plans /\ owner # None /\ owner # Torn
        /\ Content = IF file.length = Size(owner) THEN owner ELSE Torn
    BY <2>1, ContentOfFile
  <2>3. PICK n \in (Cuts \cap (file.length + 1)..Size(owner)) \cup {Size(owner)} :
            file' = Cut(Encode(owner), n)
    BY <1>3 DEF Write
  <2>4. FormatOf(owner) /\ file.length \in 0..Size(owner)
    BY <2>1, <2>2 DEF StoreInv, FormatCorrect
  <2>5. n \in 0..Size(owner) /\ file.length <= n /\ (file.length = Size(owner) => n = Size(owner))
    BY <2>3, <2>4 DEF FormatOf
  <2>6. file' # None
    BY <2>2, <2>3, <2>5 DEF FormatCorrect
  <2>7. CASE n = Size(owner)
    <3>1. Content' = owner
      BY <2>3, <2>4, <2>6, <2>7 DEF Content, FormatOf
    <3> QED BY <2>1, <2>2, <3>1 DEF File!FileNext, File!Complete, File!fvars
  <2>8. CASE n # Size(owner)
    <3>1. n \in 0..(Size(owner) - 1) /\ file.length # Size(owner)
      BY <2>4, <2>5, <2>8 DEF FormatOf
    <3>2. Decode(Cut(Encode(owner), n).cells) = Torn
      BY <2>4, <3>1 DEF FormatOf
    <3>3. Content' = Torn
      BY <2>3, <2>6, <3>2 DEF Content
    <3> QED BY <2>1, <2>2, <3>1, <3>3 DEF File!fvars
  <2> QED BY <2>7, <2>8
<1>4. CASE SaveEnds
  BY <1>4 DEF SaveEnds, File!fvars, Content
<1>5. CASE PowerLoss
  <2>1. file # None /\ loaded' = loaded
    BY <1>5 DEF PowerLoss
  <2>2. /\ owner \in Plans /\ owner # None /\ owner # Torn
        /\ Content = IF file.length = Size(owner) THEN owner ELSE Torn
    BY <2>1, ContentOfFile
  <2>3. CASE file' = None /\ owner' = None
    BY <2>1, <2>2, <2>3 DEF File!FileNext, File!Lose, Content
  <2>4. ASSUME NEW n \in (Cuts \cap 0..file.length) \cup {file.length},
               file' = Cut(file.cells, n), UNCHANGED owner
        PROVE  [File!FileNext]_(File!fvars)
    <3>1. /\ FormatOf(owner) /\ file.length \in 0..Size(owner)
          /\ file = Cut(Encode(owner), file.length)
      BY <2>1, <2>2 DEF StoreInv, FormatCorrect
    <3>2. n \in 0..file.length /\ file.length \in Nat /\ n \in 0..Size(owner)
      BY <2>4, <3>1 DEF FormatOf
    <3>3. file' = Cut(Encode(owner), n)
      BY <2>4, <3>1, <3>2, CutOfCut
    <3>4. file' # None
      BY <2>2, <3>2, <3>3 DEF FormatCorrect
    <3>5. CASE n = file.length
      BY <2>1, <2>4, <3>1, <3>3, <3>5 DEF File!fvars, Content
    <3>6. CASE n # file.length
      <4>1. n \in 0..(Size(owner) - 1)
        BY <3>1, <3>2, <3>6 DEF FormatOf
      <4>2. Content' = Torn
        BY <3>1, <3>3, <3>4, <4>1 DEF Content, FormatOf
      <4> QED BY <2>1, <2>2, <2>4, <4>2 DEF File!FileNext, File!Lose
    <3> QED BY <3>5, <3>6
  <2> QED BY <1>5, <2>3, <2>4 DEF PowerLoss
<1>6. CASE OpenFile
  BY <1>6 DEF OpenFile, File!fvars, Content
<1>7. CASE ReadToEnd
  <2>1. file # None /\ reader.length = file.length /\ loaded' = Decode(reader.cells)
        /\ UNCHANGED <<owner, file>>
    BY <1>7 DEF ReadToEnd, AtEnd, StoreInv
  <2>2. reader = file
    BY <1>7, <2>1 DEF ReadToEnd, StoreInv
  <2>3. loaded' = Content /\ Content' = Content
    BY <2>1, <2>2 DEF Content
  <2> QED BY <2>1, <2>3 DEF File!FileNext, File!Load
<1>8. CASE ReadMore
  BY <1>8 DEF ReadMore, File!fvars, Content
<1>9. CASE ReadFails
  BY <1>9 DEF ReadFails, File!FileNext, File!Load, Content
<1> QED BY <1>1, <1>2, <1>3, <1>4, <1>5, <1>6, <1>7, <1>8, <1>9 DEF StoreNext, File!FileNext

\* Saving and loading behave as PlanFile: what a load returns is the plan
\* whose save took the path, or nothing, through interrupted writes, power
\* losses and loads of a file that is being written.
THEOREM StoreRefinesFile == FormatCorrect => (StoreSpec => BehavesAsPlanFile)
<1> SUFFICES ASSUME FormatCorrect PROVE StoreSpec => BehavesAsPlanFile
  OBVIOUS
<1>1. StoreInit => File!FileInit
  BY DEF StoreInit, File!FileInit, Content
<1>2. StoreInv /\ StoreInv' /\ [StoreNext]_svars => [File!FileNext]_(File!fvars)
  BY StepRefines
<1>3. StoreSpec => []StoreInv
  BY StorePrefix
<1> QED BY <1>1, <1>2, <1>3, PTL DEF StoreSpec, BehavesAsPlanFile, File!FileSpec

-----------------------------------------------------------------------------
(* Loading a layer: the read plan.                                         *)
(* The file order is an order of all tensors.                              *)
LEMMA FileOrderBijective ==
    ASSUME NEW ts \in Seq(LoadedTensors)
    PROVE  /\ FileOrder(ts) \in [1..Len(ts) -> 1..Len(ts)]
           /\ \A p, q \in 1..Len(ts) : FileOrder(ts)[p] = FileOrder(ts)[q] => p = q
           /\ \A k \in 1..Len(ts) : \E p \in 1..Len(ts) : FileOrder(ts)[p] = k
<1> DEFINE D == 1..Len(ts)
           before(k) == {j \in D : Precedes(ts, j, k)}
           rank == [k \in D |-> Cardinality(before(k))]
           ranks == 0..(Len(ts) - 1)
<1>1. DOMAIN ts = D /\ Len(ts) \in Nat /\ \A k \in D : ts[k].start \in Nat
  <2>1. DOMAIN ts = D /\ Len(ts) \in Nat
    BY LenProperties
  <2>2. \A k \in D : ts[k] \in LoadedTensors
    BY ElementOfSeq
  <2> QED BY <2>1, <2>2 DEF LoadedTensors
<1>2. IsFiniteSet(D) /\ Cardinality(D) = Len(ts)
  BY <1>1, FS_Interval
<1>3. IsFiniteSet(ranks) /\ Cardinality(ranks) = Len(ts)
  BY <1>1, FS_Interval
<1>4. \A k \in D : IsFiniteSet(before(k)) /\ Cardinality(before(k)) \in ranks
  <2> TAKE k \in D
  <2>1. before(k) \subseteq D /\ k \notin before(k)
    BY <1>1 DEF Precedes
  <2>2. IsFiniteSet(before(k)) /\ Cardinality(before(k)) \in Nat
    BY <1>2, <2>1, FS_Subset, FS_CardinalityType
  <2> HIDE DEF before
  <2>3. before(k) \cup {k} \subseteq D
    BY <2>1
  <2>4. Cardinality(before(k) \cup {k}) = Cardinality(before(k)) + 1
    BY <2>1, <2>2, FS_AddElement
  <2>5. Cardinality(before(k) \cup {k}) <= Len(ts)
    BY <1>2, <2>3, FS_Subset
  <2> QED BY <1>1, <2>2, <2>4, <2>5
<1>5. \A j, k \in D : j # k => Precedes(ts, j, k) \/ Precedes(ts, k, j)
  BY <1>1 DEF Precedes
<1>6. ASSUME NEW j \in D, NEW k \in D, Precedes(ts, j, k) PROVE rank[j] < rank[k]
  <2>1. before(j) \subseteq before(k) /\ j \in before(k) /\ j \notin before(j)
    BY <1>1, <1>6 DEF Precedes
  <2>2. IsFiniteSet(before(k)) /\ IsFiniteSet(before(j))
    BY <1>4
  <2>3. Cardinality(before(j)) \in Nat /\ Cardinality(before(k)) \in Nat
    BY <2>2, FS_CardinalityType
  <2> HIDE DEF before
  <2>4. before(j) \cup {j} \subseteq before(k)
    BY <2>1
  <2>5. Cardinality(before(j) \cup {j}) = Cardinality(before(j)) + 1
    BY <2>1, <2>2, FS_AddElement
  <2>6. Cardinality(before(j) \cup {j}) <= Cardinality(before(k))
    BY <2>2, <2>4, FS_Subset
  <2> QED BY <2>3, <2>5, <2>6
<1>7. rank \in [D -> ranks]
  BY <1>4
<1>8. \A j, k \in D : rank[j] = rank[k] => j = k
  <2> SUFFICES ASSUME NEW j \in D, NEW k \in D, j # k PROVE rank[j] # rank[k]
    OBVIOUS
  <2>1. rank[j] \in Int /\ rank[k] \in Int
    <3>1. \A v \in ranks : v \in Int
      BY <1>1
    <3> HIDE DEF rank, ranks
    <3> QED BY <1>7, <3>1
  <2>2. rank[j] < rank[k] \/ rank[k] < rank[j]
    BY <1>5, <1>6
  <2> HIDE DEF rank
  <2> QED BY <2>1, <2>2
<1>9. \A k \in D : rank[k] = Cardinality({j \in DOMAIN ts : Precedes(ts, j, k)})
  BY <1>1
<1> HIDE DEF rank
<1>10. rank \in Surjection(D, ranks)
  <2>1. rank \in Injection(D, ranks)
    BY <1>7, <1>8 DEF Injection, IsInjective
  <2> QED BY <1>2, <1>3, <2>1, FS_Injection
<1>11. \A v \in ranks : \E k \in D : rank[k] = v
  BY <1>10 DEF Surjection
<1>12. \A p \in D : FileOrder(ts)[p] \in D /\ rank[FileOrder(ts)[p]] = p - 1
  <2> TAKE p \in D
  <2>1. FileOrder(ts)[p] = CHOOSE k \in D : rank[k] = p - 1
    BY <1>1, <1>9 DEF FileOrder
  <2>2. p - 1 \in ranks
    BY <1>1
  <2>3. \E k \in D : rank[k] = p - 1
    BY <1>11, <2>2
  <2> QED BY <2>1, <2>3
<1>13. FileOrder(ts) \in [D -> D]
  <2>1. FileOrder(ts) = [p \in D |-> FileOrder(ts)[p]]
    <3> DEFINE e(p) == CHOOSE k \in DOMAIN ts :
                         Cardinality({j \in DOMAIN ts : Precedes(ts, j, k)}) = p - 1
    <3>1. FileOrder(ts) = [p \in D |-> e(p)]
      BY <1>1 DEF FileOrder
    <3> HIDE DEF e
    <3> QED BY <3>1
  <2> QED BY <1>12, <2>1
<1>14. \A p, q \in D : FileOrder(ts)[p] = FileOrder(ts)[q] => p = q
  BY <1>12
<1>15. \A k \in D : \E p \in D : FileOrder(ts)[p] = k
  <2> TAKE k \in D
  <2>1. rank[k] + 1 \in D /\ rank[k] \in Int
    BY <1>1, <1>7
  <2>2. rank[FileOrder(ts)[rank[k] + 1]] = rank[k] + 1 - 1
    BY <1>12, <2>1
  <2>3. FileOrder(ts)[rank[k] + 1] = k
    BY <1>8, <1>12, <2>1, <2>2
  <2> QED BY <2>1, <2>3
<1> QED BY <1>13, <1>14, <1>15

(* A range of a read plan holds the tensors after the from-th up to the    *)
(* to-th of the file order, and spans exactly them.                        *)
HoldsTensors(ts, range, from, to) ==
    /\ from < to
    /\ Len(range.tensors) = to - from
    /\ \A i \in 1..(to - from) : range.tensors[i] = FileOrder(ts)[from + i]
    /\ range.offset = ts[FileOrder(ts)[from + 1]].start
    /\ range.offset + range.length = End(ts[FileOrder(ts)[to]])
    /\ to - from > 1 => range.length <= MaxSpan
    /\ \A i \in 2..(to - from) :
          ts[FileOrder(ts)[from + i]].start - End(ts[FileOrder(ts)[from + (i - 1)]]) <= MaxGap

\* The plan cuts the first n tensors of the file order at the places b.
CutAt(ts, n, plan_, b) ==
    /\ b \in [1..(Len(plan_) + 1) -> 0..n]
    /\ b[1] = 0 /\ b[Len(plan_) + 1] = n
    /\ \A r \in 1..Len(plan_) : HoldsTensors(ts, plan_[r], b[r], b[r + 1])

PlannedRanges == [offset : Nat, length : Int, tensors : Seq(Nat)]

(* One more tensor starts a range of its own or joins the last one.        *)
LEMMA PlanStep ==
    ASSUME NEW ts \in Seq(LoadedTensors), NEW n \in 1..Len(ts), NEW p \in Seq(PlannedRanges),
           NEW b, CutAt(ts, n - 1, p, b)
    PROVE  LET q == PlanTensor(ts, p, FileOrder(ts)[n])
           IN  q \in Seq(PlannedRanges) /\ \E c : CutAt(ts, n, q, c)
<1> DEFINE k == FileOrder(ts)[n]
           L == Len(p)
<1>1. Len(ts) \in Nat /\ n \in Nat /\ n >= 1 /\ L \in Nat
  BY LenProperties
<1>2. k \in 1..Len(ts) /\ k \in Nat
  <2>1. k \in 1..Len(ts)
    BY FileOrderBijective
  <2> QED BY <1>1, <2>1
<1>3. ts[k] \in LoadedTensors /\ ts[k].start \in Nat /\ ts[k].file \in Nat /\ End(ts[k]) \in Nat
  <2>1. ts[k] \in LoadedTensors
    BY <1>2, ElementOfSeq
  <2> QED BY <2>1 DEF LoadedTensors, End
<1>4. /\ b \in [1..(L + 1) -> 0..(n - 1)] /\ b[1] = 0 /\ b[L + 1] = n - 1
      /\ \A r \in 1..L : HoldsTensors(ts, p[r], b[r], b[r + 1])
  BY DEF CutAt
<1> HIDE DEF k
<1>5. CASE p # <<>> /\ Joins(ts, Last(p), k)
  <2> DEFINE old == p[L]
             new == Joined(ts, old, k)
             q == Append(Front(p), new)
             c == [r \in 1..(L + 1) |-> IF r = L + 1 THEN n ELSE b[r]]
  <2>1. PlanTensor(ts, p, k) = q
    BY <1>5 DEF PlanTensor, Last
  <2>2. L >= 1 /\ L \in 1..L
    BY <1>1, <1>5, EmptySeq
  <2>3. old \in PlannedRanges /\ HoldsTensors(ts, old, b[L], n - 1)
    <3>1. old \in PlannedRanges
      BY <2>2, ElementOfSeq
    <3> QED BY <1>4, <2>2, <3>1
  <2>4. new = [offset |-> old.offset, length |-> End(ts[k]) - old.offset, tensors |-> Append(old.tensors, k)]
    BY DEF Joined
  <2>5. /\ old.offset \in Nat /\ old.length \in Int /\ old.tensors \in Seq(Nat)
        /\ Len(old.tensors) \in Nat
    <3>1. old.offset \in Nat /\ old.length \in Int /\ old.tensors \in Seq(Nat)
      BY <2>3 DEF PlannedRanges
    <3> QED BY <3>1, LenProperties
  <2> HIDE DEF new, old
  <2>6. new \in PlannedRanges
    <3>1. Append(old.tensors, k) \in Seq(Nat)
      BY <1>2, <2>5, AppendProperties
    <3> QED BY <1>3, <2>4, <2>5, <3>1 DEF PlannedRanges
  <2>7. Front(p) \in Seq(PlannedRanges) /\ Len(Front(p)) = L - 1 /\ \A r \in 1..(L - 1) : Front(p)[r] = p[r]
    <3>1. L - 1 \in 0..L
      BY <1>1, <2>2
    <3> QED BY <3>1, FirstElements DEF Front
  <2>8. q \in Seq(PlannedRanges) /\ Len(q) = L /\ q[L] = new /\ \A r \in 1..(L - 1) : q[r] = p[r]
    <3>1. /\ q \in Seq(PlannedRanges) /\ Len(q) = Len(Front(p)) + 1
          /\ \A r \in 1..Len(Front(p)) : q[r] = Front(p)[r]
          /\ q[Len(Front(p)) + 1] = new
      <4> HIDE DEF q
      <4>1. q = Append(Front(p), new)
        BY DEF q
      <4> QED BY <2>6, <2>7, <4>1, AppendProperties
    <3> HIDE DEF q
    <3> QED BY <1>1, <2>2, <2>7, <3>1
  <2> HIDE DEF q
  <2>9. b[L] \in Nat /\ b[L] < n - 1
    <3>1. L \in 1..(L + 1)
      BY <1>1, <2>2
    <3>2. b[L] \in 0..(n - 1)
      BY <1>4, <3>1
    <3> QED BY <1>1, <2>3, <3>2 DEF HoldsTensors
  <2>10. HoldsTensors(ts, new, b[L], n)
    <3>1. /\ Len(old.tensors) = n - 1 - b[L]
          /\ \A i \in 1..(n - 1 - b[L]) : old.tensors[i] = FileOrder(ts)[b[L] + i]
          /\ old.offset = ts[FileOrder(ts)[b[L] + 1]].start
      BY <2>3 DEF HoldsTensors
    <3>2. /\ Len(new.tensors) = Len(old.tensors) + 1
          /\ \A i \in 1..Len(old.tensors) : new.tensors[i] = old.tensors[i]
          /\ new.tensors[Len(old.tensors) + 1] = k
      <4>1. new.tensors = Append(old.tensors, k)
        BY <2>4
      <4> QED BY <1>2, <2>5, <4>1, AppendProperties
    <3>3. Len(new.tensors) = n - b[L]
      BY <1>1, <2>9, <3>1, <3>2
    <3>4. \A i \in 1..(n - b[L]) : new.tensors[i] = FileOrder(ts)[b[L] + i]
      <4> TAKE i \in 1..(n - b[L])
      <4>1. CASE i = n - b[L]
        <5>1. new.tensors[i] = k /\ b[L] + i = n
          BY <1>1, <2>9, <3>1, <3>2, <4>1
        <5> QED BY <5>1 DEF k
      <4>2. CASE i # n - b[L]
        <5>1. i \in 1..(n - 1 - b[L])
          BY <1>1, <2>9, <4>2
        <5> QED BY <3>1, <3>2, <5>1
      <4> QED BY <4>1, <4>2
    <3>5. new.offset = old.offset /\ new.offset + new.length = End(ts[k])
      BY <1>3, <2>4, <2>5
    <3>6. new.length <= MaxSpan
      <4>1. End(ts[k]) - old.offset <= MaxSpan
        BY <1>5 DEF Joins, Last, old
      <4> QED BY <2>4, <4>1
    <3>7. b[L] < n
      BY <1>1, <2>9
    <3>8. \A i \in 2..(n - b[L]) :
             ts[FileOrder(ts)[b[L] + i]].start - End(ts[FileOrder(ts)[b[L] + (i - 1)]]) <= MaxGap
      <4> TAKE i \in 2..(n - b[L])
      <4>1. CASE i = n - b[L]
        <5>1. b[L] + i = n /\ b[L] + (i - 1) = n - 1
          BY <1>1, <2>9, <4>1
        <5>2. old.offset + old.length = End(ts[FileOrder(ts)[n - 1]])
          BY <2>3 DEF HoldsTensors
        <5>3. ts[k].start - (old.offset + old.length) <= MaxGap
          BY <1>5 DEF Joins, Last, old
        <5> QED BY <5>1, <5>2, <5>3 DEF k
      <4>2. CASE i # n - b[L]
        <5>1. i \in 2..(n - 1 - b[L])
          BY <1>1, <2>9, <4>2
        <5> QED BY <2>3, <5>1 DEF HoldsTensors
      <4> QED BY <4>1, <4>2
    <3> QED BY <3>1, <3>3, <3>4, <3>5, <3>6, <3>7, <3>8 DEF HoldsTensors, k
  <2>11. /\ c \in [1..(L + 1) -> 0..n] /\ c[1] = 0 /\ c[L + 1] = n
         /\ \A r \in 1..L : c[r] = b[r]
    BY <1>1, <1>4, <2>2
  <2> HIDE DEF c
  <2>12. \A r \in 1..L : HoldsTensors(ts, q[r], c[r], c[r + 1])
    <3> TAKE r \in 1..L
    <3>1. CASE r = L
      BY <2>2, <2>8, <2>10, <2>11, <3>1
    <3>2. CASE r # L
      <4>1. r \in 1..(L - 1) /\ r + 1 \in 1..L /\ r \in 1..L
        BY <1>1, <3>2
      <4>2. q[r] = p[r] /\ c[r] = b[r] /\ c[r + 1] = b[r + 1]
        BY <2>8, <2>11, <4>1
      <4>3. HoldsTensors(ts, p[r], b[r], b[r + 1])
        BY <1>4, <4>1
      <4> QED BY <4>2, <4>3
    <3> QED BY <3>1, <3>2
  <2>13. CutAt(ts, n, q, c)
    BY <2>8, <2>11, <2>12 DEF CutAt
  <2> QED BY <2>1, <2>8, <2>13 DEF k
<1>6. CASE ~(p # <<>> /\ Joins(ts, Last(p), k))
  <2> DEFINE new == Alone(ts, k)
             q == Append(p, new)
             c == [r \in 1..(L + 2) |-> IF r = L + 2 THEN n ELSE b[r]]
  <2>1. PlanTensor(ts, p, k) = q
    BY <1>6 DEF PlanTensor
  <2>2. new = [offset |-> ts[k].start, length |-> ts[k].file, tensors |-> <<k>>]
    BY DEF Alone
  <2> HIDE DEF new
  <2>3. new \in PlannedRanges
    BY <1>2, <1>3, <2>2 DEF PlannedRanges
  <2>4. q \in Seq(PlannedRanges) /\ Len(q) = L + 1 /\ q[L + 1] = new /\ \A r \in 1..L : q[r] = p[r]
    BY <2>3, AppendProperties
  <2> HIDE DEF q
  <2>5. HoldsTensors(ts, new, n - 1, n)
    <3>1. new.tensors = <<k>> /\ Len(<<k>>) = 1 /\ <<k>>[1] = k
      BY <2>2
    <3>2. new.offset = ts[k].start /\ new.offset + new.length = End(ts[k])
      BY <1>3, <2>2 DEF End
    <3>3. n - 1 < n /\ n - (n - 1) = 1 /\ n - 1 + 1 = n
      BY <1>1
    <3>4. (\A i \in 1..1 : i = 1) /\ 2..1 = {}
      OBVIOUS
    <3> QED BY <3>1, <3>2, <3>3, <3>4 DEF HoldsTensors, k
  <2>6. /\ c \in [1..(L + 2) -> 0..n] /\ c[1] = 0 /\ c[L + 2] = n
        /\ \A r \in 1..(L + 1) : c[r] = b[r]
    BY <1>1, <1>4
  <2> HIDE DEF c
  <2>7. \A r \in 1..(L + 1) : HoldsTensors(ts, q[r], c[r], c[r + 1])
    <3> TAKE r \in 1..(L + 1)
    <3>1. CASE r = L + 1
      <4>1. c[r] = n - 1 /\ c[r + 1] = n /\ q[r] = new
        BY <1>1, <1>4, <2>4, <2>6, <3>1
      <4> QED BY <2>5, <4>1
    <3>2. CASE r # L + 1
      <4>1. r \in 1..L /\ r \in 1..(L + 1) /\ r + 1 \in 1..(L + 1)
        BY <1>1, <3>2
      <4>2. q[r] = p[r] /\ c[r] = b[r] /\ c[r + 1] = b[r + 1]
        BY <2>4, <2>6, <4>1
      <4>3. HoldsTensors(ts, p[r], b[r], b[r + 1])
        BY <1>4, <4>1
      <4> QED BY <4>2, <4>3
    <3> QED BY <3>1, <3>2
  <2>8. CutAt(ts, n, q, c)
    <3>1. L + 1 + 1 = L + 2
      BY <1>1
    <3> QED BY <2>4, <2>6, <2>7, <3>1 DEF CutAt
  <2> QED BY <2>1, <2>4, <2>8 DEF k
<1> QED BY <1>5, <1>6 DEF k

(* Whatever ranges there are, one more tensor makes ranges of them again.   *)
LEMMA PlanTyped ==
    ASSUME NEW ts \in Seq(LoadedTensors), NEW k \in 1..Len(ts), NEW p \in Seq(PlannedRanges)
    PROVE  PlanTensor(ts, p, k) \in Seq(PlannedRanges)
<1> DEFINE L == Len(p)
<1>1. Len(ts) \in Nat /\ L \in Nat /\ k \in Nat
  BY LenProperties
<1>2. ts[k].start \in Nat /\ ts[k].file \in Nat /\ End(ts[k]) \in Nat
  <2>1. ts[k] \in LoadedTensors
    BY ElementOfSeq
  <2> QED BY <2>1 DEF LoadedTensors, End
<1>3. CASE p # <<>> /\ Joins(ts, Last(p), k)
  <2> DEFINE old == p[L]
             new == Joined(ts, old, k)
  <2>1. L >= 1 /\ L \in 1..L
    BY <1>1, <1>3, EmptySeq
  <2>2. old \in PlannedRanges
    BY <2>1, ElementOfSeq
  <2> HIDE DEF old
  <2>3. PICK x \in Nat, y \in Int, z \in Seq(Nat) : old = [offset |-> x, length |-> y, tensors |-> z]
    BY <2>2 DEF PlannedRanges
  <2>4. new = [offset |-> x, length |-> End(ts[k]) - x, tensors |-> Append(z, k)]
    BY <2>3 DEF Joined
  <2> HIDE DEF new
  <2>5. new \in PlannedRanges
    <3>1. Append(z, k) \in Seq(Nat)
      BY <1>1, AppendProperties
    <3> QED BY <1>2, <2>4, <3>1 DEF PlannedRanges
  <2>6. Front(p) \in Seq(PlannedRanges)
    <3>1. L - 1 \in 0..L
      BY <1>1, <2>1
    <3> QED BY <3>1, FirstElements DEF Front
  <2>7. PlanTensor(ts, p, k) = Append(Front(p), new)
    BY <1>3 DEF PlanTensor, Last, new, old
  <2> QED BY <2>5, <2>6, <2>7, AppendProperties
<1>4. CASE ~(p # <<>> /\ Joins(ts, Last(p), k))
  <2>1. PlanTensor(ts, p, k) = Append(p, Alone(ts, k))
    BY <1>4 DEF PlanTensor
  <2>2. Alone(ts, k) \in PlannedRanges
    BY <1>1, <1>2 DEF Alone, PlannedRanges
  <2> QED BY <2>1, <2>2, AppendProperties
<1> QED BY <1>3, <1>4

(* The read plan cuts the whole file order.                                *)
LEMMA ReadPlanCuts ==
    ASSUME NEW ts \in Seq(LoadedTensors)
    PROVE  /\ BuildLayerReadPlan(ts) \in Seq(PlannedRanges)
           /\ \E b : CutAt(ts, Len(ts), BuildLayerReadPlan(ts), b)
<1> DEFINE n == Len(ts)
           D == 1..n
           fo == FileOrder(ts)
           A == Seq(PlannedRanges)
           step == [x \in A \X D |-> PlanTensor(ts, x[1], fo[x[2]])]
           Runs(h) == h = [s \in SUBSET D |-> IF s = {} THEN <<>>
                                             ELSE PlanTensor(ts, h[s \ {Max(s)}], fo[Max(s)])]
<1>1. n \in Nat
  BY LenProperties
<1>2. <<>> \in A
  BY EmptySeq
<1>3. DOMAIN fo = D /\ \A i \in D : fo[i] \in D
  BY FileOrderBijective
<1>4. step \in [A \X D -> A]
  <2>1. \A p \in A, i \in D : PlanTensor(ts, p, fo[i]) \in A
    <3> TAKE p \in A, i \in D
    <3> QED BY <1>3, PlanTyped
  <2> QED BY <2>1
<1>5. \A p \in A, i \in D : step[<<p, i>>] = PlanTensor(ts, p, fo[i])
  OBVIOUS
<1> HIDE DEF step
<1>6. PICK g \in [SUBSET D -> A] : StepsBy(g, step, <<>>, n)
  <2> HIDE DEF n, A
  <2> QED BY <1>1, <1>2, <1>4, FoldRuns
<1>7. Runs(g)
  <2>1. \A s \in SUBSET D : s # {} => Max(s) \in D /\ g[s \ {Max(s)}] \in A
    <3> SUFFICES ASSUME NEW s \in SUBSET D, s # {} PROVE Max(s) \in s
      OBVIOUS
    <3>1. IsFiniteSet(D)
      BY <1>1, FS_Interval
    <3>2. s \subseteq Nat
      OBVIOUS
    <3>3. IsFiniteSet(s)
      <4> HIDE DEF D
      <4> QED BY <3>1, FS_Subset
    <3> QED BY <3>2, <3>3, GreatestOf
  <2>2. \A s \in SUBSET D : s # {} =>
           step[<<g[s \ {Max(s)}], Max(s)>>] = PlanTensor(ts, g[s \ {Max(s)}], fo[Max(s)])
    <3> HIDE DEF D
    <3> QED BY <1>5, <2>1
  <2> QED BY <1>6, <2>2 DEF StepsBy
<1> DEFINE H == CHOOSE h : Runs(h)
<1>8. Runs(H)
  <2> HIDE DEF Runs
  <2> QED BY <1>7
<1>9. BuildLayerReadPlan(ts) = H[D]
  BY <1>3 DEF BuildLayerReadPlan, FoldLeft, MapThenFoldSet
<1> HIDE DEF H
<1>10. H[{}] = <<>> /\ 1..0 = {}
  BY <1>8
<1>11. \A i \in D : H[1..i] = PlanTensor(ts, H[1..(i - 1)], fo[i])
  <2> TAKE i \in D
  <2>1. Max(1..i) = i /\ (1..i) \ {i} = 1..(i - 1) /\ 1..i # {} /\ 1..i \in SUBSET D
    BY <1>1, GreatestOfFirst
  <2>2. H[1..i] = PlanTensor(ts, H[(1..i) \ {Max(1..i)}], fo[Max(1..i)])
    <3> HIDE DEF D, fo
    <3> QED BY <1>8, <2>1
  <2> QED BY <2>1, <2>2
<1> HIDE DEF Runs
<1> DEFINE T == {i \in 0..n : H[1..i] \in A /\ \E b : CutAt(ts, i, H[1..i], b)}
<1>12. 0 \in T
  <2> DEFINE z == [i \in 1..1 |-> 0]
  <2>1. CutAt(ts, 0, <<>>, z)
    <3>1. Len(<<>>) = 0 /\ z \in [1..1 -> 0..0] /\ z[1] = 0
      OBVIOUS
    <3> QED BY <3>1 DEF CutAt
  <2>2. 0 \in 0..n
    BY <1>1
  <2>3. H[1..0] = <<>>
    BY <1>10
  <2> QED BY <1>2, <2>1, <2>2, <2>3
<1>13. \A i \in 1..n : i - 1 \in T => i \in T
  <2> SUFFICES ASSUME NEW i \in 1..n, i - 1 \in T PROVE i \in T
    OBVIOUS
  <2>1. H[1..(i - 1)] \in A /\ \E b : CutAt(ts, i - 1, H[1..(i - 1)], b)
    OBVIOUS
  <2>2. PICK b : CutAt(ts, i - 1, H[1..(i - 1)], b)
    BY <2>1
  <2>3. H[1..i] \in A /\ \E c : CutAt(ts, i, H[1..i], c)
    <3>1. H[1..i] = PlanTensor(ts, H[1..(i - 1)], FileOrder(ts)[i])
      BY <1>11
    <3> QED BY <2>1, <2>2, <3>1, PlanStep
  <2>4. i \in 0..n
    BY <1>1
  <2> QED BY <2>3, <2>4
<1>14. n \in T
  <2>1. n \in 0..n
    BY <1>1
  <2> HIDE DEF T
  <2> QED BY <1>1, <1>12, <1>13, <2>1, UpTo
<1> QED BY <1>9, <1>14

(* Tensors that do not overlap follow each other in the file.              *)
LEMMA FileOrderAscends ==
    ASSUME NEW ts \in Seq(LoadedTensors), ~Overlapping(ts)
    PROVE  \A p, q \in 1..Len(ts) : p < q =>
              /\ End(ts[FileOrder(ts)[p]]) <= ts[FileOrder(ts)[q]].start
              /\ End(ts[FileOrder(ts)[p]]) <= End(ts[FileOrder(ts)[q]])
              /\ ts[FileOrder(ts)[p]].start <= ts[FileOrder(ts)[q]].start
<1> DEFINE n == Len(ts)
           s(p) == ts[FileOrder(ts)[p]].start
           e(p) == End(ts[FileOrder(ts)[p]])
<1>1. n \in Nat
  BY LenProperties
<1>2. \A p \in 1..n : s(p) \in Nat /\ e(p) \in Nat /\ s(p) <= e(p)
  <2> TAKE p \in 1..n
  <2>1. FileOrder(ts)[p] \in 1..n
    BY FileOrderBijective
  <2>2. ts[FileOrder(ts)[p]] \in LoadedTensors
    BY <2>1, ElementOfSeq
  <2> QED BY <2>2 DEF LoadedTensors, End
<1>3. \A p \in 1..(n - 1) : e(p) <= s(p + 1)
  <2> TAKE p \in 1..(n - 1)
  <2>1. ~(s(p + 1) < e(p))
    BY DEF Overlapping
  <2>2. p \in 1..n /\ p + 1 \in 1..n
    BY <1>1
  <2>3. s(p + 1) \in Nat /\ e(p) \in Nat
    BY <1>2, <2>2
  <2> HIDE DEF s, e
  <2> QED BY <2>1, <2>3
<1> HIDE DEF s, e
<1> DEFINE T == {d \in 0..n : \A p \in 1..n : p + d \in 1..n /\ d > 0 =>
                                e(p) <= s(p + d) /\ e(p) <= e(p + d) /\ s(p) <= s(p + d)}
<1>4. 0 \in T
  BY <1>1
<1>5. \A d \in 1..n : d - 1 \in T => d \in T
  <2> SUFFICES ASSUME NEW d \in 1..n, d - 1 \in T, NEW p \in 1..n, p + d \in 1..n
               PROVE  e(p) <= s(p + d) /\ e(p) <= e(p + d) /\ s(p) <= s(p + d)
    BY <1>1
  <2>1. /\ p + (d - 1) \in 1..n /\ p + (d - 1) \in 1..(n - 1)
        /\ p + (d - 1) + 1 = p + d
    BY <1>1
  <2>2. /\ s(p) \in Nat /\ e(p) \in Nat /\ s(p + d) \in Nat /\ e(p + d) \in Nat
        /\ s(p + (d - 1)) \in Nat /\ e(p + (d - 1)) \in Nat
        /\ s(p) <= e(p) /\ s(p + d) <= e(p + d) /\ s(p + (d - 1)) <= e(p + (d - 1))
    BY <1>2, <2>1
  <2>3. e(p + (d - 1)) <= s(p + d)
    BY <1>3, <2>1
  <2>4. CASE d = 1
    <3>1. p + (d - 1) = p
      BY <2>4
    <3> QED BY <2>2, <2>3, <3>1
  <2>5. CASE d # 1
    <3>1. e(p) <= s(p + (d - 1)) /\ s(p) <= s(p + (d - 1))
      BY <1>1, <2>1, <2>5
    <3> QED BY <2>2, <2>3, <3>1
  <2> QED BY <2>4, <2>5
<1>6. \A d \in 0..n : d \in T
  <2> HIDE DEF T
  <2> QED BY <1>1, <1>4, <1>5, UpTo
<1>7. \A p, q \in 1..n : p < q => e(p) <= s(q) /\ e(p) <= e(q) /\ s(p) <= s(q)
  <2> SUFFICES ASSUME NEW p \in 1..n, NEW q \in 1..n, p < q
               PROVE  e(p) <= s(q) /\ e(p) <= e(q) /\ s(p) <= s(q)
    OBVIOUS
  <2>1. q - p \in 0..n /\ q - p > 0 /\ p + (q - p) = q
    BY <1>1
  <2>2. q - p \in T
    BY <1>6, <2>1
  <2> QED BY <2>1, <2>2
<1> QED BY <1>7 DEF s, e

\* The parts of the read plan's correctness, for a layout and its plan.
PlanCovers(ts, p) ==
    /\ FlattenSeq([r \in DOMAIN p |-> p[r].tensors]) = FileOrder(ts)
    /\ \A r \in DOMAIN p, k \in DOMAIN ts :
          k \in ToSet(p[r].tensors) =>
             p[r].offset <= ts[k].start /\ End(ts[k]) <= p[r].offset + p[r].length
    /\ \A r \in 2..Len(p) : p[r - 1].offset + p[r - 1].length <= p[r].offset
    /\ \A r \in DOMAIN p : Multi(p[r]) => p[r].length <= MaxSpan
    /\ \A r \in DOMAIN p : GapsWithin(ts, p[r].tensors, MaxGap)

(* The next elements of a sequence extend its first ones.                  *)
LEMMA NextElements ==
    ASSUME NEW f \in Seq(Nat), NEW lo \in 0..Len(f), NEW hi \in 0..Len(f), lo <= hi,
           NEW v \in Seq(Nat), Len(v) = hi - lo, \A i \in 1..(hi - lo) : v[i] = f[lo + i]
    PROVE  SubSeq(f, 1, lo) \o v = SubSeq(f, 1, hi)
<1> DEFINE u == SubSeq(f, 1, lo)
           w == SubSeq(f, 1, hi)
<1>1. u \in Seq(Nat) /\ Len(u) = lo /\ \A i \in 1..lo : u[i] = f[i]
  BY FirstElements
<1>2. w \in Seq(Nat) /\ Len(w) = hi /\ \A i \in 1..hi : w[i] = f[i]
  BY FirstElements
<1>3. Len(f) \in Nat /\ lo \in Nat /\ hi \in Nat
  BY LenProperties
<1> HIDE DEF u, w
<1>4. /\ u \o v \in Seq(Nat) /\ Len(u \o v) = Len(u) + Len(v)
      /\ \A i \in 1..(Len(u) + Len(v)) : (u \o v)[i] = IF i <= Len(u) THEN u[i] ELSE v[i - Len(u)]
  BY <1>1, ConcatProperties
<1>5. Len(u) + Len(v) = hi
  BY <1>1, <1>3
<1>6. \A i \in 1..hi : (u \o v)[i] = w[i]
  <2> TAKE i \in 1..hi
  <2>1. (u \o v)[i] = IF i <= lo THEN u[i] ELSE v[i - lo]
    BY <1>1, <1>4, <1>5
  <2>2. CASE i <= lo
    <3>1. i \in 1..lo
      BY <1>3, <2>2
    <3> QED BY <1>1, <1>2, <2>1, <2>2, <3>1
  <2>3. CASE ~(i <= lo)
    <3>1. i - lo \in 1..(hi - lo) /\ lo + (i - lo) = i
      BY <1>3, <2>3
    <3>2. v[i - lo] = f[i]
      BY <3>1
    <3> QED BY <1>2, <2>1, <2>3, <3>2
  <2> QED BY <2>2, <2>3
<1>7. u \o v = w
  <2> DEFINE z == u \o v
  <2>1. z \in Seq(Nat) /\ Len(z) = hi /\ \A i \in 1..Len(z) : z[i] = w[i]
    BY <1>4, <1>5, <1>6
  <2> HIDE DEF z
  <2>2. z = w
    BY <1>2, <2>1, SeqEqual
  <2> QED BY <2>2 DEF z
<1> QED BY <1>7 DEF u, w

\* The m pieces of f that the places b cut it into.
PiecesOf(f, m, pieces, b) ==
    /\ f \in Seq(Nat) /\ m \in Nat
    /\ b \in [1..(m + 1) -> 0..Len(f)] /\ b[1] = 0 /\ b[m + 1] = Len(f)
    /\ pieces = [r \in 1..m |-> pieces[r]]
    /\ \A r \in 1..m : /\ pieces[r] \in Seq(Nat) /\ b[r] < b[r + 1]
                       /\ Len(pieces[r]) = b[r + 1] - b[r]
                       /\ \A i \in 1..(b[r + 1] - b[r]) : pieces[r][i] = f[b[r] + i]

(* The pieces of a sequence, one after the other, are the sequence.        *)
LEMMA PiecesFlatten ==
    ASSUME NEW f, NEW m, NEW pieces, NEW b, PiecesOf(f, m, pieces, b)
    PROVE  FlattenSeq(pieces) = f
<1> DEFINE w == [r \in 1..m |-> SubSeq(f, 1, b[r + 1])]
           Flat(h) == h = [r \in 1..m |-> IF r = 1 THEN pieces[r] ELSE h[r - 1] \o pieces[r]]
<1> USE DEF PiecesOf
<1>1. Len(f) \in Nat
  BY LenProperties
<1>2. Len(pieces) = m /\ DOMAIN pieces = 1..m
  <2>1. DOMAIN pieces = 1..m
    OBVIOUS
  <2>2. pieces \in [1..m -> {pieces[r] : r \in 1..m}]
    OBVIOUS
  <2> QED BY <2>1, <2>2, LenProperties
<1>3. \A r \in 1..m : b[r] \in 0..Len(f) /\ b[r + 1] \in 0..Len(f) /\ b[r] <= b[r + 1]
  <2> TAKE r \in 1..m
  <2>1. r \in 1..(m + 1) /\ r + 1 \in 1..(m + 1)
    OBVIOUS
  <2>2. b[r] \in 0..Len(f) /\ b[r + 1] \in 0..Len(f) /\ b[r] < b[r + 1]
    BY <2>1
  <2> QED BY <1>1, <2>2
<1>4. \A r \in 1..m : w[r] = SubSeq(f, 1, b[r]) \o pieces[r]
  <2> TAKE r \in 1..m
  <2>1. SubSeq(f, 1, b[r]) \o pieces[r] = SubSeq(f, 1, b[r + 1])
    BY <1>3, NextElements
  <2> QED BY <2>1
<1>5. SubSeq(f, 1, 0) = <<>> /\ SubSeq(f, 1, Len(f)) = f
  <2>1. 0 \in 0..Len(f) /\ Len(f) \in 0..Len(f)
    BY <1>1
  <2>2. SubSeq(f, 1, 0) \in Seq(Nat) /\ Len(SubSeq(f, 1, 0)) = 0
    BY <2>1, FirstElements
  <2>3. /\ SubSeq(f, 1, Len(f)) \in Seq(Nat) /\ Len(SubSeq(f, 1, Len(f))) = Len(f)
        /\ \A j \in 1..Len(f) : SubSeq(f, 1, Len(f))[j] = f[j]
    BY <2>1, FirstElements
  <2>4. SubSeq(f, 1, Len(f)) = f
    BY <2>3, SeqEqual
  <2>5. SubSeq(f, 1, 0) = <<>>
    BY <2>2, EmptySeq
  <2> QED BY <2>4, <2>5
<1>6. \A r \in 1..m : w[r] = IF r = 1 THEN pieces[r] ELSE w[r - 1] \o pieces[r]
  <2> TAKE r \in 1..m
  <2>1. CASE r = 1
    <3>1. w[r] = <<>> \o pieces[r]
      BY <1>4, <1>5, <2>1
    <3>2. <<>> \o pieces[r] = pieces[r]
      BY ConcatEmptySeq
    <3> QED BY <2>1, <3>1, <3>2
  <2>2. CASE r # 1
    <3>1. r - 1 \in 1..m /\ r - 1 + 1 = r
      BY <2>2
    <3>2. w[r - 1] = SubSeq(f, 1, b[r])
      BY <3>1
    <3>3. w[r] = SubSeq(f, 1, b[r]) \o pieces[r]
      BY <1>4
    <3> HIDE DEF w
    <3> QED BY <2>2, <3>2, <3>3
  <2> QED BY <2>1, <2>2
<1>7. Flat(w)
  <2>1. w = [r \in 1..m |-> w[r]]
    OBVIOUS
  <2> HIDE DEF w
  <2> QED BY <1>6, <2>1
<1> DEFINE H == CHOOSE h : Flat(h)
<1>8. Flat(H)
  <2> HIDE DEF Flat
  <2> QED BY <1>7
<1>9. m # 0 => FlattenSeq(pieces) = H[m]
  BY <1>2 DEF FlattenSeq
<1> HIDE DEF H
<1>10. \A r \in 1..m : H[r] = IF r = 1 THEN pieces[r] ELSE H[r - 1] \o pieces[r]
  BY <1>8
<1> HIDE DEF Flat
<1>11. CASE m = 0
  <2>1. FlattenSeq(pieces) = pieces
    BY <1>2, <1>11 DEF FlattenSeq
  <2>2. Len(f) = 0 /\ 1..m = {}
    BY <1>11
  <2>3. pieces \in Seq(Nat) /\ Len(pieces) = 0
    BY <1>2, <1>11, <2>2
  <2>4. pieces = f
    BY <2>2, <2>3, SeqEqual
  <2> QED BY <2>1, <2>4
<1>12. CASE m # 0
  <2> DEFINE T == {r \in 0..m : r # 0 => H[r] = w[r]}
  <2>1. 0 \in T
    OBVIOUS
  <2>2. \A r \in 1..m : r - 1 \in T => r \in T
    <3> HIDE DEF w
    <3> QED BY <1>6, <1>10
  <2>3. m \in T
    <3>1. m \in 0..m
      OBVIOUS
    <3> HIDE DEF T
    <3> QED BY <2>1, <2>2, <3>1, UpTo
  <2>4. H[m] = w[m]
    BY <1>12, <2>3
  <2>5. w[m] = SubSeq(f, 1, Len(f))
    BY <1>12
  <2> QED BY <1>5, <1>9, <1>12, <2>4, <2>5
<1> QED BY <1>11, <1>12

(* The read plan of tensors that do not overlap is what it promises.       *)
LEMMA ReadPlanCovers ==
    ASSUME NEW ts \in Seq(LoadedTensors), ~Overlapping(ts)
    PROVE  PlanCovers(ts, BuildLayerReadPlan(ts))
<1> DEFINE p == BuildLayerReadPlan(ts)
           n == Len(ts)
           m == Len(p)
           fo == FileOrder(ts)
<1>1. p \in Seq(PlannedRanges) /\ \E b : CutAt(ts, n, p, b)
  BY ReadPlanCuts
<1>2. PICK b : CutAt(ts, n, p, b)
  BY <1>1
<1> HIDE DEF p
<1>3. n \in Nat /\ m \in Nat /\ DOMAIN p = 1..m /\ DOMAIN ts = 1..n
  BY <1>1, LenProperties
<1>4. /\ b \in [1..(m + 1) -> 0..n] /\ b[1] = 0 /\ b[m + 1] = n
      /\ \A r \in 1..m : HoldsTensors(ts, p[r], b[r], b[r + 1])
  BY <1>2 DEF CutAt
<1>5. fo \in [1..n -> 1..n]
  BY FileOrderBijective
<1>6. fo \in Seq(Nat) /\ Len(fo) = n
  <2>1. fo \in [1..n -> Nat]
    <3>1. 1..n \subseteq Nat
      OBVIOUS
    <3> HIDE DEF fo, n
    <3> QED BY <1>5, <3>1
  <2> HIDE DEF fo, n
  <2> QED BY <1>3, <2>1, LenProperties
<1>7. \A r \in 1..m : /\ p[r].tensors \in Seq(Nat) /\ Len(p[r].tensors) = b[r + 1] - b[r]
                      /\ b[r] \in 0..n /\ b[r + 1] \in 0..n /\ b[r] < b[r + 1]
                      /\ \A i \in 1..(b[r + 1] - b[r]) : p[r].tensors[i] = fo[b[r] + i]
  <2> TAKE r \in 1..m
  <2>1. p[r] \in PlannedRanges
    BY <1>1, ElementOfSeq
  <2>2. r \in 1..(m + 1) /\ r + 1 \in 1..(m + 1)
    BY <1>3
  <2>3. HoldsTensors(ts, p[r], b[r], b[r + 1])
    BY <1>4
  <2> QED BY <1>4, <2>1, <2>2, <2>3 DEF HoldsTensors, PlannedRanges
<1>8. FlattenSeq([r \in DOMAIN p |-> p[r].tensors]) = fo
  <2> DEFINE pieces == [r \in 1..m |-> p[r].tensors]
  <2>1. pieces = [r \in 1..m |-> pieces[r]]
    OBVIOUS
  <2>2. \A r \in 1..m : /\ pieces[r] \in Seq(Nat) /\ b[r] < b[r + 1]
                        /\ Len(pieces[r]) = b[r + 1] - b[r]
                        /\ \A i \in 1..(b[r + 1] - b[r]) : pieces[r][i] = fo[b[r] + i]
    BY <1>7
  <2> HIDE DEF pieces, fo, n, m
  <2>3. FlattenSeq(pieces) = fo
    <3>1. b \in [1..(m + 1) -> 0..Len(fo)] /\ b[1] = 0 /\ b[m + 1] = Len(fo)
      BY <1>4, <1>6
    <3>2. m \in Nat /\ fo \in Seq(Nat)
      BY <1>3, <1>6
    <3>3. PiecesOf(fo, m, pieces, b)
      BY <2>1, <2>2, <3>1, <3>2 DEF PiecesOf
    <3> QED BY <3>3, PiecesFlatten
  <2> QED BY <1>3, <2>3 DEF pieces
<1>9. \A r \in 1..m : p[r].offset \in Nat /\ p[r].length \in Int
  <2> TAKE r \in 1..m
  <2>1. p[r] \in PlannedRanges
    BY <1>1, ElementOfSeq
  <2> QED BY <2>1 DEF PlannedRanges
<1>10. \A i \in 1..n : ts[fo[i]].start \in Nat /\ End(ts[fo[i]]) \in Nat
  <2> TAKE i \in 1..n
  <2>1. fo[i] \in 1..n
    BY <1>5
  <2>2. ts[fo[i]] \in LoadedTensors
    BY <2>1, ElementOfSeq
  <2> QED BY <2>2 DEF LoadedTensors, End
<1>11. \A r \in 1..m, i \in 1..n : b[r] < i /\ i <= b[r + 1] =>
          p[r].offset <= ts[fo[i]].start /\ End(ts[fo[i]]) <= p[r].offset + p[r].length
  <2> SUFFICES ASSUME NEW r \in 1..m, NEW i \in 1..n, b[r] < i, i <= b[r + 1]
               PROVE  p[r].offset <= ts[fo[i]].start /\ End(ts[fo[i]]) <= p[r].offset + p[r].length
    OBVIOUS
  <2>1. b[r] \in 0..n /\ b[r + 1] \in 0..n
    BY <1>7
  <2>2. b[r] + 1 \in 1..n /\ b[r + 1] \in 1..n /\ b[r] + 1 <= i
    BY <1>3, <2>1
  <2>3. p[r].offset = ts[fo[b[r] + 1]].start /\ p[r].offset + p[r].length = End(ts[fo[b[r + 1]]])
    BY <1>4 DEF HoldsTensors
  <2>4. ts[fo[b[r] + 1]].start <= ts[fo[i]].start
    <3>1. CASE b[r] + 1 = i
      BY <1>10, <3>1
    <3>2. CASE b[r] + 1 # i
      <4>1. b[r] + 1 < i
        BY <1>3, <2>1, <2>2, <3>2
      <4> QED BY <2>2, <4>1, FileOrderAscends
    <3> QED BY <3>1, <3>2
  <2>5. End(ts[fo[i]]) <= End(ts[fo[b[r + 1]]])
    <3>1. CASE b[r + 1] = i
      BY <1>10, <3>1
    <3>2. CASE b[r + 1] # i
      <4>1. i < b[r + 1]
        BY <1>3, <2>1, <2>2, <3>2
      <4> QED BY <2>2, <4>1, FileOrderAscends
    <3> QED BY <3>1, <3>2
  <2> QED BY <2>3, <2>4, <2>5
<1>12. \A r \in DOMAIN p, k \in DOMAIN ts :
          k \in ToSet(p[r].tensors) =>
             p[r].offset <= ts[k].start /\ End(ts[k]) <= p[r].offset + p[r].length
  <2> SUFFICES ASSUME NEW r \in 1..m, NEW k, k \in ToSet(p[r].tensors)
               PROVE  p[r].offset <= ts[k].start /\ End(ts[k]) <= p[r].offset + p[r].length
    BY <1>3
  <2>1. DOMAIN p[r].tensors = 1..(b[r + 1] - b[r])
    <3>1. p[r].tensors \in Seq(Nat) /\ Len(p[r].tensors) = b[r + 1] - b[r]
      BY <1>7
    <3> QED BY <3>1, LenProperties
  <2>2. PICK i \in 1..(b[r + 1] - b[r]) : k = p[r].tensors[i]
    BY <2>1 DEF ToSet
  <2>3. k = fo[b[r] + i]
    BY <1>7, <2>2
  <2>4. b[r] + i \in 1..n /\ b[r] < b[r] + i /\ b[r] + i <= b[r + 1]
    <3>1. b[r] \in 0..n /\ b[r + 1] \in 0..n
      BY <1>7
    <3> QED BY <1>3, <3>1
  <2> QED BY <1>11, <2>3, <2>4
<1>13. \A r \in 2..m : p[r - 1].offset + p[r - 1].length <= p[r].offset
  <2> TAKE r \in 2..m
  <2>1. r - 1 \in 1..m /\ r \in 1..m /\ r - 1 + 1 = r
    BY <1>3
  <2>2. p[r - 1].offset + p[r - 1].length = End(ts[fo[b[r]]]) /\ b[r - 1] < b[r]
    BY <1>4, <2>1 DEF HoldsTensors
  <2>3. p[r].offset = ts[fo[b[r] + 1]].start /\ b[r] < b[r + 1]
    BY <1>4, <2>1 DEF HoldsTensors
  <2>4. b[r - 1] \in 0..n /\ b[r] \in 0..n /\ b[r + 1] \in 0..n
    BY <1>7, <2>1
  <2>5. b[r] \in 1..n /\ b[r] + 1 \in 1..n /\ b[r] < b[r] + 1
    BY <1>3, <2>2, <2>3, <2>4
  <2>6. End(ts[fo[b[r]]]) <= ts[fo[b[r] + 1]].start
    BY <2>5, FileOrderAscends
  <2> QED BY <2>2, <2>3, <2>6
<1>14. \A r \in DOMAIN p : Multi(p[r]) => p[r].length <= MaxSpan
  <2> SUFFICES ASSUME NEW r \in 1..m, Multi(p[r]) PROVE p[r].length <= MaxSpan
    BY <1>3
  <2>1. HoldsTensors(ts, p[r], b[r], b[r + 1])
    BY <1>4
  <2>2. b[r + 1] - b[r] > 1
    BY <1>7 DEF Multi
  <2> QED BY <2>1, <2>2 DEF HoldsTensors
<1>15. \A r \in DOMAIN p : GapsWithin(ts, p[r].tensors, MaxGap)
  <2> SUFFICES ASSUME NEW r \in 1..m, NEW i \in 2..(b[r + 1] - b[r])
               PROVE  ts[p[r].tensors[i]].start - End(ts[p[r].tensors[i - 1]]) <= MaxGap
    BY <1>3, <1>7 DEF GapsWithin
  <2>1. HoldsTensors(ts, p[r], b[r], b[r + 1])
    BY <1>4
  <2>2. b[r] \in Nat /\ b[r + 1] \in Nat
    <3>1. b[r] \in 0..n /\ b[r + 1] \in 0..n
      BY <1>7
    <3> QED BY <1>3, <3>1
  <2>3. i \in 1..(b[r + 1] - b[r]) /\ i - 1 \in 1..(b[r + 1] - b[r])
    BY <2>2
  <2>4. p[r].tensors[i] = fo[b[r] + i] /\ p[r].tensors[i - 1] = fo[b[r] + (i - 1)]
    BY <1>7, <2>3
  <2> QED BY <2>1, <2>4 DEF HoldsTensors
<1> QED BY <1>8, <1>12, <1>13, <1>14, <1>15 DEF PlanCovers, p

(* The charges of a loading layer.                                         *)
\* What the ledger charges when the tensors S are loaded.
ChargesOf(ts, S) ==
    [n \in Names |-> IF n[1] = Active(Layer) /\ n[2] \in S THEN ResidentCharge(ts[n[2]]) ELSE 0]

\* A ledger that charges the tensors S their resident size, and nothing else.
LedgerHolds(b, ts, S) ==
    /\ LedgerOK(b) /\ S \subseteq DOMAIN ts
    /\ b.allocations = ChargesOf(ts, S) /\ b.used = Settled(ts, S)

\* A layout that the run can load.
Layout(ts) == ts \in Seq(LoadedTensors) /\ DOMAIN ts \subseteq Rests

\* The charges of a tensor are positive, and reading one takes at least what it
\* keeps (memory.rs, accounting_bytes).
LEMMA LayoutTyped ==
    ASSUME NEW ts, Layout(ts)
    PROVE  /\ Len(ts) \in Nat /\ DOMAIN ts = 1..Len(ts) /\ IsFiniteSet(DOMAIN ts)
           /\ \A k \in DOMAIN ts : /\ ts[k].start \in Nat /\ ts[k].file \in Nat /\ ts[k].half \in BOOLEAN
                                   /\ ResidentCharge(ts[k]) \in Nat \ {0}
                                   /\ LoadCharge(ts[k]) \in Nat \ {0}
                                   /\ ResidentCharge(ts[k]) <= LoadCharge(ts[k])
<1>1. Len(ts) \in Nat /\ DOMAIN ts = 1..Len(ts)
  BY LenProperties DEF Layout
<1>2. IsFiniteSet(DOMAIN ts)
  BY <1>1, FS_Interval
<1>3. ASSUME NEW k \in DOMAIN ts
      PROVE  /\ ts[k].start \in Nat /\ ts[k].file \in Nat /\ ts[k].half \in BOOLEAN
             /\ ResidentCharge(ts[k]) \in Nat \ {0}
             /\ LoadCharge(ts[k]) \in Nat \ {0}
             /\ ResidentCharge(ts[k]) <= LoadCharge(ts[k])
  <2>1. ts[k] \in LoadedTensors
    BY <1>1, ElementOfSeq DEF Layout
  <2>2. ts[k].start \in Nat /\ ts[k].file \in Nat /\ ts[k].half \in BOOLEAN
    BY <2>1 DEF LoadedTensors
  <2>3. CASE ts[k].half
    BY <2>2, <2>3 DEF ResidentCharge, LoadCharge, Larger
  <2>4. CASE ~ts[k].half
    BY <2>2, <2>4 DEF ResidentCharge, LoadCharge, Larger
  <2> QED BY <2>2, <2>3, <2>4
<1> QED BY <1>1, <1>2, <1>3

\* The resident charges as one function.
ResidentCharges(ts) == [k \in DOMAIN ts |-> ResidentCharge(ts[k])]

\* What a set of tensors settles to is the sum of their resident charges.
LEMMA SettledIsSum ==
    ASSUME NEW ts, Layout(ts), NEW S \in SUBSET DOMAIN ts
    PROVE  Settled(ts, S) = SumOver(ResidentCharges(ts), S)
<1> DEFINE f == [k \in S |-> ResidentCharge(ts[k])]
<1>1. IsFiniteSet(S)
  BY LayoutTyped, FS_Subset
<1>2. Settled(ts, S) = (CHOOSE h : Sums(h, f, S))[S]
  BY DEF Settled, MapThenSumSet, MapThenFoldSet, Sums
<1>3. Settled(ts, S) = SumOver(f, S)
  BY <1>2, SumIsFold
<1>4. \A k \in S : f[k] = ResidentCharges(ts)[k]
  BY DEF ResidentCharges
<1> HIDE DEF f
<1>5. SumOver(f, S) = SumOver(ResidentCharges(ts), S)
  BY <1>1, <1>4, SumSame
<1> QED BY <1>3, <1>5

\* What is settled for no tensor, for one more, and for two disjoint sets.
LEMMA SettledFacts ==
    ASSUME NEW ts, Layout(ts)
    PROVE  /\ Settled(ts, {}) = 0
           /\ \A S \in SUBSET DOMAIN ts : Settled(ts, S) \in Nat
           /\ \A S \in SUBSET DOMAIN ts : \A k \in DOMAIN ts \ S :
                 Settled(ts, S \cup {k}) = Settled(ts, S) + ResidentCharge(ts[k])
           /\ \A S, T \in SUBSET DOMAIN ts : S \cap T = {} =>
                 Settled(ts, S \cup T) = Settled(ts, S) + Settled(ts, T)
           /\ \A S, T \in SUBSET DOMAIN ts : S \subseteq T => Settled(ts, S) <= Settled(ts, T)
<1> DEFINE f == ResidentCharges(ts)
           D == DOMAIN ts
<1>1. \A k \in D : f[k] \in Nat /\ f[k] \in Int /\ f[k] = ResidentCharge(ts[k])
  <2> TAKE k \in D
  <2>1. ResidentCharge(ts[k]) \in Nat
    BY LayoutTyped
  <2>2. f[k] = ResidentCharge(ts[k])
    BY DEF ResidentCharges
  <2> QED BY <2>1, <2>2
<1>2. IsFiniteSet(D) /\ \A S \in SUBSET D : IsFiniteSet(S)
  BY LayoutTyped, FS_Subset
<1>3. \A S \in SUBSET D : Settled(ts, S) = SumOver(f, S)
  BY SettledIsSum
<1> HIDE DEF f
<1>4. Settled(ts, {}) = 0
  BY <1>3, SumEmpty
<1>5. \A S \in SUBSET D : Settled(ts, S) \in Nat
  <2> TAKE S \in SUBSET D
  <2>1. IsFiniteSet(S) /\ \A x \in S : f[x] \in Nat
    BY <1>1, <1>2
  <2> QED BY <1>3, <2>1, SumNat
<1>6. ASSUME NEW S \in SUBSET D, NEW k \in D \ S
      PROVE  Settled(ts, S \cup {k}) = Settled(ts, S) + ResidentCharge(ts[k])
  <2>1. IsFiniteSet(S) /\ k \notin S /\ \A x \in S \cup {k} : f[x] \in Int
    BY <1>1, <1>2
  <2>2. SumOver(f, S \cup {k}) = SumOver(f, S) + f[k]
    BY <2>1, SumAdd
  <2>3. Settled(ts, S \cup {k}) = SumOver(f, S \cup {k}) /\ Settled(ts, S) = SumOver(f, S)
    BY <1>3
  <2> QED BY <1>1, <2>2, <2>3
<1>7. ASSUME NEW S \in SUBSET D, NEW T \in SUBSET D, S \cap T = {}
      PROVE  Settled(ts, S \cup T) = Settled(ts, S) + Settled(ts, T)
  <2>1. IsFiniteSet(S) /\ IsFiniteSet(T) /\ \A x \in S \cup T : f[x] \in Int
    BY <1>1, <1>2
  <2>2. SumOver(f, S \cup T) = SumOver(f, S) + SumOver(f, T)
    BY <1>7, <2>1, SumJoin2
  <2>3. /\ Settled(ts, S \cup T) = SumOver(f, S \cup T)
        /\ Settled(ts, S) = SumOver(f, S) /\ Settled(ts, T) = SumOver(f, T)
    BY <1>3
  <2> QED BY <2>2, <2>3
<1>8. ASSUME NEW S \in SUBSET D, NEW T \in SUBSET D, S \subseteq T
      PROVE  Settled(ts, S) <= Settled(ts, T)
  <2>1. T \ S \in SUBSET D /\ S \cap (T \ S) = {} /\ S \cup (T \ S) = T
    BY <1>8
  <2>2. Settled(ts, T) = Settled(ts, S) + Settled(ts, T \ S)
    BY <1>7, <2>1
  <2>3. Settled(ts, S) \in Nat /\ Settled(ts, T \ S) \in Nat
    BY <1>5, <2>1
  <2> QED BY <2>2, <2>3
<1> QED BY <1>4, <1>5, <1>6, <1>7, <1>8

(* The names of the charges are names, and no two are the same.            *)
LEMMA LoadNames ==
    ASSUME NEW ts, Layout(ts)
    PROVE  /\ \A k \in DOMAIN ts : TensorName(k) \in Names /\ TensorName(k)[1] = Active(Layer)
                                     /\ TensorName(k)[2] = k
           /\ TempName \in Names /\ TempName[1] # Active(Layer)
<1>1. Active(Layer) \in NamePrefixes /\ <<"tmp", Layer>> \in NamePrefixes /\ 1 \in Rests
  BY LayerAssumption, LayersAssumption
<1>2. \A k \in DOMAIN ts : k \in Rests
  BY DEF Layout
<1>3. \A k \in DOMAIN ts : TensorName(k) \in Names /\ TensorName(k)[1] = Active(Layer)
                              /\ TensorName(k)[2] = k
  BY <1>1, <1>2 DEF TensorName, Names
<1>4. TempName \in Names /\ TempName[1] = <<"tmp", Layer>>
  BY <1>1 DEF TempName, Names
<1>5. <<"tmp", Layer>> # Active(Layer)
  BY DEF Active
<1> QED BY <1>3, <1>4, <1>5

(* What with one ledger a charge costs, and when it is refused.            *)
LEMMA ChargeResult ==
    ASSUME NEW b, LedgerOK(b), NEW n \in Names, b.allocations[n] = 0, NEW x \in Nat \ {0}
    PROVE  /\ AllocateResult(b, n, x) = "Ok" <=> b.used + x <= b.total
           /\ AllocateResult(b, n, x) = "Ok" => x \in 0..MaxU64
<1>1. b.used \in Nat /\ b.total \in Nat /\ b.total <= MaxU64 /\ MaxU64 \in Nat
  BY LedgerParts, MaxU64Assumption
<1> QED BY <1>1 DEF AllocateResult, Charged, CanAllocate, Available

\* The tensor k is not charged yet, and can be charged x bytes, or not.
ToCharge(ts, S, b, k, x) ==
    Layout(ts) /\ LedgerHolds(b, ts, S) /\ k \in DOMAIN ts \ S /\ x \in Nat \ {0}

ChargedAs(ts, S, b, k, x) ==
    LET n == TensorName(k)
        c == Allocated(b, n, x)
    IN  /\ AllocateResult(b, n, x) = "Ok" <=> b.used + x <= b.total
        /\ AllocateResult(b, n, x) = "Ok" =>
              /\ LedgerOK(c) /\ c.total = b.total /\ c.used = b.used + x
              /\ c.peak_used = Larger(b.peak_used, b.used + x)
              /\ c.allocations = [ChargesOf(ts, S) EXCEPT ![n] = x]
              /\ x = ResidentCharge(ts[k]) => LedgerHolds(c, ts, S \cup {k})

(* A tensor is charged its resident size.                                  *)
LEMMA ChargedResident ==
    ASSUME NEW ts, NEW S, NEW b, NEW k, NEW x, ToCharge(ts, S, b, k, x)
    PROVE  ChargedAs(ts, S, b, k, x)
<1> DEFINE n == TensorName(k)
           c == Allocated(b, n, x)
<1> USE DEF ToCharge
<1>1. n \in Names /\ n[1] = Active(Layer) /\ n[2] = k
  BY LoadNames
<1>2. LedgerOK(b) /\ b.allocations = ChargesOf(ts, S) /\ b.used = Settled(ts, S) /\ S \subseteq DOMAIN ts
  BY DEF LedgerHolds
<1>3. b.allocations[n] = 0
  BY <1>1, <1>2 DEF ChargesOf
<1>4. AllocateResult(b, n, x) = "Ok" <=> b.used + x <= b.total
  BY <1>1, <1>2, <1>3, ChargeResult
<1>5. ASSUME AllocateResult(b, n, x) = "Ok"
      PROVE  /\ LedgerOK(c) /\ c.total = b.total /\ c.used = b.used + x
             /\ c.peak_used = Larger(b.peak_used, b.used + x)
             /\ c.allocations = [ChargesOf(ts, S) EXCEPT ![n] = x]
             /\ x = ResidentCharge(ts[k]) => LedgerHolds(c, ts, S \cup {k})
  <2>1. x \in 0..MaxU64
    BY <1>1, <1>2, <1>3, <1>5, ChargeResult
  <2>2. LedgerOK(c)
    BY <1>1, <1>2, <1>5, <2>1, AllocatedOK
  <2>3. /\ c.total = b.total /\ c.used = b.used + x
        /\ c.peak_used = Larger(b.peak_used, b.used + x)
        /\ c.allocations = [ChargesOf(ts, S) EXCEPT ![n] = x]
    BY <1>2 DEF Allocated, Recharged
  <2> HIDE DEF c
  <2>4. ASSUME x = ResidentCharge(ts[k]) PROVE LedgerHolds(c, ts, S \cup {k})
    <3>1. c.used = Settled(ts, S \cup {k})
      BY <1>2, <2>3, <2>4, SettledFacts
    <3>2. c.allocations = ChargesOf(ts, S \cup {k})
      <4>1. \A m \in Names : (IF m = n THEN x ELSE ChargesOf(ts, S)[m]) = ChargesOf(ts, S \cup {k})[m]
        <5> TAKE m \in Names
        <5>1. m = n <=> m[1] = Active(Layer) /\ m[2] = k
          BY DEF Names, TensorName
        <5>2. CASE m = n
          BY <1>1, <2>4, <5>2 DEF ChargesOf
        <5>3. CASE m # n
          BY <5>1, <5>3 DEF ChargesOf
        <5> QED BY <5>2, <5>3
      <4>2. [ChargesOf(ts, S) EXCEPT ![n] = x] = [m \in Names |-> IF m = n THEN x ELSE ChargesOf(ts, S)[m]]
        BY DEF ChargesOf
      <4>3. ChargesOf(ts, S \cup {k}) = [m \in Names |-> ChargesOf(ts, S \cup {k})[m]]
        BY DEF ChargesOf
      <4> QED BY <2>3, <4>1, <4>2, <4>3
    <3> QED BY <1>2, <2>2, <3>1, <3>2 DEF LedgerHolds
  <2> QED BY <2>2, <2>3, <2>4
<1> QED BY <1>4, <1>5 DEF ChargedAs

(* A tensor that is loaded on its own is charged its load first, then its  *)
(* resident size; only the first of the two can be refused.                *)
LEMMA ChargedSettled ==
    ASSUME NEW ts, Layout(ts), NEW S, NEW b, LedgerHolds(b, ts, S), NEW k \in DOMAIN ts \ S,
           AllocateResult(b, TensorName(k), LoadCharge(ts[k])) = "Ok"
    PROVE  LET n == TensorName(k)
               c == Allocated(b, n, LoadCharge(ts[k]))
               d == Resized(c, n, ResidentCharge(ts[k]))
           IN  /\ ResizeResult(c, n, ResidentCharge(ts[k])) = "Ok"
               /\ LedgerHolds(d, ts, S \cup {k}) /\ d.total = b.total
               /\ d.peak_used = Larger(b.peak_used, b.used + LoadCharge(ts[k]))
<1> DEFINE n == TensorName(k)
           x == LoadCharge(ts[k])
           y == ResidentCharge(ts[k])
           c == Allocated(b, n, x)
           d == Resized(c, n, y)
<1>1. n \in Names /\ n[1] = Active(Layer) /\ n[2] = k
  BY LoadNames
<1>2. LedgerOK(b) /\ b.allocations = ChargesOf(ts, S) /\ b.used = Settled(ts, S) /\ S \subseteq DOMAIN ts
  BY DEF LedgerHolds
<1>3. x \in Nat \ {0} /\ y \in Nat \ {0} /\ y <= x
  BY LayoutTyped
<1>4. /\ LedgerOK(c) /\ c.total = b.total /\ c.used = b.used + x
      /\ c.peak_used = Larger(b.peak_used, b.used + x)
      /\ c.allocations = [ChargesOf(ts, S) EXCEPT ![n] = x]
  <2>1. AllocateResult(b, n, x) = "Ok"
    OBVIOUS
  <2>2. ToCharge(ts, S, b, k, x)
    BY <1>3 DEF ToCharge
  <2>3. ChargedAs(ts, S, b, k, x)
    BY <2>2, ChargedResident
  <2> HIDE DEF x
  <2> QED BY <2>1, <2>3 DEF ChargedAs
<1>5. c.allocations[n] = x
  BY <1>1, <1>4 DEF ChargesOf
<1>6. b.used \in Nat /\ b.peak_used \in Nat /\ c.used \in Nat /\ c.total \in Nat /\ c.total <= MaxU64 /\ MaxU64 \in Nat
  BY <1>2, <1>4, LedgerParts, MaxU64Assumption
<1> HIDE DEF c, x, y
<1>7. ResizeResult(c, n, y) = "Ok"
  BY <1>3, <1>4, <1>5, <1>6 DEF ResizeResult, Charged, CanAllocate, Available
<1>8. y \in 0..MaxU64
  <2>1. c.allocations[n] \in 0..MaxU64
    BY <1>1, <1>4, LedgerParts
  <2> QED BY <1>3, <1>5, <1>6, <2>1
<1>9. LedgerOK(d)
  BY <1>1, <1>4, <1>7, <1>8, ResizedOK
<1>10. /\ d.total = c.total /\ d.used = c.used + y - x
       /\ d.peak_used = Larger(c.peak_used, c.used + y - x)
       /\ d.allocations = [c.allocations EXCEPT ![n] = y]
  BY <1>5 DEF Resized, Recharged
<1> HIDE DEF d
<1>11. d.peak_used = Larger(b.peak_used, b.used + x)
  BY <1>3, <1>4, <1>6, <1>10 DEF Larger
<1>12. d.used = Settled(ts, S \cup {k})
  <2>1. d.used = b.used + y
    BY <1>3, <1>4, <1>6, <1>10
  <2> QED BY <1>2, <2>1, SettledFacts DEF y
<1>13. d.allocations = ChargesOf(ts, S \cup {k})
  <2>1. \A m \in Names : (IF m = n THEN y ELSE IF m = n THEN x ELSE ChargesOf(ts, S)[m]) = ChargesOf(ts, S \cup {k})[m]
    <3> TAKE m \in Names
    <3>1. m = n <=> m[1] = Active(Layer) /\ m[2] = k
      BY DEF Names, TensorName
    <3>2. CASE m = n
      BY <1>1, <3>2 DEF ChargesOf, y
    <3>3. CASE m # n
      BY <3>1, <3>3 DEF ChargesOf
    <3> QED BY <3>2, <3>3
  <2>2. d.allocations = [m \in Names |-> IF m = n THEN y ELSE IF m = n THEN x ELSE ChargesOf(ts, S)[m]]
    BY <1>4, <1>10 DEF ChargesOf
  <2>3. ChargesOf(ts, S \cup {k}) = [m \in Names |-> ChargesOf(ts, S \cup {k})[m]]
    BY DEF ChargesOf
  <2> QED BY <2>1, <2>2, <2>3
<1>14. LedgerHolds(d, ts, S \cup {k})
  BY <1>2, <1>9, <1>12, <1>13 DEF LedgerHolds
<1> QED BY <1>4, <1>7, <1>10, <1>11, <1>14 DEF c, d, x, y

(* A buffer is charged and given back, and only raises the peak.           *)
LEMMA ChargedBuffer ==
    ASSUME NEW ts, Layout(ts), NEW S, NEW b, LedgerHolds(b, ts, S), NEW x \in Nat \ {0}
    PROVE  LET c == Allocated(b, TempName, x)
               d == Released(c, TempName)
           IN  /\ AllocateResult(b, TempName, x) = "Ok" <=> b.used + x <= b.total
               /\ AllocateResult(b, TempName, x) = "Ok" =>
                     /\ LedgerHolds(d, ts, S) /\ d.total = b.total
                     /\ d.peak_used = Larger(b.peak_used, b.used + x)
                     /\ \A k \in S : c.allocations[TensorName(k)] = ResidentCharge(ts[k])
<1> DEFINE n == TempName
           c == Allocated(b, n, x)
           d == Released(c, n)
<1>1. n \in Names /\ n[1] # Active(Layer)
  BY LoadNames
<1>2. LedgerOK(b) /\ b.allocations = ChargesOf(ts, S) /\ b.used = Settled(ts, S) /\ S \subseteq DOMAIN ts
  BY DEF LedgerHolds
<1>3. b.allocations[n] = 0
  BY <1>1, <1>2 DEF ChargesOf
<1>4. AllocateResult(b, n, x) = "Ok" <=> b.used + x <= b.total
  BY <1>1, <1>2, <1>3, ChargeResult
<1>5. ASSUME AllocateResult(b, n, x) = "Ok"
      PROVE  /\ LedgerHolds(d, ts, S) /\ d.total = b.total
             /\ d.peak_used = Larger(b.peak_used, b.used + x)
             /\ \A k \in S : c.allocations[TensorName(k)] = ResidentCharge(ts[k])
  <2>1. x \in 0..MaxU64
    BY <1>1, <1>2, <1>3, <1>5, ChargeResult
  <2>2. LedgerOK(c)
    BY <1>1, <1>2, <1>5, <2>1, AllocatedOK
  <2>3. /\ c.total = b.total /\ c.used = b.used + x
        /\ c.peak_used = Larger(b.peak_used, b.used + x)
        /\ c.allocations = [ChargesOf(ts, S) EXCEPT ![n] = x]
    BY <1>2 DEF Allocated, Recharged
  <2> HIDE DEF c, n
  <2>4. LedgerOK(d)
    BY <1>1, <2>2, ReleasedOK
  <2>5. c.allocations[n] = x
    BY <1>1, <2>3 DEF ChargesOf
  <2>6. /\ d.total = b.total /\ d.used = c.used - x /\ d.peak_used = c.peak_used
        /\ d.allocations = [c.allocations EXCEPT ![n] = 0]
    BY <2>3, <2>5 DEF Released
  <2>7. d.used = b.used
    <3>1. b.used \in Nat
      BY <1>2, LedgerParts
    <3> QED BY <2>3, <2>6, <3>1
  <2> HIDE DEF d
  <2>8. d.allocations = ChargesOf(ts, S)
    <3>1. ChargesOf(ts, S)[n] = 0
      BY <1>1 DEF ChargesOf
    <3>2. ChargesOf(ts, S) = [m \in Names |-> ChargesOf(ts, S)[m]]
      BY DEF ChargesOf
    <3>3. d.allocations = [m \in Names |-> IF m = n THEN 0 ELSE IF m = n THEN x ELSE ChargesOf(ts, S)[m]]
      BY <2>3, <2>6, <3>2
    <3>4. \A m \in Names : (IF m = n THEN 0 ELSE IF m = n THEN x ELSE ChargesOf(ts, S)[m]) = ChargesOf(ts, S)[m]
      BY <3>1
    <3> QED BY <3>2, <3>3, <3>4
  <2>9. \A k \in S : c.allocations[TensorName(k)] = ResidentCharge(ts[k])
    <3> TAKE k \in S
    <3>1. TensorName(k) \in Names /\ TensorName(k)[1] = Active(Layer) /\ TensorName(k)[2] = k
      BY <1>2, LoadNames
    <3>2. TensorName(k) # n
      BY <1>1, <3>1
    <3>3. ChargesOf(ts, S)[TensorName(k)] = ResidentCharge(ts[k])
      BY <3>1 DEF ChargesOf
    <3>4. ChargesOf(ts, S) = [m \in Names |-> ChargesOf(ts, S)[m]]
      BY DEF ChargesOf
    <3> QED BY <2>3, <3>1, <3>2, <3>3, <3>4
  <2> QED BY <1>2, <2>3, <2>4, <2>6, <2>7, <2>8, <2>9 DEF LedgerHolds
<1> QED BY <1>4, <1>5 DEF n, c, d

(* Releasing the layer empties a ledger that charges nothing else.         *)
LEMMA LayerGivenBack ==
    ASSUME NEW b, LedgerOK(b), \A n \in Names : n[1] # Active(Layer) => b.allocations[n] = 0
    PROVE  LET c == LayerReleased(b, Layer)
           IN  /\ LedgerOK(c) /\ c.total = b.total /\ c.used = 0
               /\ c.allocations = [n \in Names |-> 0]
<1> DEFINE S == ChargedUnder(b, Active(Layer))
           c == LayerReleased(b, Layer)
<1>1. S \in SUBSET Names
  BY DEF ChargedUnder
<1>2. c = [total |-> b.total,
           allocations |-> [n \in Names |-> IF n \in S THEN 0 ELSE b.allocations[n]],
           used |-> b.used - Cardinality(BytesOf(b.allocations, S)),
           peak_used |-> b.peak_used]
  BY DEF LayerReleased, ReleasedAll, SumOf, BytesOf
<1>3. \A n \in Names : (IF n \in S THEN 0 ELSE b.allocations[n]) = 0
  BY DEF ChargedUnder, Charged
<1> HIDE DEF c, S
<1>4. LedgerOK(c)
  BY <1>1, <1>2, DischargeSet
<1>5. c.allocations = [n \in Names |-> 0] /\ c.total = b.total
  BY <1>2, <1>3
<1>6. c.used = 0
  <2>1. ChargedBytes(c.allocations) = {}
    BY <1>5 DEF ChargedBytes
  <2>2. c.used = Cardinality({})
    BY <1>4, <2>1 DEF LedgerOK
  <2> QED BY <2>2, FS_EmptySet
<1> QED BY <1>4, <1>5, <1>6 DEF c

(* The ranges of a load: each tensor of the layer is in one of them, once. *)
Partition(ts, rs) ==
    /\ Layout(ts)
    /\ Len(rs) \in Nat /\ DOMAIN rs = 1..Len(rs)
    /\ \A r \in 1..Len(rs) : /\ Len(rs[r].tensors) \in Nat \ {0}
                             /\ DOMAIN rs[r].tensors = 1..Len(rs[r].tensors)
                             /\ \A i \in 1..Len(rs[r].tensors) : rs[r].tensors[i] \in DOMAIN ts
                             /\ Multi(rs[r]) => rs[r].length \in Nat
    /\ \A q, r \in 1..Len(rs) : \A i \in 1..Len(rs[q].tensors), j \in 1..Len(rs[r].tensors) :
          rs[q].tensors[i] = rs[r].tensors[j] => q = r /\ i = j
    /\ \A k \in DOMAIN ts : \E r \in 1..Len(rs) : \E i \in 1..Len(rs[r].tensors) : rs[r].tensors[i] = k

\* The ranges of an individual load.
SingleRanges(ts) == [k \in DOMAIN ts |-> Alone(ts, k)]

\* The union of singletons.
LEMMA UnionOfSingles ==
    ASSUME NEW J, NEW a, \A j \in J : a[j] = {j}
    PROVE  UNION {a[j] : j \in J} = J
<1>1. \A j \in J : j \in UNION {a[i] : i \in J}
  OBVIOUS
<1>2. \A x \in UNION {a[i] : i \in J} : x \in J
  OBVIOUS
<1> QED BY <1>1, <1>2

\* A place counted from a cut, before the next one.
LEMMA PlaceAfterCut ==
    ASSUME NEW n \in Nat, NEW x \in 0..n, NEW y \in 0..n, NEW i \in 1..(y - x)
    PROVE  /\ x \in Nat /\ y \in Nat /\ i \in Nat /\ i >= 1 /\ i <= y - x
           /\ x + i \in 1..n
OBVIOUS

\* The ranges of an individual load, one tensor each, partition the layer.
LEMMA SinglesPartition ==
    ASSUME NEW ts, Layout(ts)
    PROVE  /\ Partition(ts, SingleRanges(ts)) /\ Len(SingleRanges(ts)) = Len(ts)
           /\ \A k \in DOMAIN ts : /\ ~Multi(SingleRanges(ts)[k]) /\ SingleRanges(ts)[k].tensors[1] = k
                                   /\ Before(SingleRanges(ts), k) = 1..(k - 1)
<1> DEFINE rs == SingleRanges(ts)
           n == Len(ts)
<1>1. n \in Nat /\ DOMAIN ts = 1..n
  BY LayoutTyped
<1>2. Len(rs) = n /\ DOMAIN rs = 1..n
  <2>1. rs = [k \in 1..n |-> Alone(ts, k)]
    BY <1>1 DEF SingleRanges
  <2>2. rs \in [1..n -> {Alone(ts, k) : k \in 1..n}]
    BY <2>1
  <2> QED BY <1>1, <2>2, LenProperties
<1>3. \A k \in 1..n : rs[k].tensors = <<k>>
  BY <1>1 DEF SingleRanges, Alone
<1> HIDE DEF rs
<1>4. \A k \in 1..n : /\ Len(rs[k].tensors) = 1 /\ DOMAIN rs[k].tensors = 1..1 /\ rs[k].tensors[1] = k
                      /\ ~Multi(rs[k]) /\ ToSet(rs[k].tensors) = {k}
  <2> TAKE k \in 1..n
  <2>1. rs[k].tensors = <<k>>
    BY <1>3
  <2>2. Len(<<k>>) = 1 /\ DOMAIN <<k>> = 1..1 /\ <<k>>[1] = k
    OBVIOUS
  <2>3. ToSet(<<k>>) = {k}
    BY <2>2 DEF ToSet
  <2> QED BY <2>1, <2>2, <2>3 DEF Multi
<1>5. Partition(ts, rs)
  BY <1>1, <1>2, <1>4 DEF Partition
<1>6. \A k \in 1..n : Before(rs, k) = 1..(k - 1)
  <2> TAKE k \in 1..n
  <2>1. \A j \in 1..(k - 1) : j \in 1..n
    BY <1>1
  <2>2. \A j \in 1..(k - 1) : ToSet(rs[j].tensors) = {j}
    BY <1>4, <2>1
  <2>3. UNION {ToSet(rs[j].tensors) : j \in 1..(k - 1)} = 1..(k - 1)
    <3> DEFINE J == 1..(k - 1)
               a == [j \in J |-> ToSet(rs[j].tensors)]
    <3>1. \A j \in J : a[j] = {j}
      BY <2>2
    <3>2. UNION {ToSet(rs[j].tensors) : j \in J} = UNION {a[j] : j \in J}
      OBVIOUS
    <3> HIDE DEF J, a
    <3>3. UNION {a[j] : j \in J} = J
      BY <3>1, UnionOfSingles
    <3> QED BY <3>2, <3>3 DEF J
  <2> QED BY <2>3 DEF Before
<1> QED BY <1>1, <1>2, <1>4, <1>5, <1>6 DEF rs

\* The ranges of the read plan of a layer whose tensors do not overlap partition
\* the layer (build_layer_read_plan).
LEMMA PlanPartition ==
    ASSUME NEW ts, Layout(ts), ~Overlapping(ts)
    PROVE  Partition(ts, BuildLayerReadPlan(ts))
<1> DEFINE p == BuildLayerReadPlan(ts)
           n == Len(ts)
           m == Len(p)
           fo == FileOrder(ts)
<1>0. ts \in Seq(LoadedTensors)
  BY DEF Layout
<1>1. p \in Seq(PlannedRanges) /\ \E b : CutAt(ts, n, p, b)
  BY <1>0, ReadPlanCuts
<1>2. PICK b : CutAt(ts, n, p, b)
  BY <1>1
<1> HIDE DEF p
<1>3. n \in Nat /\ m \in Nat /\ DOMAIN p = 1..m /\ DOMAIN ts = 1..n
  BY <1>0, <1>1, LenProperties
<1>4. /\ b \in [1..(m + 1) -> 0..n] /\ b[1] = 0 /\ b[m + 1] = n
      /\ \A r \in 1..m : HoldsTensors(ts, p[r], b[r], b[r + 1])
  BY <1>2 DEF CutAt
<1>5. /\ fo \in [1..n -> 1..n]
      /\ \A x, y \in 1..n : fo[x] = fo[y] => x = y
      /\ \A k \in 1..n : \E x \in 1..n : fo[x] = k
  BY <1>0, FileOrderBijective
<1>6. \A r \in 1..m : /\ Len(p[r].tensors) = b[r + 1] - b[r]
                      /\ DOMAIN p[r].tensors = 1..(b[r + 1] - b[r])
                      /\ b[r] \in 0..n /\ b[r + 1] \in 0..n /\ b[r] < b[r + 1]
                      /\ \A i \in 1..(b[r + 1] - b[r]) : p[r].tensors[i] = fo[b[r] + i] /\ b[r] + i \in 1..n
  <2> TAKE r \in 1..m
  <2>1. p[r] \in PlannedRanges
    BY <1>1, ElementOfSeq
  <2>2. r \in 1..(m + 1) /\ r + 1 \in 1..(m + 1)
    BY <1>3
  <2>3. HoldsTensors(ts, p[r], b[r], b[r + 1])
    BY <1>4
  <2>4. p[r].tensors \in Seq(Nat)
    BY <2>1 DEF PlannedRanges
  <2>5. DOMAIN p[r].tensors = 1..Len(p[r].tensors)
    BY <2>4, LenProperties
  <2>6. b[r] \in 0..n /\ b[r + 1] \in 0..n
    BY <1>4, <2>2
  <2> QED BY <1>3, <2>3, <2>5, <2>6 DEF HoldsTensors
<1>7. \A r \in 1..m : p[r].length \in Nat
  <2> TAKE r \in 1..m
  <2>1. HoldsTensors(ts, p[r], b[r], b[r + 1])
    BY <1>4
  <2>2. b[r] + 1 \in 1..n /\ b[r + 1] \in 1..n /\ b[r] + 1 <= b[r + 1]
    BY <1>3, <1>6
  <2>3. p[r] \in PlannedRanges
    BY <1>1, ElementOfSeq
  <2>4. p[r].length \in Int
    BY <2>3 DEF PlannedRanges
  <2>5. fo[b[r] + 1] \in 1..n /\ fo[b[r + 1]] \in 1..n
    <3>1. \A k \in 1..n : fo[k] \in 1..n
      BY <1>5
    <3> QED BY <2>2, <3>1
  <2>6. ts[fo[b[r] + 1]] \in LoadedTensors /\ ts[fo[b[r + 1]]] \in LoadedTensors
    BY <1>0, <2>5, ElementOfSeq
  <2>7. /\ ts[fo[b[r] + 1]].start \in Nat /\ ts[fo[b[r + 1]]].start \in Nat
        /\ End(ts[fo[b[r] + 1]]) \in Nat /\ End(ts[fo[b[r + 1]]]) \in Nat
        /\ ts[fo[b[r + 1]]].start <= End(ts[fo[b[r + 1]]])
    <3>1. \A t \in LoadedTensors : t.start \in Nat /\ End(t) \in Nat /\ t.start <= End(t)
      BY DEF LoadedTensors, End
    <3> QED BY <2>6, <3>1
  <2>8. ts[fo[b[r] + 1]].start <= End(ts[fo[b[r + 1]]])
    <3>1. CASE b[r] + 1 = b[r + 1]
      BY <2>7, <3>1
    <3>2. CASE b[r] + 1 # b[r + 1]
      <4>1. b[r] + 1 < b[r + 1]
        BY <2>2, <3>2
      <4>2. ts[fo[b[r] + 1]].start <= ts[fo[b[r + 1]]].start
        BY <1>0, <2>2, <4>1, FileOrderAscends
      <4> QED BY <2>7, <4>2
    <3> QED BY <3>1, <3>2
  <2>9. /\ p[r].offset = ts[fo[b[r] + 1]].start
        /\ p[r].offset + p[r].length = End(ts[fo[b[r + 1]]])
    BY <2>1 DEF HoldsTensors
  <2> QED BY <2>4, <2>7, <2>8, <2>9
\* Places in the file order of different ranges are in different parts of it.
<1>8. \A d \in 0..m : \A q \in 1..m : q + d \in 1..m => b[q + 1] <= b[q + d] \/ d = 0
  <2> DEFINE T == {d \in 0..m : \A q \in 1..m : q + d \in 1..m => b[q + 1] <= b[q + d] \/ d = 0}
  <2>1. 0 \in T
    BY <1>3
  <2>2. \A d \in 1..m : d - 1 \in T => d \in T
    <3> SUFFICES ASSUME NEW d \in 1..m, d - 1 \in T
                 PROVE  \A q \in 1..m : q + d \in 1..m => b[q + 1] <= b[q + d] \/ d = 0
      <4>1. \A d \in 1..m : d \in 0..m
        BY <1>3
      <4> QED BY <4>1
    <3> SUFFICES ASSUME NEW q \in 1..m, q + d \in 1..m PROVE b[q + 1] <= b[q + d]
      OBVIOUS
    <3>1. q + (d - 1) \in 1..m /\ q + (d - 1) + 1 = q + d
      BY <1>3
    <3>2. b[q + (d - 1)] < b[q + d] /\ b[q + (d - 1)] \in 0..n /\ b[q + d] \in 0..n /\ b[q + 1] \in 0..n
      BY <1>6, <3>1
    <3>3. CASE d = 1
      BY <3>2, <3>3
    <3>4. CASE d # 1
      <4>1. b[q + 1] <= b[q + (d - 1)]
        BY <3>1, <3>4
      <4> QED BY <3>2, <4>1
    <3> QED BY <3>3, <3>4
  <2>3. \A d \in 0..m : d \in T
    <3> HIDE DEF T
    <3> QED BY <1>3, <2>1, <2>2, UpTo
  <2> QED BY <2>3
<1>9. \A q, r \in 1..m : q < r => b[q + 1] <= b[r]
  <2> SUFFICES ASSUME NEW q \in 1..m, NEW r \in 1..m, q < r PROVE b[q + 1] <= b[r]
    OBVIOUS
  <2>1. r - q \in 0..m /\ q + (r - q) = r /\ r - q # 0
    BY <1>3
  <2> QED BY <1>8, <2>1
<1>10. \A q, r \in 1..m : \A i \in 1..Len(p[q].tensors), j \in 1..Len(p[r].tensors) :
          p[q].tensors[i] = p[r].tensors[j] => q = r /\ i = j
  <2> SUFFICES ASSUME NEW q \in 1..m, NEW r \in 1..m, NEW i \in 1..Len(p[q].tensors),
                      NEW j \in 1..Len(p[r].tensors), p[q].tensors[i] = p[r].tensors[j]
               PROVE  q = r /\ i = j
    OBVIOUS
  <2>1. /\ i \in 1..(b[q + 1] - b[q]) /\ j \in 1..(b[r + 1] - b[r])
        /\ b[q] \in 0..n /\ b[q + 1] \in 0..n /\ b[r] \in 0..n /\ b[r + 1] \in 0..n
    BY <1>6
  <2>0. b[q] \in Nat /\ b[q + 1] \in Nat /\ b[r] \in Nat /\ b[r + 1] \in Nat /\ i \in Nat /\ j \in Nat /\ i >= 1 /\ j >= 1
        /\ i <= b[q + 1] - b[q] /\ j <= b[r + 1] - b[r]
    BY <1>3, <2>1, PlaceAfterCut
  <2>2. fo[b[q] + i] = fo[b[r] + j] /\ b[q] + i \in 1..n /\ b[r] + j \in 1..n
    <3>1. p[q].tensors[i] = fo[b[q] + i] /\ p[r].tensors[j] = fo[b[r] + j]
      BY <1>6, <2>1
    <3>2. b[q] + i \in 1..n /\ b[r] + j \in 1..n
      BY <1>3, <2>1, PlaceAfterCut
    <3> QED BY <3>1, <3>2
  <2>3. b[q] + i = b[r] + j
    BY <1>5, <2>2
  <2>4. ~(q < r)
    <3> SUFFICES ASSUME q < r PROVE FALSE
      OBVIOUS
    <3>1. b[q + 1] <= b[r]
      BY <1>9
    <3> QED BY <2>0, <2>3, <3>1
  <2>5. ~(r < q)
    <3> SUFFICES ASSUME r < q PROVE FALSE
      OBVIOUS
    <3>1. b[r + 1] <= b[q]
      BY <1>9
    <3> QED BY <2>0, <2>3, <3>1
  <2>6. q = r
    BY <2>4, <2>5
  <2>7. i = j
    BY <2>1, <2>3, <2>6
  <2> QED BY <2>6, <2>7
<1>11. \A k \in DOMAIN ts : \E r \in 1..m : \E i \in 1..Len(p[r].tensors) : p[r].tensors[i] = k
  <2> TAKE k \in DOMAIN ts
  <2>1. PICK x \in 1..n : fo[x] = k
    BY <1>3, <1>5
  <2> DEFINE W == {s \in 1..(m + 1) : x <= b[s]}
  <2>2. W \subseteq Nat /\ W # {}
    <3>1. m + 1 \in 1..(m + 1) /\ x <= b[m + 1]
      BY <1>3, <1>4
    <3> QED BY <3>1
  <2>3. PICK s \in W : \A t \in W : s <= t
    <3> HIDE DEF W
    <3> QED BY <2>2, LeastNumber
  <2>4. s # 1
    BY <1>4, <2>3
  <2>5. s - 1 \in 1..m /\ s - 1 \in 1..(m + 1) /\ s - 1 \notin W /\ s - 1 + 1 = s
    BY <1>3, <2>3, <2>4
  <2>6. b[s - 1] \in 0..n /\ b[s] \in 0..n /\ ~(x <= b[s - 1]) /\ x <= b[s]
    BY <1>6, <2>3, <2>5
  <2>7. x - b[s - 1] \in 1..(b[s] - b[s - 1]) /\ b[s - 1] + (x - b[s - 1]) = x
    BY <2>6
  <2>8. p[s - 1].tensors[x - b[s - 1]] = k /\ x - b[s - 1] \in 1..Len(p[s - 1].tensors)
    <3> DEFINE t == s - 1
               i == x - b[t]
    <3>1. t \in 1..m /\ t + 1 = s /\ i \in 1..(b[t + 1] - b[t]) /\ b[t] + i = x
      BY <2>5, <2>7
    <3> HIDE DEF t, i
    <3>2. p[t].tensors[i] = fo[b[t] + i] /\ Len(p[t].tensors) = b[t + 1] - b[t]
      BY <1>6, <3>1
    <3>3. p[t].tensors[i] = k /\ i \in 1..Len(p[t].tensors)
      BY <2>1, <3>1, <3>2
    <3> QED BY <3>3 DEF t, i
  <2> QED BY <2>5, <2>8
<1>12. \A r \in 1..m : /\ Len(p[r].tensors) \in Nat \ {0}
                       /\ DOMAIN p[r].tensors = 1..Len(p[r].tensors)
                       /\ \A i \in 1..Len(p[r].tensors) : p[r].tensors[i] \in DOMAIN ts
  <2> TAKE r \in 1..m
  <2>1. b[r] \in 0..n /\ b[r + 1] \in 0..n /\ b[r] < b[r + 1] /\ Len(p[r].tensors) = b[r + 1] - b[r]
    BY <1>6
  <2>2. Len(p[r].tensors) \in Nat \ {0}
    BY <2>1
  <2>3. \A i \in 1..Len(p[r].tensors) : p[r].tensors[i] \in DOMAIN ts
    <3> TAKE i \in 1..Len(p[r].tensors)
    <3>1. p[r].tensors[i] = fo[b[r] + i] /\ b[r] + i \in 1..n
      BY <1>6, <2>1
    <3> QED BY <1>3, <1>5, <3>1
  <2> QED BY <1>6, <2>1, <2>2, <2>3
<1> QED BY <1>3, <1>7, <1>10, <1>11, <1>12 DEF Partition, p

\* The numbers f takes up to n, and z.
ReachedTo(z, f, n) == {z} \cup {f[r] : r \in 1..n}

(* The greatest number a function reaches, as the function goes on.        *)
LEMMA GreatestReached ==
    ASSUME NEW z \in Nat, NEW n \in Nat, NEW f, \A r \in 1..n : f[r] \in Nat
    PROVE  /\ \A k \in 0..n : /\ Max(ReachedTo(z, f, k)) \in ReachedTo(z, f, k)
                              /\ Max(ReachedTo(z, f, k)) \in Nat
                              /\ \A x \in ReachedTo(z, f, k) : x <= Max(ReachedTo(z, f, k))
                              /\ Max(ReachedTo(z, f, k)) <= Max(ReachedTo(z, f, n))
           /\ Max(ReachedTo(z, f, 0)) = z
           /\ \A k \in 1..n : /\ Max(ReachedTo(z, f, k)) = Larger(Max(ReachedTo(z, f, k - 1)), f[k])
                              /\ f[k] <= Max(ReachedTo(z, f, n))
<1> DEFINE R(k) == ReachedTo(z, f, k)
           Top(m, k) == m \in R(k) /\ \A x \in R(k) : x <= m
           T == {k \in 0..n : \E m \in Nat : Top(m, k)}
<1>1. \A k \in 0..n : R(k) \subseteq Nat
  BY DEF ReachedTo
<1>2. R(0) = {z} /\ \A k \in 1..n : R(k) = R(k - 1) \cup {f[k]} /\ f[k] \in Nat /\ k - 1 \in 0..n /\ k \in 0..n
  <2>1. R(0) = {z}
    BY DEF ReachedTo
  <2>2. ASSUME NEW k \in 1..n PROVE R(k) = R(k - 1) \cup {f[k]}
    <3>1. 1..k = (1..(k - 1)) \cup {k}
      OBVIOUS
    <3> QED BY <3>1 DEF ReachedTo
  <2> QED BY <2>1, <2>2
<1> HIDE DEF R
<1>3. 0 \in T
  <2>1. Top(z, 0)
    BY <1>2
  <2> QED BY <2>1
<1>4. \A k \in 1..n : k - 1 \in T => k \in T
  <2> SUFFICES ASSUME NEW k \in 1..n, k - 1 \in T PROVE \E m \in Nat : Top(m, k)
    BY <1>2
  <2>1. PICK m \in Nat : Top(m, k - 1)
    OBVIOUS
  <2>2. Larger(m, f[k]) \in Nat /\ Top(Larger(m, f[k]), k)
    <3>1. f[k] \in Nat /\ R(k) = R(k - 1) \cup {f[k]} /\ R(k - 1) \subseteq Nat
      BY <1>1, <1>2
    <3>2. CASE m >= f[k]
      <4>1. Larger(m, f[k]) = m
        BY <3>1, <3>2 DEF Larger
      <4> QED BY <2>1, <3>1, <3>2, <4>1
    <3>3. CASE ~(m >= f[k])
      <4>1. Larger(m, f[k]) = f[k]
        BY <3>1, <3>3 DEF Larger
      <4>2. \A x \in R(k) : x <= f[k]
        BY <2>1, <3>1, <3>3
      <4> QED BY <3>1, <4>1, <4>2
    <3> QED BY <3>2, <3>3
  <2> QED BY <2>2
<1>5. \A k \in 0..n : k \in T
  <2> HIDE DEF T
  <2> QED BY <1>3, <1>4, UpTo
<1>6. \A k \in 0..n : Top(Max(R(k)), k) /\ Max(R(k)) \in Nat
  <2> TAKE k \in 0..n
  <2>1. PICK m \in Nat : Top(m, k)
    BY <1>5
  <2>2. \A y \in R(k) : m >= y
    BY <1>1, <2>1
  <2>3. Max(R(k)) \in R(k) /\ \A y \in R(k) : Max(R(k)) >= y
    BY <2>1, <2>2 DEF Max
  <2> QED BY <1>1, <2>3
<1>7. \A k \in 0..n : R(k) \subseteq R(n)
  <2> TAKE k \in 0..n
  <2>1. 1..k \subseteq 1..n
    OBVIOUS
  <2> QED BY <2>1 DEF R, ReachedTo
<1>8. \A k \in 0..n : Max(R(k)) <= Max(R(n))
  <2>1. n \in 0..n
    OBVIOUS
  <2> QED BY <1>6, <1>7, <2>1
<1>9. Max(R(0)) = z
  <2>1. 0 \in 0..n
    OBVIOUS
  <2> QED BY <1>2, <1>6, <2>1
<1>10. ASSUME NEW k \in 1..n
       PROVE  Max(R(k)) = Larger(Max(R(k - 1)), f[k]) /\ f[k] <= Max(R(n))
  <2>1. /\ f[k] \in Nat /\ R(k) = R(k - 1) \cup {f[k]} /\ k \in 0..n /\ k - 1 \in 0..n
    BY <1>2
  <2> DEFINE a == Max(R(k - 1))
             b == Max(R(k))
  <2>2. a \in Nat /\ a \in R(k - 1) /\ \A x \in R(k - 1) : x <= a
    BY <1>6, <2>1
  <2>3. b \in Nat /\ b \in R(k) /\ \A x \in R(k) : x <= b
    BY <1>6, <2>1
  <2>4. b <= Max(R(n)) /\ n \in 0..n /\ Max(R(n)) \in Nat
    <3>1. n \in 0..n
      OBVIOUS
    <3> QED BY <1>6, <1>8, <2>1, <3>1
  <2> HIDE DEF a, b
  <2>5. a <= b /\ f[k] <= b /\ (b = f[k] \/ b <= a)
    BY <2>1, <2>2, <2>3
  <2>6. b = Larger(a, f[k])
    BY <2>1, <2>2, <2>3, <2>5 DEF Larger
  <2> QED BY <2>1, <2>3, <2>4, <2>5, <2>6 DEF a, b
<1> QED BY <1>6, <1>8, <1>9, <1>10 DEF R

(* What a load has charged when it reaches an item of a range.             *)
Taken(rs, range, item) ==
    Before(rs, range) \cup
    (IF range \in DOMAIN rs THEN {rs[range].tensors[i] : i \in 1..(item - 1)} ELSE {})

\* What a load has taken before its position: nothing at the start, the tensors of
\* the ranges before it at the start of a range, the whole layer at the end.
LEMMA TakenInOrder ==
    ASSUME NEW ts, NEW rs, Partition(ts, rs)
    PROVE  /\ Before(rs, 1) = {} /\ Taken(rs, 1, 1) = {}
           /\ \A r \in 1..(Len(rs) + 1) : Before(rs, r) \subseteq DOMAIN ts /\ Taken(rs, r, 1) = Before(rs, r)
           /\ \A item \in Nat : Taken(rs, Len(rs) + 1, item) = DOMAIN ts
           /\ \A r \in 1..Len(rs) :
                 /\ Before(rs, r + 1) = Before(rs, r) \cup ToSet(rs[r].tensors)
                 /\ Before(rs, r) \cap ToSet(rs[r].tensors) = {}
                 /\ Taken(rs, r, Len(rs[r].tensors) + 1) = Before(rs, r + 1)
                 /\ Taken(rs, r, Len(rs[r].tensors) + 1) = Before(rs, r) \cup ToSet(rs[r].tensors)
                 /\ ToSet(rs[r].tensors) \subseteq DOMAIN ts
                 /\ ~Multi(rs[r]) => ToSet(rs[r].tensors) = {rs[r].tensors[1]}
                 /\ \A i \in 1..Len(rs[r].tensors) :
                       /\ rs[r].tensors[i] \in DOMAIN ts \ Taken(rs, r, i)
                       /\ Taken(rs, r, i + 1) = Taken(rs, r, i) \cup {rs[r].tensors[i]}
                       /\ Taken(rs, r, i + 1) \subseteq Before(rs, r + 1)
<1> DEFINE m == Len(rs)
           D == DOMAIN ts
           S(r) == ToSet(rs[r].tensors)
           L(r) == Len(rs[r].tensors)
           v(r, i) == rs[r].tensors[i]
<1>1. /\ m \in Nat /\ DOMAIN rs = 1..m
      /\ \A r \in 1..m : L(r) \in Nat \ {0} /\ DOMAIN rs[r].tensors = 1..L(r)
      /\ \A r \in 1..m : \A i \in 1..L(r) : v(r, i) \in D
      /\ \A q, r \in 1..m : \A i \in 1..L(q), j \in 1..L(r) : v(q, i) = v(r, j) => q = r /\ i = j
      /\ \A k \in D : \E r \in 1..m : \E i \in 1..L(r) : v(r, i) = k
  BY DEF Partition
<1>2. \A r \in 1..m : S(r) = {v(r, i) : i \in 1..L(r)} /\ S(r) \subseteq D
  <2> TAKE r \in 1..m
  <2>1. S(r) = {v(r, i) : i \in 1..L(r)}
    BY <1>1 DEF ToSet
  <2>2. S(r) \subseteq D
    <3> HIDE DEF S, L, v, D
    <3> QED BY <1>1, <2>1
  <2> QED BY <2>1, <2>2
<1>3. \A r \in 1..(m + 1) : Before(rs, r) = UNION {S(j) : j \in 1..(r - 1)}
  BY DEF Before
<1>4. \A r \in 1..(m + 1) : Taken(rs, r, 1) = Before(rs, r) /\ Before(rs, r) \subseteq D
  <2> TAKE r \in 1..(m + 1)
  <2>1. {v(r, i) : i \in 1..(1 - 1)} = {}
    OBVIOUS
  <2>2. \A j \in 1..(r - 1) : j \in 1..m
    BY <1>1
  <2> HIDE DEF S, v
  <2>3. Before(rs, r) \subseteq D
    BY <1>2, <1>3, <2>2
  <2> QED BY <2>1, <2>3 DEF Taken, v
<1>5. Before(rs, 1) = {}
  <2>1. 1 \in 1..(m + 1)
    BY <1>1
  <2>2. 1..(1 - 1) = {}
    OBVIOUS
  <2> HIDE DEF S
  <2> QED BY <1>3, <2>1, <2>2
<1>6. \A item \in Nat : Taken(rs, m + 1, item) = D
  <2> TAKE item \in Nat
  <2>1. m + 1 \in 1..(m + 1) /\ m + 1 \notin DOMAIN rs /\ m + 1 - 1 = m
    BY <1>1
  <2>2. Taken(rs, m + 1, item) = UNION {S(j) : j \in 1..m}
    BY <1>3, <2>1 DEF Taken
  <2> HIDE DEF S, v, L
  <2>3. D \subseteq UNION {S(j) : j \in 1..m}
    <3> SUFFICES ASSUME NEW k \in D PROVE \E j \in 1..m : k \in S(j)
      OBVIOUS
    <3> QED BY <1>1, <1>2
  <2>4. UNION {S(j) : j \in 1..m} \subseteq D
    BY <1>2
  <2> QED BY <2>2, <2>3, <2>4
<1>7. ASSUME NEW r \in 1..m
      PROVE  /\ Before(rs, r + 1) = Before(rs, r) \cup S(r)
             /\ Before(rs, r) \cap S(r) = {}
             /\ \A k \in Before(rs, r) : \E q \in 1..m : q < r /\ \E i \in 1..L(q) : k = v(q, i)
  <2>1. r \in 1..(m + 1) /\ r + 1 \in 1..(m + 1) /\ r + 1 - 1 = r /\ 1..r = (1..(r - 1)) \cup {r}
    BY <1>1
  <2> HIDE DEF S, v, L
  <2>2. Before(rs, r + 1) = UNION {S(j) : j \in 1..r} /\ Before(rs, r) = UNION {S(j) : j \in 1..(r - 1)}
    BY <1>3, <2>1
  <2>3. Before(rs, r + 1) = Before(rs, r) \cup S(r)
    BY <2>1, <2>2
  <2>4. \A k \in Before(rs, r) : \E q \in 1..m : q < r /\ \E i \in 1..L(q) : k = v(q, i)
    <3> TAKE k \in Before(rs, r)
    <3>1. PICK q \in 1..(r - 1) : k \in S(q)
      BY <2>2
    <3>2. q \in 1..m /\ q < r
      BY <1>1
    <3>3. \E i \in 1..L(q) : k = v(q, i)
      <4>1. S(q) = {v(q, i) : i \in 1..L(q)}
        BY <1>2, <3>2
      <4> QED BY <3>1, <4>1
    <3> QED BY <3>2, <3>3
  <2>5. Before(rs, r) \cap S(r) = {}
    <3> SUFFICES ASSUME NEW k \in Before(rs, r), k \in S(r) PROVE FALSE
      OBVIOUS
    <3>1. PICK q \in 1..m : q < r /\ \E i \in 1..L(q) : k = v(q, i)
      BY <2>4
    <3>4. PICK i \in 1..L(q) : k = v(q, i)
      BY <3>1
    <3>2. PICK j \in 1..L(r) : k = v(r, j)
      <4>1. S(r) = {v(r, j) : j \in 1..L(r)}
        BY <1>2
      <4> QED BY <4>1
    <3>3. q = r
      <4>1. v(q, i) = v(r, j)
        BY <3>2, <3>4
      <4> QED BY <1>1, <4>1
    <3> QED BY <1>1, <3>1, <3>3
  <2> QED BY <2>3, <2>4, <2>5
<1>8. ASSUME NEW r \in 1..m, NEW i \in 1..L(r)
      PROVE  /\ v(r, i) \in D \ Taken(rs, r, i)
             /\ Taken(rs, r, i + 1) = Taken(rs, r, i) \cup {v(r, i)}
             /\ Taken(rs, r, i + 1) \subseteq Before(rs, r + 1)
  <2>1. /\ L(r) \in Nat /\ i \in Nat /\ i + 1 - 1 = i /\ 1..i = (1..(i - 1)) \cup {i}
        /\ \A j \in 1..i : j \in 1..L(r)
        /\ \A j \in 1..(i - 1) : j \in 1..L(r) /\ j # i
    BY <1>1
  <2>2. /\ Taken(rs, r, i) = Before(rs, r) \cup {v(r, j) : j \in 1..(i - 1)}
        /\ Taken(rs, r, i + 1) = Before(rs, r) \cup {v(r, j) : j \in 1..i}
    BY <1>1, <2>1 DEF Taken
  <2> HIDE DEF v, S, L
  <2>3. Taken(rs, r, i + 1) = Taken(rs, r, i) \cup {v(r, i)}
    BY <2>1, <2>2
  <2>4. v(r, i) \notin {v(r, j) : j \in 1..(i - 1)}
    BY <1>1, <2>1
  <2>5. v(r, i) \in S(r)
    BY <1>2
  <2>6. v(r, i) \notin Before(rs, r) /\ v(r, i) \in D
    BY <1>1, <1>7, <2>5
  <2>7. Taken(rs, r, i + 1) \subseteq Before(rs, r + 1)
    <3>1. {v(r, j) : j \in 1..i} \subseteq S(r)
      <4>1. S(r) = {v(r, j) : j \in 1..L(r)}
        BY <1>2
      <4> QED BY <2>1, <4>1
    <3> QED BY <1>7, <2>2, <3>1
  <2> QED BY <2>2, <2>3, <2>4, <2>6, <2>7
<1>9. ASSUME NEW r \in 1..m
      PROVE  Taken(rs, r, L(r) + 1) = Before(rs, r) \cup S(r) /\ (~Multi(rs[r]) => S(r) = {v(r, 1)})
  <2>1. L(r) + 1 - 1 = L(r) /\ L(r) \in Nat \ {0}
    BY <1>1
  <2>2. Taken(rs, r, L(r) + 1) = Before(rs, r) \cup {v(r, j) : j \in 1..L(r)}
    BY <1>1, <2>1 DEF Taken
  <2>3. ASSUME ~Multi(rs[r]) PROVE S(r) = {v(r, 1)}
    <3>1. L(r) = 1
      <4>1. ~(L(r) > 1)
        BY <2>3 DEF Multi
      <4>2. L(r) \in Nat \ {0}
        BY <2>1
      <4> HIDE DEF L
      <4> QED BY <4>1, <4>2
    <3>2. 1..1 = {1}
      OBVIOUS
    <3>3. S(r) = {v(r, j) : j \in 1..L(r)}
      BY <1>2
    <3> HIDE DEF L, S, v
    <3> QED BY <3>1, <3>2, <3>3
  <2> QED BY <1>2, <2>2, <2>3
<1>10. 1 \in 1..(m + 1)
  BY <1>1
<1> HIDE DEF m, S, L, v
<1> QED BY <1>2, <1>4, <1>5, <1>6, <1>7, <1>8, <1>9, <1>10 DEF m, S, L, v

\* What the ledger holds at most while a range of the load is brought in.
RangePeak(ts, rs, r) ==
    Settled(ts, Before(rs, r)) +
    (IF Multi(rs[r]) THEN rs[r].length + Settled(ts, ToSet(rs[r].tensors))
     ELSE LoadCharge(ts[rs[r].tensors[1]]))

\* The peaks of the ranges up to n, and none.
PeakTo(ts, rs, n) == Max(ReachedTo(0, [r \in DOMAIN rs |-> RangePeak(ts, rs, r)], n))

(* The peak of a load, range by range, and what the ledger holds in between.*)
LEMMA PeaksRise ==
    ASSUME NEW ts, NEW rs, Partition(ts, rs)
    PROVE  /\ PeakTo(ts, rs, 0) = 0
           /\ \A k \in 0..Len(rs) : PeakTo(ts, rs, k) \in Nat /\ PeakTo(ts, rs, k) <= PeakTo(ts, rs, Len(rs))
           /\ \A r \in 1..Len(rs) :
                 /\ RangePeak(ts, rs, r) \in Nat
                 /\ RangePeak(ts, rs, r) <= PeakTo(ts, rs, Len(rs))
                 /\ PeakTo(ts, rs, r) = Larger(PeakTo(ts, rs, r - 1), RangePeak(ts, rs, r))
                 /\ Settled(ts, Before(rs, r)) \in Nat
                 /\ Settled(ts, Before(rs, r + 1)) \in Nat
                 /\ Settled(ts, Before(rs, r + 1)) <= RangePeak(ts, rs, r)
                 /\ Multi(rs[r]) => RangePeak(ts, rs, r) = Settled(ts, Before(rs, r + 1)) + rs[r].length
<1> DEFINE m == Len(rs)
           f == [r \in DOMAIN rs |-> RangePeak(ts, rs, r)]
           B(r) == Before(rs, r)
           S(r) == ToSet(rs[r].tensors)
<1>1. /\ Layout(ts) /\ m \in Nat /\ DOMAIN rs = 1..m
      /\ \A r \in 1..m : /\ Multi(rs[r]) => rs[r].length \in Nat
                         /\ Len(rs[r].tensors) \in Nat \ {0}
                         /\ \A i \in 1..Len(rs[r].tensors) : rs[r].tensors[i] \in DOMAIN ts
  BY DEF Partition
<1>2. ASSUME NEW r \in 1..m
      PROVE  /\ RangePeak(ts, rs, r) \in Nat
             /\ Settled(ts, B(r)) \in Nat
             /\ Settled(ts, B(r + 1)) \in Nat
             /\ Settled(ts, B(r + 1)) <= RangePeak(ts, rs, r)
             /\ Multi(rs[r]) => RangePeak(ts, rs, r) = Settled(ts, B(r + 1)) + rs[r].length
  <2>1. r \in 1..(m + 1) /\ r + 1 \in 1..(m + 1)
    BY <1>1
  <2>2. /\ B(r) \in SUBSET DOMAIN ts /\ B(r + 1) \in SUBSET DOMAIN ts /\ S(r) \in SUBSET DOMAIN ts
        /\ B(r + 1) = B(r) \cup S(r) /\ B(r) \cap S(r) = {}
        /\ ~Multi(rs[r]) => S(r) = {rs[r].tensors[1]}
    BY <2>1, TakenInOrder
  <2> HIDE DEF B, S
  <2>3. Settled(ts, B(r)) \in Nat /\ Settled(ts, B(r + 1)) \in Nat /\ Settled(ts, S(r)) \in Nat
    <3>1. \A U \in SUBSET DOMAIN ts : Settled(ts, U) \in Nat
      BY <1>1, SettledFacts
    <3> QED BY <2>2, <3>1
  <2>4. Settled(ts, B(r + 1)) = Settled(ts, B(r)) + Settled(ts, S(r))
    <3>1. \A U, V \in SUBSET DOMAIN ts : U \cap V = {} =>
             Settled(ts, U \cup V) = Settled(ts, U) + Settled(ts, V)
      BY <1>1, SettledFacts
    <3> QED BY <2>2, <3>1
  <2>5. RangePeak(ts, rs, r) = Settled(ts, B(r)) + (IF Multi(rs[r]) THEN rs[r].length + Settled(ts, S(r))
                                                   ELSE LoadCharge(ts[rs[r].tensors[1]]))
    BY DEF RangePeak, B, S
  <2>6. CASE Multi(rs[r])
    <3>1. rs[r].length \in Nat
      BY <1>1, <2>6
    <3> QED BY <2>3, <2>4, <2>5, <2>6, <3>1
  <2>7. CASE ~Multi(rs[r])
    <3> DEFINE k == rs[r].tensors[1]
    <3>1. k \in DOMAIN ts
      <4>1. 1 \in 1..Len(rs[r].tensors)
        BY <1>1
      <4> QED BY <1>1, <4>1
    <3>2. /\ LoadCharge(ts[k]) \in Nat /\ ResidentCharge(ts[k]) \in Nat
          /\ ResidentCharge(ts[k]) <= LoadCharge(ts[k])
      BY <1>1, <3>1, LayoutTyped
    <3>3. S(r) = {k}
      BY <2>2, <2>7
    <3> HIDE DEF k
    <3>4. Settled(ts, B(r + 1)) = Settled(ts, B(r)) + ResidentCharge(ts[k])
      <4>1. k \in DOMAIN ts \ B(r) /\ B(r + 1) = B(r) \cup {k}
        BY <2>2, <3>1, <3>3
      <4> QED BY <1>1, <2>2, <4>1, SettledFacts
    <3>5. RangePeak(ts, rs, r) = Settled(ts, B(r)) + LoadCharge(ts[k])
      BY <2>5, <2>7 DEF k
    <3> QED BY <2>3, <2>7, <3>2, <3>4, <3>5
  <2> QED BY <2>6, <2>7
<1>3. \A r \in 1..m : f[r] = RangePeak(ts, rs, r) /\ f[r] \in Nat
  BY <1>1, <1>2
<1>4. \A n \in 0..m : PeakTo(ts, rs, n) = Max(ReachedTo(0, f, n))
  BY DEF PeakTo
<1> HIDE DEF f
<1>5. /\ \A k \in 0..m : Max(ReachedTo(0, f, k)) \in Nat /\ Max(ReachedTo(0, f, k)) <= Max(ReachedTo(0, f, m))
      /\ Max(ReachedTo(0, f, 0)) = 0
      /\ \A k \in 1..m : /\ Max(ReachedTo(0, f, k)) = Larger(Max(ReachedTo(0, f, k - 1)), f[k])
                         /\ f[k] <= Max(ReachedTo(0, f, m))
  <2>1. 0 \in Nat /\ m \in Nat /\ \A r \in 1..m : f[r] \in Nat
    BY <1>1, <1>3
  <2> HIDE DEF m
  <2> QED BY <2>1, GreatestReached
<1>6. 0 \in 0..m /\ m \in 0..m /\ \A r \in 1..m : r \in 0..m /\ r - 1 \in 0..m
  BY <1>1
<1>7. /\ PeakTo(ts, rs, 0) = 0
      /\ \A k \in 0..m : PeakTo(ts, rs, k) \in Nat /\ PeakTo(ts, rs, k) <= PeakTo(ts, rs, m)
  BY <1>4, <1>5, <1>6
<1>8. ASSUME NEW r \in 1..m
      PROVE  /\ RangePeak(ts, rs, r) <= PeakTo(ts, rs, m)
             /\ PeakTo(ts, rs, r) = Larger(PeakTo(ts, rs, r - 1), RangePeak(ts, rs, r))
  BY <1>3, <1>4, <1>5, <1>6
<1> QED BY <1>2, <1>7, <1>8

(* The estimates are the resident sizes and the peaks of the whole load.   *)
LEMMA EstimatesArePeaks ==
    ASSUME NEW ts, Layout(ts), ~Overlapping(ts)
    PROVE  LET plan_ == BuildLayerReadPlan(ts)
               e == EstimateGroupedLayerMemory(ts, plan_)
               i == EstimateLayerMemory(ts)
               singles == SingleRanges(ts)
           IN  /\ e.resident = Settled(ts, DOMAIN ts) /\ e.load_peak = PeakTo(ts, plan_, Len(plan_))
               /\ i.resident = Settled(ts, DOMAIN ts) /\ i.load_peak = PeakTo(ts, singles, Len(singles))
<1> DEFINE plan_ == BuildLayerReadPlan(ts)
           singles == SingleRanges(ts)
           e == EstimateGroupedLayerMemory(ts, plan_)
           i == EstimateLayerMemory(ts)
<1>1. Partition(ts, plan_)
  BY PlanPartition
<1>2. DOMAIN plan_ = 1..Len(plan_)
  BY <1>1 DEF Partition
<1> HIDE DEF plan_
<1>3. e.resident = Settled(ts, DOMAIN ts) /\ e.load_peak = PeakTo(ts, plan_, Len(plan_))
  <2>1. e = [resident |-> Settled(ts, DOMAIN ts),
             load_peak |-> Max({0} \cup {RangePeak(ts, plan_, r) : r \in DOMAIN plan_})]
    BY DEF EstimateGroupedLayerMemory, RangePeak
  <2> DEFINE g == [r \in DOMAIN plan_ |-> RangePeak(ts, plan_, r)]
  <2>2. \A r \in DOMAIN plan_ : g[r] = RangePeak(ts, plan_, r)
    OBVIOUS
  <2>3. PeakTo(ts, plan_, Len(plan_)) = Max({0} \cup {g[r] : r \in DOMAIN plan_})
    BY <1>2 DEF PeakTo, ReachedTo
  <2> HIDE DEF g
  <2>4. {g[r] : r \in DOMAIN plan_} = {RangePeak(ts, plan_, r) : r \in DOMAIN plan_}
    BY <2>2
  <2> HIDE DEF e
  <2> QED BY <2>1, <2>3, <2>4
<1>4. i.resident = Settled(ts, DOMAIN ts) /\ i.load_peak = PeakTo(ts, singles, Len(singles))
  <2>1. /\ Partition(ts, singles) /\ Len(singles) = Len(ts)
        /\ \A k \in DOMAIN ts : /\ ~Multi(singles[k]) /\ singles[k].tensors[1] = k
                                /\ Before(singles, k) = 1..(k - 1)
    BY SinglesPartition
  <2>2. DOMAIN ts = 1..Len(ts) /\ DOMAIN singles = 1..Len(singles)
    BY <2>1, LayoutTyped DEF Partition
  <2> HIDE DEF singles
  <2>3. \A k \in DOMAIN ts : RangePeak(ts, singles, k) = Settled(ts, 1..(k - 1)) + LoadCharge(ts[k])
    BY <2>1 DEF RangePeak
  <2> DEFINE g == [r \in DOMAIN singles |-> RangePeak(ts, singles, r)]
  <2>4. \A k \in DOMAIN ts : g[k] = Settled(ts, 1..(k - 1)) + LoadCharge(ts[k])
    BY <2>1, <2>2, <2>3
  <2>5. PeakTo(ts, singles, Len(singles)) = Max({0} \cup {g[k] : k \in DOMAIN ts})
    BY <2>1, <2>2 DEF PeakTo, ReachedTo
  <2> HIDE DEF g
  <2>6. {g[k] : k \in DOMAIN ts} = {Settled(ts, 1..(k - 1)) + LoadCharge(ts[k]) : k \in DOMAIN ts}
    BY <2>4
  <2> QED BY <2>5, <2>6 DEF EstimateLayerMemory
<1> QED BY <1>3, <1>4 DEF plan_

(* The reusable buffer is as long as the longest range.                    *)
LEMMA BufferTyped ==
    ASSUME NEW ts, Layout(ts), ~Overlapping(ts)
    PROVE  LET plan_ == BuildLayerReadPlan(ts)
               bytes == ReusableGroupBufferBytes(plan_)
           IN  bytes \in Nat /\ (bytes # 0 => \A r \in DOMAIN plan_ : Multi(plan_[r]))
<1> DEFINE plan_ == BuildLayerReadPlan(ts)
           bytes == ReusableGroupBufferBytes(plan_)
           m == Len(plan_)
<1>1. Partition(ts, plan_)
  BY PlanPartition
<1> HIDE DEF plan_
<1>2. m \in Nat /\ DOMAIN plan_ = 1..m /\ \A r \in 1..m : Multi(plan_[r]) => plan_[r].length \in Nat
  BY <1>1 DEF Partition
<1>3. ASSUME m > 1 /\ \A r \in DOMAIN plan_ : Multi(plan_[r])
      PROVE  bytes \in Nat /\ (bytes # 0 => \A r \in DOMAIN plan_ : Multi(plan_[r]))
  <2> DEFINE f == [r \in 1..m |-> plan_[r].length]
  <2>1. bytes = Max({plan_[r].length : r \in 1..m})
    BY <1>2, <1>3 DEF ReusableGroupBufferBytes
  <2>2. \A r \in 1..m : f[r] = plan_[r].length /\ f[r] \in Nat
    BY <1>2, <1>3
  <2>3. 1 \in 1..m
    BY <1>2, <1>3
  <2> HIDE DEF f
  <2>4. {plan_[r].length : r \in 1..m} = ReachedTo(f[1], f, m)
    BY <2>2, <2>3 DEF ReachedTo
  <2>5. Max(ReachedTo(f[1], f, m)) \in Nat
    <3>1. f[1] \in Nat /\ m \in 0..m
      BY <1>2, <2>2, <2>3
    <3> HIDE DEF m
    <3> QED BY <1>2, <2>2, <3>1, GreatestReached
  <2> HIDE DEF bytes
  <2>6. bytes \in Nat
    BY <2>1, <2>4, <2>5
  <2> QED BY <1>3, <2>6
<1>4. ASSUME ~(m > 1 /\ \A r \in DOMAIN plan_ : Multi(plan_[r]))
      PROVE  bytes \in Nat /\ (bytes # 0 => \A r \in DOMAIN plan_ : Multi(plan_[r]))
  <2>1. bytes = 0
    BY <1>4 DEF ReusableGroupBufferBytes
  <2> HIDE DEF bytes
  <2> QED BY <2>1
<1>5. bytes \in Nat /\ (bytes # 0 => \A r \in DOMAIN plan_ : Multi(plan_[r]))
  <2> HIDE DEF bytes
  <2> QED BY <1>3, <1>4
<1> QED BY <1>5 DEF plan_

\* A load in mode m of the ranges rs, from a ledger s that charges nothing;
\* p is the peak of a load through one reusable buffer.
Loads(ts, rs, m, s, p) ==
    /\ Partition(ts, rs)
    /\ LedgerOK(s) /\ s.used = 0 /\ s.peak_used = 0 /\ s.allocations = [n \in Names |-> 0]
    /\ m \in {"individual", "grouped", "reusable"}
    /\ m = "individual" => \A r \in 1..Len(rs) : ~Multi(rs[r])
    /\ m = "grouped" => PeakTo(ts, rs, Len(rs)) <= s.total
    /\ m = "reusable" => /\ \A r \in 1..Len(rs) : Multi(rs[r])
                         /\ p \in Nat /\ Settled(ts, DOMAIN ts) < p /\ p <= s.total

\* The places a load passes.
Place(rs, m, range, item) ==
    /\ range \in 1..(Len(rs) + 1) /\ item \in Nat \ {0}
    /\ range \in 1..Len(rs) =>
          /\ item <= Len(rs[range].tensors) + 1
          /\ item # 1 => \/ m = "reusable" /\ item <= Len(rs[range].tensors)
                         \/ m = "grouped" /\ Multi(rs[range])
    /\ range \notin 1..Len(rs) /\ item # 1 => m = "reusable" /\ item = 2

\* What the ledger's peak is at a place.
PeakThere(ts, rs, m, b, range, item, p) ==
    /\ m = "reusable" => b.peak_used = IF range \notin 1..Len(rs) /\ item = 2 THEN p ELSE b.used
    /\ m # "reusable" => /\ b.peak_used = Larger(PeakTo(ts, rs, range - 1), b.used)
                         /\ item = 1 => b.used <= PeakTo(ts, rs, range - 1)

\* What the ledger holds at a place.
Holding(ts, rs, m, s, b, range, item, p) ==
    /\ Place(rs, m, range, item)
    /\ LedgerHolds(b, ts, Taken(rs, range, item)) /\ b.total = s.total
    /\ PeakThere(ts, rs, m, b, range, item, p)

\* What the load in progress is made of has its type.
LEMMA LoadsTyped ==
    ASSUME NEW ts, NEW rs, NEW m, NEW s, NEW p, Loads(ts, rs, m, s, p)
    PROVE  /\ Partition(ts, rs) /\ Layout(ts) /\ Len(rs) \in Nat /\ DOMAIN rs = 1..Len(rs)
           /\ s.total \in Nat /\ Len(rs) + 1 \in 1..(Len(rs) + 1)
           /\ \A r \in 1..Len(rs) : /\ Len(rs[r].tensors) \in Nat \ {0} /\ r \in 1..(Len(rs) + 1)
                                    /\ r + 1 \in 1..(Len(rs) + 1) /\ r + 1 - 1 = r
                                    /\ Multi(rs[r]) => rs[r].length \in Nat
                                    /\ ~Multi(rs[r]) => Len(rs[r].tensors) = 1
<1>1. Partition(ts, rs) /\ s.total \in Nat
  BY LedgerParts DEF Loads
<1>2. /\ Layout(ts) /\ Len(rs) \in Nat /\ DOMAIN rs = 1..Len(rs)
      /\ \A r \in 1..Len(rs) : Len(rs[r].tensors) \in Nat \ {0} /\ (Multi(rs[r]) => rs[r].length \in Nat)
  BY <1>1 DEF Partition
<1>3. \A r \in 1..Len(rs) : ~Multi(rs[r]) => Len(rs[r].tensors) = 1
  <2> SUFFICES ASSUME NEW r \in 1..Len(rs), ~(Len(rs[r].tensors) > 1) PROVE Len(rs[r].tensors) = 1
    BY DEF Multi
  <2> DEFINE l == Len(rs[r].tensors)
  <2>1. l \in Nat \ {0} /\ ~(l > 1)
    BY <1>2
  <2> HIDE DEF l
  <2>2. l = 1
    BY <2>1
  <2> QED BY <2>2 DEF l
<1>4. Len(rs) + 1 \in 1..(Len(rs) + 1)
  BY <1>2
<1>5. \A r \in 1..Len(rs) : r \in 1..(Len(rs) + 1) /\ r + 1 \in 1..(Len(rs) + 1) /\ r + 1 - 1 = r
  BY <1>2
<1> QED BY <1>1, <1>2, <1>3, <1>4, <1>5

(* A load starts with nothing charged.                                     *)
LEMMA HoldsNothing ==
    ASSUME NEW ts, NEW rs, NEW m, NEW s, NEW p, Loads(ts, rs, m, s, p)
    PROVE  Holding(ts, rs, m, s, s, 1, 1, p)
<1>1. /\ Partition(ts, rs) /\ Layout(ts) /\ Len(rs) \in Nat
      /\ LedgerOK(s) /\ s.used = 0 /\ s.peak_used = 0 /\ s.allocations = [n \in Names |-> 0]
  BY LoadsTyped DEF Loads
<1>2. Place(rs, m, 1, 1)
  <2>1. \A r \in 1..Len(rs) : Len(rs[r].tensors) \in Nat \ {0}
    BY LoadsTyped
  <2> QED BY <1>1, <2>1 DEF Place
<1>3. Taken(rs, 1, 1) = {}
  BY <1>1, TakenInOrder
<1>4. LedgerHolds(s, ts, {})
  <2>1. Settled(ts, {}) = 0
    BY <1>1, SettledFacts
  <2>2. ChargesOf(ts, {}) = [n \in Names |-> 0]
    BY DEF ChargesOf
  <2> QED BY <1>1, <2>1, <2>2 DEF LedgerHolds
<1>5. PeakThere(ts, rs, m, s, 1, 1, p)
  <2>1. PeakTo(ts, rs, 0) = 0
    BY <1>1, PeaksRise
  <2>2. Larger(0, 0) = 0
    BY DEF Larger
  <2> QED BY <1>1, <2>1, <2>2 DEF PeakThere
<1> QED BY <1>2, <1>3, <1>4, <1>5 DEF Holding

(* A tensor is loaded on its own.                                          *)
LEMMA LoadedAlone ==
    ASSUME NEW ts, NEW rs, NEW m, NEW s, NEW b, NEW r, NEW p,
           Loads(ts, rs, m, s, p), Holding(ts, rs, m, s, b, r, 1, p),
           r \in 1..Len(rs), ~Multi(rs[r]), m # "reusable"
    PROVE  LET k == rs[r].tensors[1]
               n == TensorName(k)
               c == Allocated(b, n, LoadCharge(ts[k]))
               d == Resized(c, n, ResidentCharge(ts[k]))
           IN  /\ AllocateResult(b, n, LoadCharge(ts[k])) # "Ok" =>
                     m = "individual" /\ ~(PeakTo(ts, rs, Len(rs)) <= s.total)
               /\ AllocateResult(b, n, LoadCharge(ts[k])) = "Ok" =>
                     /\ LedgerOK(c) /\ \A x \in Names : x[1] # Active(Layer) => c.allocations[x] = 0
                     /\ ResizeResult(c, n, ResidentCharge(ts[k])) = "Ok"
                     /\ Holding(ts, rs, m, s, d, r + 1, 1, p)
                     /\ ResidentCharge(ts[k]) = LoadCharge(ts[k]) => Holding(ts, rs, m, s, c, r + 1, 1, p)
<1> DEFINE k == rs[r].tensors[1]
           n == TensorName(k)
           x == LoadCharge(ts[k])
           y == ResidentCharge(ts[k])
           c == Allocated(b, n, x)
           d == Resized(c, n, y)
           S == Before(rs, r)
           top == PeakTo(ts, rs, r - 1)
           all == PeakTo(ts, rs, Len(rs))
<1>1. /\ Partition(ts, rs) /\ Layout(ts) /\ Len(rs) \in Nat /\ s.total \in Nat /\ Len(rs[r].tensors) = 1
      /\ r + 1 \in 1..(Len(rs) + 1) /\ r + 1 - 1 = r /\ r \in 1..(Len(rs) + 1)
  BY LoadsTyped
<1>2. /\ k \in DOMAIN ts \ S /\ Before(rs, r + 1) = S \cup {k}
      /\ Taken(rs, r, 1) = S /\ Taken(rs, r + 1, 1) = S \cup {k}
  <2>1. Taken(rs, r, 1) = Before(rs, r) /\ Taken(rs, r + 1, 1) = Before(rs, r + 1)
    BY <1>1, TakenInOrder
  <2>2. /\ Before(rs, r + 1) = Before(rs, r) \cup ToSet(rs[r].tensors)
        /\ ToSet(rs[r].tensors) = {rs[r].tensors[1]}
    BY <1>1, TakenInOrder
  <2>3. 1 \in 1..Len(rs[r].tensors)
    BY <1>1
  <2>4. rs[r].tensors[1] \in DOMAIN ts \ Taken(rs, r, 1)
    BY <1>1, <2>3, TakenInOrder
  <2> QED BY <2>1, <2>2, <2>4
<1>3. /\ x \in Nat \ {0} /\ y \in Nat \ {0} /\ y <= x
  BY <1>1, <1>2, LayoutTyped
<1>4. LedgerHolds(b, ts, S) /\ b.total = s.total /\ b.peak_used = Larger(top, b.used) /\ b.used <= top
  BY <1>2 DEF Holding, PeakThere
<1>5. /\ RangePeak(ts, rs, r) = Settled(ts, S) + x /\ RangePeak(ts, rs, r) \in Nat
      /\ RangePeak(ts, rs, r) <= all /\ all \in Nat /\ top \in Nat
      /\ PeakTo(ts, rs, r) = Larger(top, RangePeak(ts, rs, r))
      /\ Settled(ts, S) \in Nat
  <2>1. RangePeak(ts, rs, r) = Settled(ts, S) + x
    BY DEF RangePeak
  <2>2. r - 1 \in 0..Len(rs) /\ Len(rs) \in 0..Len(rs)
    BY <1>1
  <2>3. PeakTo(ts, rs, r - 1) \in Nat /\ PeakTo(ts, rs, Len(rs)) \in Nat
    BY <1>1, <2>2, PeaksRise
  <2> QED BY <1>1, <2>1, <2>3, PeaksRise
<1>6. LedgerOK(b) /\ b.used = Settled(ts, S) /\ b.used \in Nat /\ b.total \in Nat
  <2>1. LedgerOK(b) /\ b.used = Settled(ts, S)
    BY <1>4 DEF LedgerHolds
  <2> QED BY <2>1, LedgerParts
<1>7. AllocateResult(b, n, x) = "Ok" <=> b.used + x <= b.total
  <2>1. ToCharge(ts, S, b, k, x)
    BY <1>1, <1>2, <1>3, <1>4 DEF ToCharge
  <2>2. ChargedAs(ts, S, b, k, x)
    BY <2>1, ChargedResident
  <2> QED BY <2>2 DEF ChargedAs
<1> HIDE DEF k, n, x, y, c, d, S, top, all
<1>8. AllocateResult(b, n, x) # "Ok" => m = "individual" /\ ~(all <= s.total)
  <2> SUFFICES ASSUME AllocateResult(b, n, x) # "Ok" PROVE m = "individual" /\ ~(all <= s.total)
    OBVIOUS
  <2>1. ~(b.used + x <= b.total)
    BY <1>7
  <2>2. ~(all <= s.total)
    BY <1>1, <1>3, <1>4, <1>5, <1>6, <2>1
  <2>3. m \in {"individual", "grouped", "reusable"} /\ (m = "grouped" => all <= s.total)
    BY DEF Loads, all
  <2> QED BY <2>2, <2>3
<1>9. ASSUME AllocateResult(b, n, x) = "Ok"
      PROVE  /\ LedgerOK(c) /\ \A z \in Names : z[1] # Active(Layer) => c.allocations[z] = 0
             /\ ResizeResult(c, n, y) = "Ok"
             /\ Holding(ts, rs, m, s, d, r + 1, 1, p)
             /\ y = x => Holding(ts, rs, m, s, c, r + 1, 1, p)
  <2>1. /\ LedgerOK(c) /\ c.total = b.total /\ c.used = b.used + x
        /\ c.peak_used = Larger(b.peak_used, b.used + x)
        /\ c.allocations = [ChargesOf(ts, S) EXCEPT ![n] = x]
        /\ x = y => LedgerHolds(c, ts, S \cup {k})
    <3>1. ToCharge(ts, S, b, k, x)
      BY <1>1, <1>2, <1>3, <1>4 DEF ToCharge
    <3>2. ChargedAs(ts, S, b, k, x)
      BY <3>1, ChargedResident
    <3> QED BY <1>9, <3>2 DEF ChargedAs, n, c, y
  <2>2. \A z \in Names : z[1] # Active(Layer) => c.allocations[z] = 0
    <3> TAKE z \in Names
    <3>1. n[1] = Active(Layer)
      BY <1>1, <1>2, LoadNames DEF n
    <3>2. ChargesOf(ts, S) = [w \in Names |-> ChargesOf(ts, S)[w]]
      BY DEF ChargesOf
    <3>3. z[1] # Active(Layer) => ChargesOf(ts, S)[z] = 0
      BY DEF ChargesOf
    <3> QED BY <2>1, <3>1, <3>2, <3>3
  <2>3. /\ ResizeResult(c, n, y) = "Ok" /\ LedgerHolds(d, ts, S \cup {k}) /\ d.total = b.total
        /\ d.peak_used = Larger(b.peak_used, b.used + x)
    BY <1>1, <1>2, <1>4, <1>9, ChargedSettled DEF n, x, y, c, d
  <2>4. /\ Larger(b.peak_used, b.used + x) = PeakTo(ts, rs, r)
        /\ PeakTo(ts, rs, r) \in Nat /\ Settled(ts, S \cup {k}) \in Nat
        /\ Settled(ts, S \cup {k}) <= PeakTo(ts, rs, r)
    <3>1. Larger(b.peak_used, b.used + x) = PeakTo(ts, rs, r)
      BY <1>3, <1>4, <1>5, <1>6 DEF Larger
    <3>2. PeakTo(ts, rs, r) \in Nat /\ RangePeak(ts, rs, r) <= PeakTo(ts, rs, r)
      BY <1>5 DEF Larger
    <3>3. Settled(ts, S \cup {k}) \in Nat /\ Settled(ts, S \cup {k}) <= RangePeak(ts, rs, r)
      <4>1. Settled(ts, Before(rs, r + 1)) \in Nat /\ Settled(ts, Before(rs, r + 1)) <= RangePeak(ts, rs, r)
        BY <1>1, PeaksRise
      <4> QED BY <1>2, <4>1
    <3> QED BY <1>5, <3>1, <3>2, <3>3
  <2>5. ASSUME NEW e, LedgerHolds(e, ts, S \cup {k}), e.total = b.total, e.peak_used = PeakTo(ts, rs, r)
        PROVE  Holding(ts, rs, m, s, e, r + 1, 1, p)
    <3>1. Place(rs, m, r + 1, 1)
      <4>1. \A q \in 1..Len(rs) : Len(rs[q].tensors) \in Nat \ {0}
        BY LoadsTyped
      <4> QED BY <1>1, <4>1 DEF Place
    <3>2. e.used = Settled(ts, S \cup {k})
      BY <2>5 DEF LedgerHolds
    <3>3. PeakThere(ts, rs, m, e, r + 1, 1, p)
      <4>1. Larger(PeakTo(ts, rs, r), e.used) = PeakTo(ts, rs, r)
        BY <2>4, <3>2 DEF Larger
      <4> QED BY <1>1, <2>4, <2>5, <3>2, <4>1 DEF PeakThere
    <3> QED BY <1>2, <1>4, <2>5, <3>1, <3>3 DEF Holding
  <2>6. Holding(ts, rs, m, s, d, r + 1, 1, p)
    BY <2>3, <2>4, <2>5
  <2>7. y = x => Holding(ts, rs, m, s, c, r + 1, 1, p)
    BY <2>1, <2>4, <2>5
  <2> QED BY <2>1, <2>2, <2>3, <2>6, <2>7
<1> QED BY <1>8, <1>9 DEF k, n, x, y, c, d, all

(* The next resident charge of a range that is read as a whole.            *)
LEMMA ChargedNext ==
    ASSUME NEW ts, NEW rs, NEW m, NEW s, NEW b, NEW r, NEW i, NEW p,
           Loads(ts, rs, m, s, p), Holding(ts, rs, m, s, b, r, i, p),
           r \in 1..Len(rs), i <= Len(rs[r].tensors),
           m = "reusable" \/ (m = "grouped" /\ Multi(rs[r]))
    PROVE  LET k == rs[r].tensors[i]
               n == TensorName(k)
               y == ResidentCharge(ts[k])
               c == Allocated(b, n, y)
           IN  /\ AllocateResult(b, n, y) = "Ok"
               /\ m = "reusable" /\ i = Len(rs[r].tensors) => Holding(ts, rs, m, s, c, r + 1, 1, p)
               /\ ~(m = "reusable" /\ i = Len(rs[r].tensors)) => Holding(ts, rs, m, s, c, r, i + 1, p)
<1> DEFINE l == Len(rs[r].tensors)
           k == rs[r].tensors[i]
           n == TensorName(k)
           y == ResidentCharge(ts[k])
           c == Allocated(b, n, y)
           S == Taken(rs, r, i)
           U == Before(rs, r + 1)
           top == PeakTo(ts, rs, r - 1)
           all == PeakTo(ts, rs, Len(rs))
<1>1. /\ Partition(ts, rs) /\ Layout(ts) /\ Len(rs) \in Nat /\ s.total \in Nat /\ l \in Nat \ {0}
      /\ r + 1 \in 1..(Len(rs) + 1) /\ r + 1 - 1 = r /\ r \in 1..(Len(rs) + 1)
  BY LoadsTyped
<1>2. Place(rs, m, r, i) /\ i \in 1..l
  <2>1. Place(rs, m, r, i)
    BY DEF Holding
  <2>2. i \in Nat \ {0}
    BY <2>1 DEF Place
  <2> QED BY <1>1, <2>1, <2>2
<1>3. /\ k \in DOMAIN ts \ S /\ Taken(rs, r, i + 1) = S \cup {k} /\ S \cup {k} \subseteq U
      /\ U \subseteq DOMAIN ts /\ Taken(rs, r + 1, 1) = U /\ Taken(rs, r, l + 1) = U
  <2>1. U \subseteq DOMAIN ts /\ Taken(rs, r + 1, 1) = U
    BY <1>1, TakenInOrder
  <2>2. Taken(rs, r, l + 1) = U
    BY <1>1, TakenInOrder
  <2>3. /\ k \in DOMAIN ts \ S /\ Taken(rs, r, i + 1) = S \cup {k} /\ Taken(rs, r, i + 1) \subseteq U
    BY <1>1, <1>2, TakenInOrder
  <2> QED BY <2>1, <2>2, <2>3
<1>4. y \in Nat \ {0}
  BY <1>1, <1>3, LayoutTyped
<1>5. LedgerHolds(b, ts, S) /\ b.total = s.total
  BY DEF Holding
<1>6. LedgerOK(b) /\ b.used = Settled(ts, S) /\ b.used \in Nat /\ b.total \in Nat /\ b.peak_used \in Nat
      /\ S \subseteq DOMAIN ts
  <2>1. LedgerOK(b) /\ b.used = Settled(ts, S) /\ S \subseteq DOMAIN ts
    BY <1>5 DEF LedgerHolds
  <2> QED BY <2>1, LedgerParts
<1>7. /\ Settled(ts, S \cup {k}) = b.used + y
      /\ Settled(ts, S \cup {k}) <= Settled(ts, U)
      /\ Settled(ts, U) \in Nat /\ Settled(ts, DOMAIN ts) \in Nat
      /\ Settled(ts, U) <= Settled(ts, DOMAIN ts)
  <2> HIDE DEF k, S, U, y
  <2>1. S \cup {k} \in SUBSET DOMAIN ts /\ U \in SUBSET DOMAIN ts /\ DOMAIN ts \in SUBSET DOMAIN ts
    BY <1>3
  <2>2. Settled(ts, S \cup {k}) = Settled(ts, S) + ResidentCharge(ts[k])
    BY <1>1, <1>3, <1>6, SettledFacts
  <2>3. /\ Settled(ts, S \cup {k}) <= Settled(ts, U) /\ Settled(ts, U) <= Settled(ts, DOMAIN ts)
        /\ Settled(ts, U) \in Nat /\ Settled(ts, DOMAIN ts) \in Nat
    BY <1>1, <1>3, <2>1, SettledFacts
  <2> QED BY <1>6, <2>2, <2>3 DEF y
<1>8. /\ Settled(ts, U) <= RangePeak(ts, rs, r) /\ RangePeak(ts, rs, r) \in Nat
      /\ RangePeak(ts, rs, r) <= all /\ all \in Nat /\ top \in Nat
  <2>1. r - 1 \in 0..Len(rs) /\ Len(rs) \in 0..Len(rs)
    BY <1>1
  <2>2. PeakTo(ts, rs, r - 1) \in Nat /\ PeakTo(ts, rs, Len(rs)) \in Nat
    BY <1>1, <2>1, PeaksRise
  <2> QED BY <1>1, <2>2, PeaksRise
<1> HIDE DEF k, n, y, c, S, U, top, all, l
<1>9. b.used + y <= b.total
  <2>1. CASE m = "reusable"
    <3>1. p \in Nat /\ Settled(ts, DOMAIN ts) < p /\ p <= s.total
      BY <2>1 DEF Loads
    <3> QED BY <1>4, <1>5, <1>6, <1>7, <3>1
  <2>2. CASE m = "grouped"
    <3>1. all <= s.total
      BY <2>2 DEF Loads, all
    <3> QED BY <1>4, <1>5, <1>6, <1>7, <1>8, <3>1
  <2> QED BY <2>1, <2>2
<1>10. ChargedAs(ts, S, b, k, y)
  <2>1. ToCharge(ts, S, b, k, y)
    BY <1>1, <1>3, <1>4, <1>5 DEF ToCharge
  <2> QED BY <2>1, ChargedResident
<1>11. /\ AllocateResult(b, n, y) = "Ok"
       /\ LedgerHolds(c, ts, S \cup {k}) /\ c.total = s.total /\ c.used = b.used + y
       /\ c.peak_used = Larger(b.peak_used, b.used + y)
  <2>1. AllocateResult(b, n, y) = "Ok"
    BY <1>9, <1>10 DEF ChargedAs, n
  <2> QED BY <1>5, <1>10, <2>1 DEF ChargedAs, n, c, y
<1>12. ASSUME m = "reusable" PROVE c.peak_used = c.used
  <2>1. b.peak_used = b.used
    BY <1>12 DEF Holding, PeakThere
  <2> QED BY <1>4, <1>6, <1>11, <2>1 DEF Larger
<1>13. ASSUME m # "reusable" PROVE c.peak_used = Larger(top, c.used)
  <2>1. b.peak_used = Larger(top, b.used)
    BY <1>13 DEF Holding, PeakThere, top
  <2> QED BY <1>4, <1>6, <1>8, <1>11, <2>1 DEF Larger
<1>14. ASSUME m = "reusable", i = l PROVE Holding(ts, rs, m, s, c, r + 1, 1, p)
  <2>1. S \cup {k} = Taken(rs, r + 1, 1)
    <3>1. Taken(rs, r, i + 1) = S \cup {k} /\ Taken(rs, r, i + 1) = U
      BY <1>3, <1>14
    <3> QED BY <1>3, <3>1
  <2>2. Place(rs, m, r + 1, 1)
    <3>1. \A q \in 1..Len(rs) : Len(rs[q].tensors) \in Nat \ {0}
      BY LoadsTyped
    <3> QED BY <1>1, <3>1 DEF Place
  <2>3. PeakThere(ts, rs, m, c, r + 1, 1, p)
    BY <1>12, <1>14 DEF PeakThere
  <2> QED BY <1>11, <2>1, <2>2, <2>3 DEF Holding
<1>15. ASSUME ~(m = "reusable" /\ i = l) PROVE Holding(ts, rs, m, s, c, r, i + 1, p)
  <2>0. i \in Nat \ {0} /\ i <= l /\ l \in Nat /\ i + 1 # 1 /\ i + 1 <= l + 1 /\ (i # l => i + 1 <= l)
    BY <1>1, <1>2
  <2>1. Place(rs, m, r, i + 1)
    <3>1. m = "reusable" => i + 1 <= l
      BY <1>15, <2>0
    <3>2. i + 1 \in Nat \ {0}
      BY <2>0
    <3> QED BY <1>1, <2>0, <3>1, <3>2 DEF Place, l
  <2>2. PeakThere(ts, rs, m, c, r, i + 1, p)
    BY <1>12, <1>13, <2>0 DEF PeakThere, top
  <2> QED BY <1>3, <1>11, <2>1, <2>2 DEF Holding
<1> QED BY <1>11, <1>14, <1>15 DEF k, n, y, c, l

\* A ledger after a read through a buffer of some bytes.
AfterBuffer(b, bytes) == IF bytes = 0 THEN b ELSE Released(Allocated(b, TempName, bytes), TempName)
InsideBuffer(b, bytes) == IF bytes = 0 THEN b ELSE Allocated(b, TempName, bytes)

(* A range of more than one tensor is read once its charges are made.      *)
LEMMA RangeRead ==
    ASSUME NEW ts, NEW rs, NEW m, NEW s, NEW b, NEW r, NEW i, NEW p,
           Loads(ts, rs, m, s, p), Holding(ts, rs, m, s, b, r, i, p),
           r \in 1..Len(rs), m = "grouped", Multi(rs[r]), i > Len(rs[r].tensors)
    PROVE  LET x == rs[r].length
           IN  /\ ~(x # 0 /\ AllocateResult(b, TempName, x) # "Ok")
               /\ \A k \in ToSet(rs[r].tensors) :
                     InsideBuffer(b, x).allocations[TensorName(k)] = ResidentCharge(ts[k])
               /\ LedgerHolds(AfterBuffer(b, x), ts, Before(rs, r + 1))
               /\ Holding(ts, rs, m, s, AfterBuffer(b, x), r + 1, 1, p)
<1> DEFINE l == Len(rs[r].tensors)
           x == rs[r].length
           U == Before(rs, r + 1)
           top == PeakTo(ts, rs, r - 1)
           all == PeakTo(ts, rs, Len(rs))
           e == AfterBuffer(b, x)
<1>1. /\ Partition(ts, rs) /\ Layout(ts) /\ Len(rs) \in Nat /\ s.total \in Nat /\ l \in Nat \ {0}
      /\ r + 1 \in 1..(Len(rs) + 1) /\ r + 1 - 1 = r /\ r \in 1..(Len(rs) + 1) /\ x \in Nat
  BY LoadsTyped
<1>2. i = l + 1
  <2>1. i \in Nat /\ i <= l + 1
    BY DEF Holding, Place
  <2> QED BY <1>1, <2>1
<1>3. /\ Taken(rs, r, i) = U /\ Taken(rs, r + 1, 1) = U /\ ToSet(rs[r].tensors) \subseteq U
  <2>1. Taken(rs, r + 1, 1) = U
    BY <1>1, TakenInOrder
  <2>2. Taken(rs, r, l + 1) = U /\ U = Before(rs, r) \cup ToSet(rs[r].tensors)
    BY <1>1, TakenInOrder
  <2> QED BY <1>2, <2>1, <2>2
<1>4. LedgerHolds(b, ts, U) /\ b.total = s.total /\ b.peak_used = Larger(top, b.used)
  BY <1>3 DEF Holding, PeakThere
<1>5. LedgerOK(b) /\ b.used = Settled(ts, U) /\ b.used \in Nat /\ b.total \in Nat /\ b.peak_used \in Nat
      /\ U \subseteq DOMAIN ts /\ b.allocations = ChargesOf(ts, U)
  <2>1. LedgerOK(b) /\ b.used = Settled(ts, U) /\ U \subseteq DOMAIN ts /\ b.allocations = ChargesOf(ts, U)
    BY <1>4 DEF LedgerHolds
  <2> QED BY <2>1, LedgerParts
<1>6. /\ RangePeak(ts, rs, r) = Settled(ts, U) + x
      /\ RangePeak(ts, rs, r) <= all /\ all \in Nat /\ top \in Nat
      /\ PeakTo(ts, rs, r) = Larger(top, RangePeak(ts, rs, r))
  <2>1. r - 1 \in 0..Len(rs) /\ Len(rs) \in 0..Len(rs)
    BY <1>1
  <2>2. PeakTo(ts, rs, r - 1) \in Nat /\ PeakTo(ts, rs, Len(rs)) \in Nat
    BY <1>1, <2>1, PeaksRise
  <2> QED BY <1>1, <2>2, PeaksRise
<1>7. all <= s.total
  BY DEF Loads
<1> HIDE DEF x, U, top, all, l, e
<1>8. /\ x # 0 => AllocateResult(b, TempName, x) = "Ok"
      /\ \A k \in U : InsideBuffer(b, x).allocations[TensorName(k)] = ResidentCharge(ts[k])
      /\ LedgerHolds(e, ts, U) /\ e.total = s.total /\ e.used = b.used
      /\ e.peak_used = Larger(b.peak_used, b.used + x)
  <2>1. CASE x = 0
    <3>1. e = b /\ InsideBuffer(b, x) = b
      BY <2>1 DEF e, AfterBuffer, InsideBuffer
    <3>2. b.peak_used = Larger(b.peak_used, b.used + x)
      BY <1>4, <1>5, <1>6, <2>1 DEF Larger
    <3>3. \A k \in U : b.allocations[TensorName(k)] = ResidentCharge(ts[k])
      <4> TAKE k \in U
      <4>1. TensorName(k) \in Names /\ TensorName(k)[1] = Active(Layer) /\ TensorName(k)[2] = k
        BY <1>1, <1>5, LoadNames
      <4> QED BY <1>5, <4>1 DEF ChargesOf
    <3> QED BY <1>4, <2>1, <3>1, <3>2, <3>3
  <2>2. CASE x # 0
    <3>1. x \in Nat \ {0}
      BY <1>1, <2>2
    <3>2. b.used + x <= b.total
      BY <1>1, <1>4, <1>5, <1>6, <1>7
    <3>3. /\ AllocateResult(b, TempName, x) = "Ok"
          /\ LedgerHolds(Released(Allocated(b, TempName, x), TempName), ts, U)
          /\ Released(Allocated(b, TempName, x), TempName).total = b.total
          /\ Released(Allocated(b, TempName, x), TempName).peak_used = Larger(b.peak_used, b.used + x)
          /\ \A k \in U : Allocated(b, TempName, x).allocations[TensorName(k)] = ResidentCharge(ts[k])
      BY <1>1, <1>4, <3>1, <3>2, ChargedBuffer
    <3>4. e = Released(Allocated(b, TempName, x), TempName) /\ InsideBuffer(b, x) = Allocated(b, TempName, x)
      BY <2>2 DEF e, AfterBuffer, InsideBuffer
    <3>5. e.used = b.used
      <4>1. LedgerHolds(e, ts, U)
        BY <3>3, <3>4
      <4> QED BY <1>5, <4>1 DEF LedgerHolds
    <3> QED BY <1>4, <3>3, <3>4, <3>5
  <2> QED BY <2>1, <2>2
<1>9. e.peak_used = PeakTo(ts, rs, r) /\ e.used <= PeakTo(ts, rs, r) /\ e.used \in Nat /\ PeakTo(ts, rs, r) \in Nat
  <2>1. e.used \in Nat /\ e.used = b.used
    BY <1>5, <1>8
  <2> QED BY <1>1, <1>4, <1>5, <1>6, <1>8, <2>1 DEF Larger
<1>10. Place(rs, m, r + 1, 1)
  <2>1. \A q \in 1..Len(rs) : Len(rs[q].tensors) \in Nat \ {0}
    BY LoadsTyped
  <2> QED BY <1>1, <2>1 DEF Place
<1>11. PeakThere(ts, rs, m, e, r + 1, 1, p)
  <2>1. Larger(PeakTo(ts, rs, r), e.used) = PeakTo(ts, rs, r)
    BY <1>9 DEF Larger
  <2> QED BY <1>1, <1>9, <2>1 DEF PeakThere
<1>12. Holding(ts, rs, m, s, e, r + 1, 1, p)
  BY <1>3, <1>8, <1>10, <1>11 DEF Holding
<1> QED BY <1>3, <1>8, <1>12 DEF x, e, U

\* A load in the reusable mode that has charged every tensor.
AllCharged(ts, rs, m, s, b, p, x) ==
    /\ Loads(ts, rs, m, s, p) /\ Holding(ts, rs, m, s, b, Len(rs) + 1, 1, p)
    /\ m = "reusable" /\ x \in Nat \ {0} /\ p = x + Settled(ts, DOMAIN ts)

(* All the ranges are read through one buffer once every charge is made.   *)
LEMMA RangesReadReusing ==
    ASSUME NEW ts, NEW rs, NEW m, NEW s, NEW b, NEW p, NEW x, AllCharged(ts, rs, m, s, b, p, x)
    PROVE  /\ AllocateResult(b, TempName, x) = "Ok"
           /\ \A k \in DOMAIN ts : InsideBuffer(b, x).allocations[TensorName(k)] = ResidentCharge(ts[k])
           /\ LedgerHolds(AfterBuffer(b, x), ts, DOMAIN ts)
           /\ Holding(ts, rs, m, s, AfterBuffer(b, x), Len(rs) + 1, 2, p)
<1> DEFINE e == AfterBuffer(b, x)
           D == DOMAIN ts
<1> USE DEF AllCharged
<1>1. /\ Partition(ts, rs) /\ Layout(ts) /\ Len(rs) \in Nat /\ s.total \in Nat
      /\ Len(rs) + 1 \in 1..(Len(rs) + 1) /\ Len(rs) + 1 \notin 1..Len(rs)
  <2>1. Partition(ts, rs) /\ Layout(ts) /\ Len(rs) \in Nat /\ s.total \in Nat
    BY LoadsTyped
  <2> QED BY <2>1
<1>2. Taken(rs, Len(rs) + 1, 1) = D /\ Taken(rs, Len(rs) + 1, 2) = D
  <2>1. Partition(ts, rs) /\ Len(rs) + 1 \in 1..(Len(rs) + 1) /\ Len(rs) + 1 \notin 1..Len(rs)
    BY <1>1
  <2>2. Taken(rs, Len(rs) + 1, 1) = D
    BY <2>1, TakenInOrder
  <2>3. Taken(rs, Len(rs) + 1, 2) = D
    BY <2>1, TakenInOrder
  <2> QED BY <2>2, <2>3
<1>3. LedgerHolds(b, ts, D) /\ b.total = s.total /\ b.peak_used = b.used
  BY <1>1, <1>2 DEF Holding, PeakThere
<1>4. b.used = Settled(ts, D) /\ b.used \in Nat /\ b.total \in Nat
  <2>1. LedgerOK(b) /\ b.used = Settled(ts, D)
    BY <1>3 DEF LedgerHolds
  <2> QED BY <2>1, LedgerParts
<1>5. p \in Nat /\ p <= s.total
  BY DEF Loads
<1>6. b.used + x <= b.total
  BY <1>3, <1>4, <1>5
<1>7. /\ AllocateResult(b, TempName, x) = "Ok"
      /\ LedgerHolds(Released(Allocated(b, TempName, x), TempName), ts, D)
      /\ Released(Allocated(b, TempName, x), TempName).total = b.total
      /\ Released(Allocated(b, TempName, x), TempName).peak_used = Larger(b.peak_used, b.used + x)
      /\ \A k \in D : Allocated(b, TempName, x).allocations[TensorName(k)] = ResidentCharge(ts[k])
  BY <1>1, <1>3, <1>6, ChargedBuffer
<1>8. e = Released(Allocated(b, TempName, x), TempName) /\ InsideBuffer(b, x) = Allocated(b, TempName, x)
  BY DEF AfterBuffer, InsideBuffer
<1> HIDE DEF e, D
<1>9. e.peak_used = p
  BY <1>3, <1>4, <1>7, <1>8 DEF Larger, D
<1>10. Place(rs, m, Len(rs) + 1, 2)
  BY <1>1 DEF Place
<1>11. PeakThere(ts, rs, m, e, Len(rs) + 1, 2, p)
  BY <1>1, <1>9 DEF PeakThere
<1>12. Holding(ts, rs, m, s, e, Len(rs) + 1, 2, p)
  BY <1>2, <1>3, <1>7, <1>8, <1>10, <1>11 DEF Holding
<1> QED BY <1>7, <1>8, <1>12 DEF e, D

\* What the model of a load keeps from its start.
LoadKept ==
    /\ Layout(tensors) /\ ~Overlapping(tensors)
    /\ kept = [plan |-> BuildLayerReadPlan(tensors),
               individual |-> EstimateLayerMemory(tensors),
               grouped |-> EstimateGroupedLayerMemory(tensors, BuildLayerReadPlan(tensors)),
               buffer |-> ReusableGroupBufferBytes(BuildLayerReadPlan(tensors))]
    /\ LedgerOK(start) /\ start.used = 0 /\ start.peak_used = 0
    /\ start.allocations = [n \in Names |-> 0]

\* Where a load is: nothing has happened before its mode is chosen, what it
\* holds follows from its place while it goes on, and nothing is left of a
\* load that failed.
LoadThere ==
    /\ mode = "none" => at = [range |-> 1, item |-> 1] /\ budget = start /\ result = "none"
    /\ mode # "none" => Loads(tensors, Ranges, mode, start, ReusablePeak)
    /\ mode # "none" /\ result \in {"none", "Ok"} =>
          Holding(tensors, Ranges, mode, start, budget, at.range, at.item, ReusablePeak)
    /\ result \in {"none", "Ok", "Short", "Unread", "Invalid"}
    /\ result = "Ok" => ~InRange /\ (mode = "reusable" => at.item = 2)
    /\ result = "Short" => mode = "individual" /\ ~CanAllocate(start, Individual.load_peak)
    /\ result \notin {"none", "Ok"} => budget.used = 0 /\ budget.allocations = start.allocations

LoadInvariant == LoadKept /\ LoadThere

\* What was kept when the model was opened is what the layer's tensors give:
\* its plan, and the peaks and settled sizes estimated for the modes.
LEMMA KeptFacts ==
    ASSUME LoadKept
    PROVE  /\ ReadPlan = BuildLayerReadPlan(tensors)
           /\ Grouped.resident = Settled(tensors, DOMAIN tensors)
           /\ Grouped.load_peak = PeakTo(tensors, ReadPlan, Len(ReadPlan))
           /\ Individual.resident = Settled(tensors, DOMAIN tensors)
           /\ Individual.load_peak = PeakTo(tensors, SingleRanges(tensors), Len(SingleRanges(tensors)))
           /\ kept.buffer \in Nat /\ (kept.buffer # 0 => \A r \in DOMAIN ReadPlan : Multi(ReadPlan[r]))
           /\ ReusablePeak = kept.buffer + Settled(tensors, DOMAIN tensors)
           /\ Settled(tensors, DOMAIN tensors) \in Nat
           /\ Partition(tensors, ReadPlan) /\ Partition(tensors, SingleRanges(tensors))
<1>1. Layout(tensors) /\ ~Overlapping(tensors)
  BY DEF LoadKept
<1>2. /\ kept.plan = BuildLayerReadPlan(tensors) /\ kept.individual = EstimateLayerMemory(tensors)
      /\ kept.grouped = EstimateGroupedLayerMemory(tensors, BuildLayerReadPlan(tensors))
      /\ kept.buffer = ReusableGroupBufferBytes(BuildLayerReadPlan(tensors))
  BY DEF LoadKept
<1>3. ReadPlan = BuildLayerReadPlan(tensors)
  BY <1>2 DEF ReadPlan
<1>4. /\ Grouped.resident = Settled(tensors, DOMAIN tensors)
      /\ Grouped.load_peak = PeakTo(tensors, ReadPlan, Len(ReadPlan))
      /\ Individual.resident = Settled(tensors, DOMAIN tensors)
      /\ Individual.load_peak = PeakTo(tensors, SingleRanges(tensors), Len(SingleRanges(tensors)))
  BY <1>1, <1>2, <1>3, EstimatesArePeaks DEF Grouped, Individual
<1>5. kept.buffer \in Nat /\ (kept.buffer # 0 => \A r \in DOMAIN ReadPlan : Multi(ReadPlan[r]))
  BY <1>1, <1>2, <1>3, BufferTyped
<1>6. Settled(tensors, DOMAIN tensors) \in Nat
  BY <1>1, SettledFacts
<1>7. Partition(tensors, ReadPlan) /\ Partition(tensors, SingleRanges(tensors))
  BY <1>1, <1>3, PlanPartition, SinglesPartition
<1>8. ReusablePeak = kept.buffer + Settled(tensors, DOMAIN tensors)
  BY <1>4 DEF ReusablePeak
<1> QED BY <1>3, <1>4, <1>5, <1>6, <1>7, <1>8

(* The load starts with nothing charged and the read plan made.            *)
LEMMA LoadInvariantInit == LoadInit => LoadInvariant
<1> SUFFICES ASSUME LoadInit PROVE LoadInvariant
  OBVIOUS
<1> USE DEF LoadInit, LoadStart
<1>1. Layout(tensors) /\ ~Overlapping(tensors)
  BY LayoutsAssumption DEF Layout
<1>2. PICK total \in 1..MaxU64 : budget = NewLedger(total)
  OBVIOUS
<1>3. LedgerOK(start) /\ start.used = 0 /\ start.peak_used = 0 /\ start.allocations = [n \in Names |-> 0]
  <2>1. LedgerOK(NewLedger(total))
    BY NewLedgerOK
  <2> QED BY <1>2, <2>1 DEF NewLedger
<1>4. LoadKept
  BY <1>1, <1>3 DEF LoadKept
<1>5. LoadThere
  BY DEF LoadThere
<1> QED BY <1>4, <1>5 DEF LoadInvariant

(* A load that fails gives back every charge, whichever it holds.          *)
LEMMA FailsInvariant ==
    ASSUME LoadInvariant, NEW r \in {"Short", "Unread", "Invalid"}, NEW b, Fails(r, b), mode # "none",
           LedgerOK(b), \A n \in Names : n[1] # Active(Layer) => b.allocations[n] = 0,
           r = "Short" => mode = "individual" /\ ~CanAllocate(start, Individual.load_peak)
    PROVE  LoadInvariant'
<1>1. /\ result' = r /\ budget' = LayerReleased(b, Layer)
      /\ UNCHANGED <<tensors, kept, config, start, mode, at>>
  BY DEF Fails
<1>2. budget'.used = 0 /\ budget'.allocations = [n \in Names |-> 0]
  BY <1>1, LayerGivenBack
<1>3. LoadKept /\ LoadThere
  BY DEF LoadInvariant
<1>4. LoadKept'
  BY <1>1, <1>3 DEF LoadKept
<1>5. Ranges' = Ranges /\ ReusablePeak' = ReusablePeak /\ Individual' = Individual
  BY <1>1 DEF Ranges, ReusablePeak, Individual, ReadPlan, Grouped
<1>6. start.allocations = [n \in Names |-> 0]
  BY <1>3 DEF LoadKept
<1>7. LoadThere'
  <2>1. /\ (mode # "none" => Loads(tensors, Ranges, mode, start, ReusablePeak))'
    BY <1>1, <1>3, <1>5 DEF LoadThere
  <2>2. (result = "Short" => mode = "individual" /\ ~CanAllocate(start, Individual.load_peak))'
    BY <1>1, <1>5
  <2>3. result' \notin {"none", "Ok"} /\ mode' # "none" /\ result' \in {"none", "Ok", "Short", "Unread", "Invalid"}
    BY <1>1
  <2> QED BY <1>1, <1>2, <1>6, <2>1, <2>2, <2>3 DEF LoadThere
<1> QED BY <1>4, <1>7 DEF LoadInvariant

(* A load that goes on holds what its next place says.                     *)
LEMMA AdvancesInvariant ==
    ASSUME LoadInvariant, NEW r, NEW i, NEW b, Advances(r, i, b), Loading,
           Holding(tensors, Ranges, mode, start, b, r, i, ReusablePeak)
    PROVE  LoadInvariant'
<1>1. /\ at' = [range |-> r, item |-> i] /\ budget' = b
      /\ UNCHANGED <<tensors, kept, config, start, mode, result>>
  BY DEF Advances
<1>2. LoadKept /\ LoadThere /\ mode # "none" /\ result = "none"
  BY DEF LoadInvariant, Loading
<1>3. LoadKept'
  BY <1>1, <1>2 DEF LoadKept
<1>4. Ranges' = Ranges /\ ReusablePeak' = ReusablePeak
  BY <1>1 DEF Ranges, ReusablePeak, ReadPlan, Grouped
<1>5. at'.range = r /\ at'.item = i
  BY <1>1
<1>6. (Holding(tensors, Ranges, mode, start, budget, at.range, at.item, ReusablePeak))'
  BY <1>1, <1>4, <1>5
<1>7. (Loads(tensors, Ranges, mode, start, ReusablePeak))'
  BY <1>1, <1>2, <1>4 DEF LoadThere
<1>8. LoadThere'
  BY <1>1, <1>2, <1>6, <1>7 DEF LoadThere
<1> QED BY <1>3, <1>8 DEF LoadInvariant

\* The ledger a load goes on from.
LEMMA LoadingFacts ==
    ASSUME LoadInvariant, Loading
    PROVE  /\ LoadKept /\ Layout(tensors)
           /\ mode # "none" /\ mode \in {"individual", "grouped", "reusable"}
           /\ Loads(tensors, Ranges, mode, start, ReusablePeak)
           /\ Holding(tensors, Ranges, mode, start, budget, at.range, at.item, ReusablePeak)
           /\ Len(Ranges) \in Nat /\ DOMAIN Ranges = 1..Len(Ranges)
           /\ LedgerOK(budget) /\ \A n \in Names : n[1] # Active(Layer) => budget.allocations[n] = 0
<1>1. /\ LoadKept /\ LoadThere /\ mode # "none" /\ result = "none"
      /\ Loads(tensors, Ranges, mode, start, ReusablePeak)
      /\ Holding(tensors, Ranges, mode, start, budget, at.range, at.item, ReusablePeak)
  BY DEF LoadInvariant, Loading, LoadThere
<1>2. Layout(tensors) /\ Len(Ranges) \in Nat /\ DOMAIN Ranges = 1..Len(Ranges)
  BY <1>1, LoadsTyped
<1>3. mode \in {"individual", "grouped", "reusable"}
  BY <1>1 DEF Loads
<1>4. LedgerOK(budget) /\ budget.allocations = ChargesOf(tensors, Taken(Ranges, at.range, at.item))
  BY <1>1 DEF Holding, LedgerHolds
<1>5. \A n \in Names : n[1] # Active(Layer) => budget.allocations[n] = 0
  BY <1>4 DEF ChargesOf
<1> QED BY <1>1, <1>2, <1>3, <1>4, <1>5

(* The step that chooses the mode.                                         *)
LEMMA LoadLayerInvariant == ASSUME LoadInvariant, LoadLayer PROVE LoadInvariant'
<1>1. /\ LoadKept /\ LoadThere /\ mode = "none" /\ at = [range |-> 1, item |-> 1] /\ budget = start /\ result = "none"
      /\ UNCHANGED <<tensors, kept, config, budget, start, at, result>>
  BY DEF LoadInvariant, LoadLayer, LoadThere
<1>2. /\ mode' \in {"individual", "grouped", "reusable"}
      /\ mode' = "grouped" => CanAllocate(budget, Grouped.load_peak)
      /\ mode' = "reusable" => kept.buffer # 0 /\ CanAllocate(budget, ReusablePeak)
  BY DEF LoadLayer
<1>3. LoadKept'
  BY <1>1 DEF LoadKept
<1> DEFINE rs == IF mode' = "individual" THEN SingleRanges(tensors) ELSE ReadPlan
<1>4. Ranges' = rs /\ ReusablePeak' = ReusablePeak
  BY <1>1 DEF Ranges, SingleRanges, ReusablePeak, ReadPlan, Grouped
<1>5. LedgerOK(start) /\ start.used = 0 /\ start.peak_used = 0 /\ start.allocations = [n \in Names |-> 0]
  BY <1>1 DEF LoadKept
<1>6. start.total \in Nat
  BY <1>5, LedgerParts
<1>7. \A x : CanAllocate(start, x) => x <= start.total
  BY <1>5, <1>6 DEF CanAllocate, Available
<1>8. Loads(tensors, rs, mode', start, ReusablePeak)
  <2>1. /\ Partition(tensors, rs)
        /\ mode' = "individual" => \A r \in 1..Len(rs) : ~Multi(rs[r])
        /\ DOMAIN ReadPlan = 1..Len(ReadPlan)
    <3>1. Partition(tensors, ReadPlan) /\ Partition(tensors, SingleRanges(tensors))
      BY <1>1, KeptFacts
    <3>2. Layout(tensors) /\ DOMAIN tensors = 1..Len(tensors)
      BY <1>1, LayoutTyped DEF LoadKept
    <3>3. \A r \in 1..Len(SingleRanges(tensors)) : ~Multi(SingleRanges(tensors)[r])
      BY <3>2, SinglesPartition
    <3> QED BY <3>1, <3>3 DEF Partition
  <2>2. mode' = "grouped" => PeakTo(tensors, rs, Len(rs)) <= start.total
    <3> SUFFICES ASSUME mode' = "grouped" PROVE PeakTo(tensors, rs, Len(rs)) <= start.total
      OBVIOUS
    <3>1. rs = ReadPlan /\ Grouped.load_peak = PeakTo(tensors, ReadPlan, Len(ReadPlan))
      BY <1>1, KeptFacts
    <3>2. Grouped.load_peak <= start.total
      BY <1>1, <1>2, <1>7
    <3> QED BY <3>1, <3>2
  <2>3. ASSUME mode' = "reusable"
        PROVE  /\ \A r \in 1..Len(rs) : Multi(rs[r])
               /\ ReusablePeak \in Nat /\ Settled(tensors, DOMAIN tensors) < ReusablePeak
               /\ ReusablePeak <= start.total
    <3>1. rs = ReadPlan /\ kept.buffer # 0
      BY <1>2, <2>3
    <3>2. /\ kept.buffer \in Nat /\ Settled(tensors, DOMAIN tensors) \in Nat
          /\ ReusablePeak = kept.buffer + Settled(tensors, DOMAIN tensors)
          /\ \A r \in DOMAIN ReadPlan : Multi(ReadPlan[r])
      BY <1>1, <3>1, KeptFacts
    <3>3. ReusablePeak <= start.total
      BY <1>1, <1>2, <1>7, <2>3
    <3>4. \A r \in 1..Len(rs) : Multi(rs[r])
      BY <2>1, <3>1, <3>2
    <3>5. ReusablePeak \in Nat /\ Settled(tensors, DOMAIN tensors) < ReusablePeak
      <4> HIDE DEF rs
      <4> QED BY <3>1, <3>2
    <3> QED BY <3>3, <3>4, <3>5
  <2> HIDE DEF rs
  <2> QED BY <1>2, <1>5, <2>1, <2>2, <2>3 DEF Loads
<1> HIDE DEF rs
<1>9. Holding(tensors, rs, mode', start, start, 1, 1, ReusablePeak)
  BY <1>8, HoldsNothing
<1>10. at.range = 1 /\ at.item = 1
  BY <1>1
<1>11. (Loads(tensors, Ranges, mode, start, ReusablePeak))'
  BY <1>1, <1>4, <1>8
<1>12. (Holding(tensors, Ranges, mode, start, budget, at.range, at.item, ReusablePeak))'
  BY <1>1, <1>4, <1>9, <1>10
<1>13. LoadThere'
  <2>1. mode' # "none" /\ result' = "none"
    BY <1>1, <1>2
  <2> QED BY <1>11, <1>12, <2>1 DEF LoadThere
<1> QED BY <1>3, <1>13 DEF LoadInvariant

(* The peak of an individual load is the estimate.                         *)
LEMMA IndividualPeak ==
    ASSUME LoadInvariant, Loading, mode = "individual",
           ~(PeakTo(tensors, Ranges, Len(Ranges)) <= start.total)
    PROVE  ~CanAllocate(start, Individual.load_peak)
<1>1. LoadKept /\ Layout(tensors)
  BY LoadingFacts
<1>2. Ranges = SingleRanges(tensors)
  BY DEF Ranges, SingleRanges
<1>3. Individual.load_peak = PeakTo(tensors, Ranges, Len(Ranges))
  BY <1>1, <1>2, KeptFacts
<1>4. LedgerOK(start) /\ start.used = 0
  BY <1>1 DEF LoadKept
<1>5. start.total \in Nat
  BY <1>4, LedgerParts
<1> QED BY <1>3, <1>4, <1>5 DEF CanAllocate, Available

(* A step that loads one tensor on its own.                                *)
LEMMA LoadIndividuallyInvariant == ASSUME LoadInvariant, LoadIndividually PROVE LoadInvariant'
<1>1. Loading /\ mode # "reusable" /\ InRange /\ ~Multi(Current)
  BY DEF LoadIndividually
<1>2. /\ mode # "none"
      /\ Loads(tensors, Ranges, mode, start, ReusablePeak)
      /\ Holding(tensors, Ranges, mode, start, budget, at.range, at.item, ReusablePeak)
      /\ DOMAIN Ranges = 1..Len(Ranges)
      /\ LedgerOK(budget) /\ \A x \in Names : x[1] # Active(Layer) => budget.allocations[x] = 0
  BY <1>1, LoadingFacts
<1> DEFINE r == at.range
           k == Ranges[r].tensors[1]
           n == TensorName(k)
           c == Allocated(budget, n, LoadCharge(tensors[k]))
           d == Resized(c, n, ResidentCharge(tensors[k]))
<1>3. r \in 1..Len(Ranges) /\ ~Multi(Ranges[r])
  BY <1>1, <1>2 DEF InRange, Current
<1>4. at.item = 1
  <2>1. Place(Ranges, mode, r, at.item)
    BY <1>2 DEF Holding
  <2> QED BY <1>1, <1>3, <2>1 DEF Place
<1>5. /\ AllocateResult(budget, n, LoadCharge(tensors[k])) # "Ok" =>
            mode = "individual" /\ ~(PeakTo(tensors, Ranges, Len(Ranges)) <= start.total)
      /\ AllocateResult(budget, n, LoadCharge(tensors[k])) = "Ok" =>
            /\ LedgerOK(c) /\ \A x \in Names : x[1] # Active(Layer) => c.allocations[x] = 0
            /\ ResizeResult(c, n, ResidentCharge(tensors[k])) = "Ok"
            /\ Holding(tensors, Ranges, mode, start, d, r + 1, 1, ReusablePeak)
            /\ ResidentCharge(tensors[k]) = LoadCharge(tensors[k]) =>
                  Holding(tensors, Ranges, mode, start, c, r + 1, 1, ReusablePeak)
  <2>1. Holding(tensors, Ranges, mode, start, budget, r, 1, ReusablePeak)
    BY <1>2, <1>4
  <2> QED BY <1>1, <1>2, <1>3, <2>1, LoadedAlone
<1>6. \/ AllocateResult(budget, n, LoadCharge(tensors[k])) # "Ok" /\ Fails("Short", budget)
      \/ AllocateResult(budget, n, LoadCharge(tensors[k])) = "Ok" /\ Fails("Unread", c)
      \/ /\ AllocateResult(budget, n, LoadCharge(tensors[k])) = "Ok"
         /\ ResidentCharge(tensors[k]) = LoadCharge(tensors[k]) /\ Advances(r + 1, 1, c)
      \/ /\ AllocateResult(budget, n, LoadCharge(tensors[k])) = "Ok"
         /\ Advances(r + 1, 1, d)
      \/ /\ AllocateResult(budget, n, LoadCharge(tensors[k])) = "Ok"
         /\ ResizeResult(c, n, ResidentCharge(tensors[k])) # "Ok"
  BY DEF LoadIndividually, Current
<1> HIDE DEF c, d, n, k
<1>7. CASE AllocateResult(budget, n, LoadCharge(tensors[k])) # "Ok" /\ Fails("Short", budget)
  <2>1. mode = "individual" /\ ~CanAllocate(start, Individual.load_peak)
    BY <1>1, <1>5, <1>7, IndividualPeak
  <2> QED BY <1>2, <1>7, <2>1, FailsInvariant
<1>8. CASE AllocateResult(budget, n, LoadCharge(tensors[k])) = "Ok" /\ Fails("Unread", c)
  BY <1>2, <1>5, <1>8, FailsInvariant
<1>9. CASE /\ AllocateResult(budget, n, LoadCharge(tensors[k])) = "Ok"
           /\ ResidentCharge(tensors[k]) = LoadCharge(tensors[k]) /\ Advances(r + 1, 1, c)
  BY <1>1, <1>5, <1>9, AdvancesInvariant
<1>10. CASE AllocateResult(budget, n, LoadCharge(tensors[k])) = "Ok" /\ Advances(r + 1, 1, d)
  BY <1>1, <1>5, <1>10, AdvancesInvariant
<1> QED BY <1>5, <1>6, <1>7, <1>8, <1>9, <1>10

(* A step that charges the next tensor of a range.                         *)
LEMMA ChargeResidentInvariant == ASSUME LoadInvariant, ChargeResident PROVE LoadInvariant'
<1>1. /\ Loading /\ InRange /\ at.item <= Len(Current.tensors)
      /\ mode = "reusable" \/ (mode = "grouped" /\ Multi(Current))
  BY DEF ChargeResident
<1>2. /\ Loads(tensors, Ranges, mode, start, ReusablePeak)
      /\ Holding(tensors, Ranges, mode, start, budget, at.range, at.item, ReusablePeak)
      /\ DOMAIN Ranges = 1..Len(Ranges)
  BY <1>1, LoadingFacts
<1> DEFINE r == at.range
           i == at.item
           k == Ranges[r].tensors[i]
           c == Allocated(budget, TensorName(k), ResidentCharge(tensors[k]))
<1>3. /\ r \in 1..Len(Ranges) /\ i <= Len(Ranges[r].tensors)
      /\ mode = "reusable" \/ (mode = "grouped" /\ Multi(Ranges[r]))
  BY <1>1, <1>2 DEF InRange, Current
<1>4. /\ AllocateResult(budget, TensorName(k), ResidentCharge(tensors[k])) = "Ok"
      /\ mode = "reusable" /\ i = Len(Ranges[r].tensors) =>
            Holding(tensors, Ranges, mode, start, c, r + 1, 1, ReusablePeak)
      /\ ~(mode = "reusable" /\ i = Len(Ranges[r].tensors)) =>
            Holding(tensors, Ranges, mode, start, c, r, i + 1, ReusablePeak)
  BY <1>2, <1>3, ChargedNext
<1>5. IF mode = "reusable" /\ i = Len(Ranges[r].tensors)
      THEN Advances(r + 1, 1, c) ELSE Advances(r, i + 1, c)
  BY <1>4 DEF ChargeResident, Current
<1> HIDE DEF c, k
<1>6. CASE mode = "reusable" /\ i = Len(Ranges[r].tensors)
  BY <1>1, <1>4, <1>5, <1>6, AdvancesInvariant
<1>7. CASE ~(mode = "reusable" /\ i = Len(Ranges[r].tensors))
  BY <1>1, <1>4, <1>5, <1>7, AdvancesInvariant
<1> QED BY <1>6, <1>7

(* What a read through a buffer may do.                                    *)
LEMMA ReadOutcomes ==
    ASSUME NEW bytes, NEW S, NEW r, NEW i, ReadWithBuffer(bytes, S, r, i),
           bytes # 0 => AllocateResult(budget, TempName, bytes) = "Ok",
           \A k \in S : InsideBuffer(budget, bytes).allocations[TensorName(k)] = ResidentCharge(tensors[k])
    PROVE  \/ Fails("Unread", AfterBuffer(budget, bytes))
           \/ Advances(r, i, AfterBuffer(budget, bytes))
<1>1. CASE bytes = 0
  <2>1. AfterBuffer(budget, bytes) = budget /\ InsideBuffer(budget, bytes) = budget
    BY <1>1 DEF AfterBuffer, InsideBuffer
  <2>2. ChargesDecoded(budget, S)
    BY <2>1 DEF ChargesDecoded
  <2> QED BY <1>1, <2>1, <2>2 DEF ReadWithBuffer
<1>2. CASE bytes # 0
  <2> DEFINE a == Allocated(budget, TempName, bytes)
  <2>1. AfterBuffer(budget, bytes) = Released(a, TempName) /\ InsideBuffer(budget, bytes) = a
    BY <1>2 DEF AfterBuffer, InsideBuffer
  <2>2. ChargesDecoded(a, S)
    BY <2>1 DEF ChargesDecoded
  <2>3. Fails("Unread", Released(a, TempName)) \/ Advances(r, i, Released(a, TempName))
    BY <1>2, <2>2 DEF ReadWithBuffer
  <2> QED BY <2>1, <2>3
<1> QED BY <1>1, <1>2

\* A ledger that holds tensors of the layer charges nothing else.
LEMMA HoldsOnlyLayer ==
    ASSUME NEW b, NEW ts, NEW S, LedgerHolds(b, ts, S)
    PROVE  LedgerOK(b) /\ \A n \in Names : n[1] # Active(Layer) => b.allocations[n] = 0
BY DEF LedgerHolds, ChargesOf

\* A coalesced range is read into its buffer (load_layer_grouped).
LEMMA ReadRangeInvariant == ASSUME LoadInvariant, ReadRange PROVE LoadInvariant'
<1>1. /\ Loading /\ mode = "grouped" /\ InRange /\ Multi(Current) /\ at.item > Len(Current.tensors)
      /\ ReadWithBuffer(Current.length, ToSet(Current.tensors), at.range + 1, 1)
  BY DEF ReadRange
<1>2. /\ mode # "none" /\ Loads(tensors, Ranges, mode, start, ReusablePeak)
      /\ Holding(tensors, Ranges, mode, start, budget, at.range, at.item, ReusablePeak)
      /\ DOMAIN Ranges = 1..Len(Ranges)
  BY <1>1, LoadingFacts
<1> DEFINE r == at.range
           x == Ranges[r].length
           S == ToSet(Ranges[r].tensors)
           e == AfterBuffer(budget, x)
<1>3. r \in 1..Len(Ranges) /\ Multi(Ranges[r]) /\ at.item > Len(Ranges[r].tensors)
      /\ ReadWithBuffer(x, S, r + 1, 1)
  BY <1>1, <1>2 DEF InRange, Current
<1>4. /\ ~(x # 0 /\ AllocateResult(budget, TempName, x) # "Ok")
      /\ \A k \in S : InsideBuffer(budget, x).allocations[TensorName(k)] = ResidentCharge(tensors[k])
      /\ LedgerHolds(e, tensors, Before(Ranges, r + 1))
      /\ Holding(tensors, Ranges, mode, start, e, r + 1, 1, ReusablePeak)
  BY <1>1, <1>2, <1>3, RangeRead
<1> HIDE DEF e, x, S, r
<1>5. Fails("Unread", e) \/ Advances(r + 1, 1, e)
  BY <1>3, <1>4, ReadOutcomes DEF e
<1>6. CASE Fails("Unread", e)
  <2>1. LedgerOK(e) /\ \A n \in Names : n[1] # Active(Layer) => e.allocations[n] = 0
    BY <1>4, HoldsOnlyLayer
  <2> QED BY <1>2, <1>6, <2>1, FailsInvariant
<1>7. CASE Advances(r + 1, 1, e)
  BY <1>1, <1>4, <1>7, AdvancesInvariant
<1> QED BY <1>5, <1>6, <1>7

\* A layer is read range by range into the buffer kept for it
\* (load_layer_grouped_reusing).
LEMMA ReadReusingInvariant == ASSUME LoadInvariant, ReadReusing PROVE LoadInvariant'
<1>1. /\ Loading /\ mode = "reusable" /\ at = [range |-> Len(Ranges) + 1, item |-> 1]
      /\ ReadWithBuffer(kept.buffer, DOMAIN tensors, at.range, 2)
  BY DEF ReadReusing
<1>2. /\ mode # "none" /\ LoadKept /\ Loads(tensors, Ranges, mode, start, ReusablePeak)
      /\ Holding(tensors, Ranges, mode, start, budget, at.range, at.item, ReusablePeak)
  BY <1>1, LoadingFacts
<1> DEFINE x == kept.buffer
           e == AfterBuffer(budget, x)
           r == Len(Ranges) + 1
<1>3. at.range = r /\ at.item = 1
  BY <1>1
<1>4. /\ x \in Nat /\ Settled(tensors, DOMAIN tensors) \in Nat
      /\ ReusablePeak = x + Settled(tensors, DOMAIN tensors)
  BY <1>2, KeptFacts
<1>5. x \in Nat \ {0}
  <2>1. Settled(tensors, DOMAIN tensors) < ReusablePeak
    BY <1>1, <1>2 DEF Loads
  <2>2. x # 0
    <3> HIDE DEF x
    <3> QED BY <1>4, <2>1
  <2> QED BY <1>4, <2>2
<1>6. /\ AllocateResult(budget, TempName, x) = "Ok"
      /\ \A k \in DOMAIN tensors : InsideBuffer(budget, x).allocations[TensorName(k)] = ResidentCharge(tensors[k])
      /\ LedgerHolds(e, tensors, DOMAIN tensors)
      /\ Holding(tensors, Ranges, mode, start, e, r, 2, ReusablePeak)
  <2>1. Holding(tensors, Ranges, mode, start, budget, Len(Ranges) + 1, 1, ReusablePeak)
    BY <1>2, <1>3
  <2>2. AllCharged(tensors, Ranges, mode, start, budget, ReusablePeak, x)
    BY <1>1, <1>2, <1>4, <1>5, <2>1 DEF AllCharged
  <2> HIDE DEF x
  <2> QED BY <2>2, RangesReadReusing
<1> HIDE DEF e, x, r
<1>7. Fails("Unread", e) \/ Advances(r, 2, e)
  <2>1. ReadWithBuffer(x, DOMAIN tensors, r, 2)
    BY <1>1, <1>3 DEF x
  <2> QED BY <1>6, <2>1, ReadOutcomes DEF e
<1>8. CASE Fails("Unread", e)
  <2>1. LedgerOK(e) /\ \A n \in Names : n[1] # Active(Layer) => e.allocations[n] = 0
    BY <1>6, HoldsOnlyLayer
  <2> QED BY <1>2, <1>8, <2>1, FailsInvariant
<1>9. CASE Advances(r, 2, e)
  BY <1>1, <1>6, <1>9, AdvancesInvariant
<1> QED BY <1>7, <1>8, <1>9

(* The extraction of the weights, which ends a load.                       *)
LEMMA ExtractInvariant == ASSUME LoadInvariant, Extract PROVE LoadInvariant'
<1>1. /\ Loading /\ ~InRange /\ (mode = "reusable" => at.item = 2)
      /\ \/ Fails("Invalid", budget)
         \/ result' = "Ok" /\ UNCHANGED <<tensors, kept, config, budget, start, mode, at>>
  BY DEF Extract
<1>2. /\ mode # "none" /\ LoadKept
      /\ Loads(tensors, Ranges, mode, start, ReusablePeak)
      /\ Holding(tensors, Ranges, mode, start, budget, at.range, at.item, ReusablePeak)
      /\ LedgerOK(budget) /\ \A n \in Names : n[1] # Active(Layer) => budget.allocations[n] = 0
  BY <1>1, LoadingFacts
<1>3. CASE Fails("Invalid", budget)
  BY <1>2, <1>3, FailsInvariant
<1>4. CASE result' = "Ok" /\ UNCHANGED <<tensors, kept, config, budget, start, mode, at>>
  <2>1. LoadKept'
    BY <1>2, <1>4 DEF LoadKept
  <2>2. Ranges' = Ranges /\ ReusablePeak' = ReusablePeak /\ InRange' = InRange
    BY <1>4 DEF Ranges, ReusablePeak, ReadPlan, Grouped, InRange
  <2>3. (Loads(tensors, Ranges, mode, start, ReusablePeak))'
    BY <1>2, <1>4, <2>2
  <2>4. (Holding(tensors, Ranges, mode, start, budget, at.range, at.item, ReusablePeak))'
    BY <1>2, <1>4, <2>2
  <2>5. LoadThere'
    BY <1>1, <1>2, <1>4, <2>2, <2>3, <2>4 DEF LoadThere
  <2> QED BY <2>1, <2>5 DEF LoadInvariant
<1> QED BY <1>1, <1>3, <1>4

\* Every step of a load keeps the invariant.
LEMMA LoadInvariantNext == LoadInvariant /\ [LoadNext]_loadVars => LoadInvariant'
<1> SUFFICES ASSUME LoadInvariant, [LoadNext]_loadVars PROVE LoadInvariant'
  OBVIOUS
<1>1. CASE UNCHANGED loadVars
  <2>1. /\ Ranges' = Ranges /\ ReusablePeak' = ReusablePeak /\ InRange' = InRange /\ Individual' = Individual
        /\ UNCHANGED <<tensors, kept, config, budget, start, mode, at, result>>
    BY <1>1 DEF loadVars, Ranges, ReusablePeak, ReadPlan, Grouped, InRange, Individual
  <2> QED BY <2>1 DEF LoadInvariant, LoadKept, LoadThere
<1>2. CASE LoadLayer
  BY <1>2, LoadLayerInvariant
<1>3. CASE LoadIndividually
  BY <1>3, LoadIndividuallyInvariant
<1>4. CASE ChargeResident
  BY <1>4, ChargeResidentInvariant
<1>5. CASE ReadRange
  BY <1>5, ReadRangeInvariant
<1>6. CASE ReadReusing
  BY <1>6, ReadReusingInvariant
<1>7. CASE Extract
  BY <1>7, ExtractInvariant
<1> QED BY <1>1, <1>2, <1>3, <1>4, <1>5, <1>6, <1>7 DEF LoadNext

\* The invariant of layer loads holds in every state.
LEMMA LoadSpecInvariant == LoadSpec => []LoadInvariant
<1>1. LoadInvariant /\ [LoadNext]_loadVars => LoadInvariant'
  BY LoadInvariantNext
<1> QED BY <1>1, LoadInvariantInit, PTL DEF LoadSpec

\* The plan covers the tensors, by the invariant.
LEMMA InvariantCovers == LoadInvariant => PlanCoversTensors
<1> SUFFICES ASSUME LoadInvariant PROVE PlanCoversTensors
  OBVIOUS
<1>1. LoadKept /\ Layout(tensors) /\ ~Overlapping(tensors)
  BY DEF LoadInvariant, LoadKept
<1>2. ReadPlan = BuildLayerReadPlan(tensors)
  BY <1>1, KeptFacts
<1>3. tensors \in Seq(LoadedTensors)
  BY <1>1 DEF Layout
<1>4. PlanCovers(tensors, ReadPlan)
  BY <1>1, <1>2, <1>3, ReadPlanCovers
<1> QED BY <1>4 DEF PlanCovers, PlanCoversTensors

\* A load that has succeeded holds the whole layer, and its peak is the one of its
\* mode.
LEMMA LoadDone ==
    ASSUME LoadInvariant, result = "Ok"
    PROVE  /\ LoadKept /\ Layout(tensors) /\ Loads(tensors, Ranges, mode, start, ReusablePeak)
           /\ LedgerHolds(budget, tensors, DOMAIN tensors)
           /\ mode = "reusable" => budget.peak_used = ReusablePeak
           /\ mode # "reusable" => budget.peak_used = PeakTo(tensors, Ranges, Len(Ranges))
<1>1. LoadKept /\ LoadThere /\ mode # "none" /\ ~InRange /\ (mode = "reusable" => at.item = 2)
  BY DEF LoadInvariant, LoadThere
<1>2. /\ Loads(tensors, Ranges, mode, start, ReusablePeak)
      /\ Holding(tensors, Ranges, mode, start, budget, at.range, at.item, ReusablePeak)
  BY <1>1 DEF LoadThere
<1>3. /\ Partition(tensors, Ranges) /\ Layout(tensors) /\ Len(Ranges) \in Nat
      /\ DOMAIN Ranges = 1..Len(Ranges)
  BY <1>2, LoadsTyped
<1>4. Place(Ranges, mode, at.range, at.item)
  BY <1>2 DEF Holding
<1>5. at.range \in 1..(Len(Ranges) + 1) /\ at.range \notin 1..Len(Ranges) /\ at.item \in Nat
      /\ (at.item # 1 => mode = "reusable")
  BY <1>1, <1>3, <1>4 DEF Place, InRange
<1>6. at.range = Len(Ranges) + 1 /\ at.range - 1 = Len(Ranges)
  BY <1>3, <1>5
<1>7. Taken(Ranges, at.range, at.item) = DOMAIN tensors
  BY <1>3, <1>5, <1>6, TakenInOrder
<1>8. LedgerHolds(budget, tensors, DOMAIN tensors)
  BY <1>2, <1>7 DEF Holding
<1>9. PeakThere(tensors, Ranges, mode, budget, at.range, at.item, ReusablePeak)
  BY <1>2 DEF Holding
<1>10. mode = "reusable" => budget.peak_used = ReusablePeak
  BY <1>1, <1>5, <1>9 DEF PeakThere
<1>11. ASSUME mode # "reusable" PROVE budget.peak_used = PeakTo(tensors, Ranges, Len(Ranges))
  <2>1. at.item = 1
    BY <1>5, <1>11
  <2>2. /\ budget.peak_used = Larger(PeakTo(tensors, Ranges, Len(Ranges)), budget.used)
        /\ budget.used <= PeakTo(tensors, Ranges, Len(Ranges))
    BY <1>6, <1>9, <1>11, <2>1 DEF PeakThere
  <2>3. Len(Ranges) \in 0..Len(Ranges)
    BY <1>3
  <2>4. PeakTo(tensors, Ranges, Len(Ranges)) \in Nat
    BY <1>3, <2>3, PeaksRise
  <2>5. budget.used \in Nat
    <3>1. LedgerOK(budget)
      BY <1>8 DEF LedgerHolds
    <3> QED BY <3>1, LedgerParts
  <2> QED BY <2>2, <2>4, <2>5 DEF Larger
<1> QED BY <1>1, <1>2, <1>3, <1>8, <1>10, <1>11

\* The estimates hold, by the invariant.
LEMMA InvariantEstimates == LoadInvariant => EstimatesHold
<1> SUFFICES ASSUME LoadInvariant PROVE EstimatesHold
  OBVIOUS
<1>1. LoadKept /\ LoadThere
  BY DEF LoadInvariant
<1>2. ShortOnlyIfEstimateDoesNotFit
  BY <1>1 DEF LoadThere, ShortOnlyIfEstimateDoesNotFit
<1>3. ASSUME result = "Ok"
      PROVE  budget.peak_used = CASE mode = "individual" -> Individual.load_peak
                                  [] mode = "grouped" -> Grouped.load_peak
                                  [] mode = "reusable" -> ReusablePeak
  <2>1. /\ Loads(tensors, Ranges, mode, start, ReusablePeak)
        /\ mode = "reusable" => budget.peak_used = ReusablePeak
        /\ mode # "reusable" => budget.peak_used = PeakTo(tensors, Ranges, Len(Ranges))
    BY <1>3, LoadDone
  <2>2. mode \in {"individual", "grouped", "reusable"}
    BY <2>1 DEF Loads
  <2>3. mode = "individual" => Individual.load_peak = PeakTo(tensors, Ranges, Len(Ranges))
    <3>1. mode = "individual" => Ranges = SingleRanges(tensors)
      BY DEF Ranges, SingleRanges
    <3>2. Individual.load_peak = PeakTo(tensors, SingleRanges(tensors), Len(SingleRanges(tensors)))
      BY <1>1, KeptFacts
    <3> QED BY <3>1, <3>2
  <2>4. mode = "grouped" => Grouped.load_peak = PeakTo(tensors, Ranges, Len(Ranges))
    <3>1. mode = "grouped" => Ranges = ReadPlan
      BY DEF Ranges
    <3>2. Grouped.load_peak = PeakTo(tensors, ReadPlan, Len(ReadPlan))
      BY <1>1, KeptFacts
    <3> QED BY <3>1, <3>2
  <2> QED BY <2>1, <2>2, <2>3, <2>4
<1> QED BY <1>2, <1>3 DEF EstimatesHold, EstimatesExact

\* The charges are settled, by the invariant.
LEMMA InvariantSettled == LoadInvariant => ChargesSettled
<1> SUFFICES ASSUME LoadInvariant PROVE ChargesSettled
  OBVIOUS
<1>1. LoadKept /\ LoadThere
  BY DEF LoadInvariant
<1>2. start.used = 0 /\ start.allocations = [n \in Names |-> 0]
  BY <1>1 DEF LoadKept
<1>3. result # "Mismatch"
  BY <1>1 DEF LoadThere
<1>4. result \notin {"none", "Ok"} => budget.allocations = start.allocations /\ budget.used = start.used
  BY <1>1, <1>2 DEF LoadThere
<1>5. ASSUME result = "Ok"
      PROVE  ChargesDecoded(budget, DOMAIN tensors) /\ budget.used = start.used + Individual.resident
  <2>1. Layout(tensors) /\ LedgerHolds(budget, tensors, DOMAIN tensors)
    BY <1>5, LoadDone
  <2>2. /\ budget.allocations = ChargesOf(tensors, DOMAIN tensors)
        /\ budget.used = Settled(tensors, DOMAIN tensors)
    BY <2>1 DEF LedgerHolds
  <2>3. ChargesDecoded(budget, DOMAIN tensors)
    <3> SUFFICES ASSUME NEW k \in DOMAIN tensors
                 PROVE  budget.allocations[TensorName(k)] = ResidentCharge(tensors[k])
      BY DEF ChargesDecoded
    <3>1. TensorName(k) \in Names /\ TensorName(k)[1] = Active(Layer) /\ TensorName(k)[2] = k
      BY <2>1, LoadNames
    <3> QED BY <2>2, <3>1 DEF ChargesOf
  <2>4. Individual.resident = Settled(tensors, DOMAIN tensors) /\ Settled(tensors, DOMAIN tensors) \in Nat
    BY <1>1, KeptFacts
  <2> QED BY <1>2, <2>2, <2>3, <2>4
<1> QED BY <1>3, <1>4, <1>5 DEF ChargesSettled

(***************************************************************************)
(* build_layer_read_plan: for every layer whose tensors do not overlap, of *)
(* any number of tensors and files, and every gap and span limit, the read *)
(* plan holds each tensor once, in file order and inside its range; the    *)
(* ranges do not overlap, and a coalesced one stays within the span limit. *)
(***************************************************************************)
THEOREM PlanCoversTheorem == LoadSpec => []PlanCoversTensors
BY LoadSpecInvariant, InvariantCovers, PTL

(***************************************************************************)
(* estimate_layer_memory against load_layer: a load that succeeds has      *)
(* raised the ledger's peak by exactly the estimate for its mode, and a    *)
(* load runs short of memory only if the estimate of an individual load    *)
(* did not fit: coalescing and buffer reuse make no load fail.             *)
(***************************************************************************)
THEOREM EstimatesHoldTheorem == LoadSpec => []EstimatesHold
BY LoadSpecInvariant, InvariantEstimates, PTL

(***************************************************************************)
(* load_layer and its error paths: a load that fails, at any read of any   *)
(* range in any mode, has given back every charge; one that succeeds holds *)
(* each tensor at its resident size and no buffer.                         *)
(***************************************************************************)
THEOREM ChargesSettledTheorem == LoadSpec => []ChargesSettled
BY LoadSpecInvariant, InvariantSettled, PTL
=============================================================================
