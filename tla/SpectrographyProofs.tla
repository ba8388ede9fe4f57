------------------------ MODULE SpectrographyProofs ------------------------
(***************************************************************************)
(* Proofs about the runs of the spectrography command (Spectrography), for *)
(* any models, probes, command lines, scores and thresholds, with signals  *)
(* and kills at any point: a run the database calls finished is backed by  *)
(* what is on disk, a kill loses one call, a merging run pays for nothing  *)
(* twice, and a write of profiles does what the report said.               *)
(*                                                                         *)
(* They are inductive together with what the process has in memory at each *)
(* phase and how that agrees with the disk (LoopOK, StoreOK).              *)
(***************************************************************************)
EXTENDS Spectrography, FiniteSetTheorems, SequenceTheorems, TLAPS

AfterLoop == Phases \ {"idle", "loop", "calling"}

\* Runs that have not started left nothing.
FutureOK == \A r \in Run : r > run => checkpoint[r] = {} /\ status[r] = "none"

\* What the process knows while it goes through its schedule.
LoopOK ==
    phase # "idle" =>
        /\ run \in Run /\ planned[run] = Range(schedule)
        /\ checkpoint[run] = {<<x.model, x.probe>> : x \in results}
        /\ checkpoint[run] \subseteq completed /\ completed \subseteq Known(run)
        /\ \A i \in 1..(idx - 1) : schedule[i] \in completed
        /\ phase = "calling" => idx <= Len(schedule) /\ schedule[idx] \notin completed
        /\ mode = "merge" => \A r \in Run : checkpoint[r] \subseteq completed
        /\ phase \in AfterLoop => shutdown \/ idx > Len(schedule)

\* What it has on disk while it goes through the reports.
StoreOK ==
    /\ phase \in AfterLoop \ {"report"} => run \in reports
    /\ phase \in {"stored", "complete"} => rows[run] = checkpoint[run]
    /\ phase \notin {"idle", "prune"} => status[run] \in {"none", "running"}
    /\ phase = "profiles" => report = Deltas(Profiles(results), profileFile)

IInv ==
    /\ TypeOK /\ FutureOK /\ LoopOK /\ StoreOK
    /\ FinishedRunIsBacked /\ KillLosesOneCall

-----------------------------------------------------------------------------
(* Arithmetic and finiteness.                                              *)

\* The share of a whole part of a whole is a whole part of it.
LEMMA Share ==
    ASSUME NEW a \in Nat, NEW b \in Nat \ {0}, NEW u \in Nat, a <= b
    PROVE  (a * u) \div b \in 0..u
<1> DEFINE q == (a * u) \div b
<1>1. a * u \in Nat /\ q \in Int /\ b * q <= a * u /\ a * u < b * q + b /\ 0 <= q
  OBVIOUS
<1>2. a * u <= b * u  OBVIOUS
<1>3. ASSUME q > u PROVE FALSE
  <2>1. b * q >= b * (u + 1)  BY <1>1, <1>3
  <2>2. b * (u + 1) = b * u + b  OBVIOUS
  <2>3. QED  BY <1>1, <1>2, <2>1, <2>2
<1>4. QED  BY <1>1, <1>3

\* Where an element of a table of n columns and l rows is.
LEMMA Cell ==
    ASSUME NEW n \in Nat \ {0}, NEW l \in Nat, NEW k \in Nat, k < n * l
    PROVE  k % n \in 0..(n - 1) /\ k \div n \in 0..(l - 1)
<1> DEFINE q == k \div n
<1>1. q \in Int /\ n * q <= k /\ k < n * q + n /\ 0 <= q /\ k % n \in 0..(n - 1)
  OBVIOUS
<1>2. ASSUME q >= l PROVE FALSE
  <2>1. n * q >= n * l  BY <1>1, <1>2
  <2>2. QED  BY <1>1, <2>1
<1>3. QED  BY <1>1, <1>2

LEMMA ProbesFinite ==
    /\ Len(Probes) \in Nat /\ Probes \in [1..Len(Probes) -> Probe]
    /\ IsFiniteSet(Probe)
<1>1. Len(Probes) \in Nat /\ Probes \in [1..Len(Probes) -> Probe]
  BY SpectrographyAssumption, LenProperties
<1>2. Probes \in Surjection(1..Len(Probes), Probe)
  BY <1>1 DEF Probe, Range, Surjection
<1>3. QED  BY <1>1, <1>2, FS_Interval, FS_Surjection

LEMMA PairsFinite ==
    /\ IsFiniteSet(Run \X Pair)
    /\ \A A \in SUBSET (Run \X Pair) : IsFiniteSet(A) /\ Cardinality(A) \in Nat
<1>1. IsFiniteSet(Pair)
  BY ProbesFinite, SpectrographyAssumption, FS_Product DEF Pair
<1>2. IsFiniteSet(Run)
  BY SpectrographyAssumption, FS_Interval DEF Run
<1>3. IsFiniteSet(Run \X Pair)
  BY <1>1, <1>2, FS_Product
<1>4. QED  BY <1>3, FS_Subset, FS_CardinalityType

\* The schedule of some models asks each of them every probe, and nothing else.
LEMMA ScheduleType ==
    ASSUME NEW models \in Seq(Model)
    PROVE  Interleaved(models) \in Seq(Pair)
<1> DEFINE n == Len(models)  l == Len(Probes)
<1>1. n \in Nat /\ l \in Nat /\ n * l \in Nat /\ models \in [1..n -> Model]
  BY ProbesFinite, LenProperties
<1>2. ASSUME NEW i \in 1..(n * l)
      PROVE  <<models[((i - 1) % n) + 1], Probes[((i - 1) \div n) + 1]>> \in Pair
  <2>1. n # 0  BY <1>1, <1>2
  <2>2. (i - 1) % n \in 0..(n - 1) /\ (i - 1) \div n \in 0..(l - 1)
    <3>1. i - 1 \in Nat /\ i - 1 < n * l  BY <1>1, <1>2
    <3>2. QED  BY <1>1, <2>1, <3>1, Cell
  <2>3. ((i - 1) % n) + 1 \in 1..n /\ ((i - 1) \div n) + 1 \in 1..l
    BY <1>1, <2>2
  <2>4. QED  BY <1>1, <2>3, ProbesFinite DEF Pair
<1>3. Interleaved(models) \in [1..(n * l) -> Pair]
  BY <1>2 DEF Interleaved
<1>4. QED  BY <1>1, <1>3

-----------------------------------------------------------------------------
(* The profiles of a run (SpectrographyScores).                            *)

LEMMA MeasuredType ==
    ASSUME NEW rs, \A x \in rs : x.model \in Model
    PROVE  Measured(rs) \in SUBSET Model /\ IsFiniteSet(Measured(rs))
<1>1. Measured(rs) \in SUBSET Model  BY DEF Measured, Valid
<1>2. QED  BY <1>1, SpectrographyAssumption, FS_Subset

\* A profile gives every dimension a score between 0 and 1.
LEMMA ProfilesType ==
    ASSUME NEW rs, \A x \in rs : x.model \in Model
    PROVE  /\ DOMAIN Profiles(rs) = Measured(rs)
           /\ \A m \in Measured(rs) : Profiles(rs)[m] \in [Dim -> 0..Unit]
<1>1. ASSUME NEW m \in Measured(rs), NEW d \in Dim
      PROVE  RankScore(rs, m, d) \in 0..Unit
  <2> DEFINE others == Ranked(rs, d) \ {m}
             below == {n \in others : RanksBelow(rs, d, n, m)}
  <2>1. Neutral \in 0..Unit
    BY SpectrographyAssumption DEF Neutral
  <2>2. IsFiniteSet(others) /\ below \in SUBSET others
    <3>1. others \subseteq Measured(rs)  BY DEF Ranked
    <3>2. QED  BY <3>1, MeasuredType, FS_Subset
  <2>3. /\ Cardinality(others) \in Nat /\ Cardinality(below) \in Nat
        /\ Cardinality(below) <= Cardinality(others)
        /\ others # {} => Cardinality(others) # 0
    BY <2>2, FS_Subset, FS_CardinalityType, FS_EmptySet
  <2>4. others # {} => (Cardinality(below) * Unit) \div Cardinality(others) \in 0..Unit
    <3> HIDE DEF others, below
    <3>1. QED  BY <2>3, Share, SpectrographyAssumption
  <2>5. \/ RankScore(rs, m, d) = Neutral
        \/ /\ others # {}
           /\ RankScore(rs, m, d) = (Cardinality(below) * Unit) \div Cardinality(others)
    BY DEF RankScore
  <2>6. QED  BY <2>1, <2>4, <2>5
<1>2. QED  BY <1>1 DEF Profiles

-----------------------------------------------------------------------------
(* What a step leaves as it is.                                            *)

\* The checkpoints are the same, and what they count.
LEMMA SameCheckpoints ==
    ASSUME checkpoint' = checkpoint
    PROVE  Lines' = Lines /\ \A r : Known(r)' = Known(r)
BY DEF Lines, Known

LEMMA LinesCount == Cardinality(Lines) \in Nat
<1>1. Lines \in SUBSET (Run \X Pair)  BY DEF Lines
<1>2. QED  BY <1>1, PairsFinite

\* The runs that are over are as well backed as before.
LEMMA BackedStep ==
    ASSUME IInv, checkpoint' = checkpoint, planned' = planned, reports \subseteq reports',
           \A r \in Run : status'[r] \in {"partial", "complete"} =>
                             status'[r] = status[r] /\ rows'[r] = rows[r]
    PROVE  FinishedRunIsBacked'
BY SameCheckpoints DEF IInv, FinishedRunIsBacked

\* The history is the same.
LEMMA PaidStep ==
    ASSUME IInv, checkpoint' = checkpoint, begun' = begun, crashes' = crashes,
           phase # "calling"
    PROVE  KillLosesOneCall'
<1>1. Cardinality(Lines) \in Nat /\ begun \in Nat /\ crashes \in Nat
  BY LinesCount, SpectrographyAssumption DEF IInv, TypeOK
<1>2. begun <= Cardinality(Lines) + crashes
  BY <1>1 DEF IInv, KillLosesOneCall
<1>3. QED  BY <1>1, <1>2, SameCheckpoints DEF KillLosesOneCall

\* Runs to come are still to come.
LEMMA FutureStep ==
    ASSUME IInv, run' = run, checkpoint' = checkpoint, run \in Run,
           \A r \in Run \ {run} : status'[r] = status[r]
    PROVE  FutureOK'
BY SpectrographyAssumption DEF IInv, FutureOK, TypeOK, Run

\* The process goes on, with the same pairs done, to a phase other than the first two.
LEMMA LoopStep ==
    ASSUME IInv, phase # "idle", phase' \in AfterLoop, phase \in AfterLoop,
           UNCHANGED <<run, mode, schedule, idx, results, completed, shutdown>>,
           UNCHANGED <<checkpoint, planned>>
    PROVE  LoopOK'
BY SameCheckpoints DEF IInv, LoopOK, AfterLoop

-----------------------------------------------------------------------------
(* One lemma per action.                                                   *)
LEMMA InitIInv == Init => IInv
<1> SUFFICES ASSUME Init PROVE IInv
  OBVIOUS
<1>1. TypeOK
  <2>1. schedule \in Seq(Pair) /\ Len(schedule) = 0 /\ idx \in 1..(Len(schedule) + 1)
    BY DEF Init
  <2>2. Neutral \in 0..Unit
    BY SpectrographyAssumption DEF Neutral
  <2>3. \A f \in {profileFile, merged} :
           DOMAIN f \subseteq Model /\ \A m \in DOMAIN f : f[m] \in [Dim -> 0..Unit]
    BY <2>2 DEF Init, NoProfiles
  <2>4. /\ checkpoint \in [Run -> SUBSET Pair] /\ rows \in [Run -> SUBSET Pair]
        /\ planned \in [Run -> SUBSET Pair] /\ DOMAIN report \subseteq Model
        /\ status \in [Run -> {"none", "running", "partial", "complete"}]
    BY DEF Init, NoProfiles
  <2>5. run \in 0..MaxRuns /\ stored \in [Model -> 0..MaxRuns] /\ begun \in Nat
        /\ crashes \in 0..MaxCrashes
    BY SpectrographyAssumption DEF Init, NoRun
  <2>6. phase \in Phases /\ mode \in Modes /\ writes \in BOOLEAN /\ shutdown \in BOOLEAN
        /\ completed \subseteq Pair /\ reports \subseteq Run /\ pruned \subseteq Model
        /\ results = {}
    BY DEF Init, Phases, Modes
  <2>7. QED  BY <2>1, <2>3, <2>4, <2>5, <2>6 DEF TypeOK
<1>2. FutureOK /\ FinishedRunIsBacked
  BY DEF Init, FutureOK, FinishedRunIsBacked
<1>3. LoopOK /\ StoreOK
  BY DEF Init, LoopOK, StoreOK, AfterLoop
<1>4. KillLosesOneCall
  BY LinesCount DEF Init, KillLosesOneCall
<1>5. QED  BY <1>1, <1>2, <1>3, <1>4 DEF IInv

\* A run starts: its own checkpoint is empty, and it knows what its option reads.
LEMMA StartStep ==
    ASSUME IInv, NEW option \in Options, NEW from \in Run, Start(option, from)
    PROVE  IInv'
<1>1. /\ phase = "idle" /\ run < MaxRuns /\ run' = run + 1 /\ phase' = "loop"
      /\ mode' = option.mode /\ writes' = option.writes
      /\ schedule' = Interleaved(option.models)
      /\ idx' = 1 /\ results' = {} /\ shutdown' = FALSE
      /\ report' = NoProfiles /\ merged' = NoProfiles
      /\ completed' = Skipped(option.mode, from)
      /\ planned' = [planned EXCEPT ![run'] = Range(schedule')]
      /\ option.mode = "resume_from" => from \in 1..run
      /\ UNCHANGED <<checkpoint, reports, profileFile, status, rows, stored, pruned>>
      /\ UNCHANGED <<begun, crashes>>
  BY DEF Start, disk
<1>2. TypeOK /\ FutureOK /\ run \in Nat /\ run' \in Run /\ run + 1 \in Run
      /\ MaxRuns \in Nat
  BY <1>1, SpectrographyAssumption DEF IInv, TypeOK, Run
<1>3. schedule' \in Seq(Pair) /\ option.mode \in Modes /\ option.writes \in BOOLEAN
  BY <1>1, ScheduleType, SpectrographyAssumption
<1>4. Range(schedule') \in SUBSET Pair
  BY <1>3, LenProperties DEF Range
<1>5. checkpoint[run + 1] = {} /\ \A r \in Run : r > run => checkpoint[r] = {}
  BY <1>2 DEF FutureOK, Run
<1>6. completed' \subseteq UNION {checkpoint[q] : q \in 1..(run + 1)}
  <2>1. \A q \in Run : checkpoint[q] \subseteq UNION {checkpoint[k] : k \in 1..(run + 1)}
    <3> SUFFICES ASSUME NEW q \in Run, checkpoint[q] # {}
                 PROVE  checkpoint[q] \subseteq UNION {checkpoint[k] : k \in 1..(run + 1)}
      OBVIOUS
    <3>1. q \in 1..(run + 1)  BY <1>2, <1>5 DEF Run
    <3>2. QED  BY <3>1
  <2>2. QED  BY <1>1, <1>2, <2>1 DEF Skipped
<1>7. completed' \subseteq Pair
  <2>1. \A q \in Run : checkpoint[q] \subseteq Pair  BY <1>2 DEF TypeOK
  <2>2. QED  BY <1>1, <1>2, <2>1 DEF Skipped
<1>8. TypeOK'
  <2>1. planned' \in [Run -> SUBSET Pair]
    BY <1>1, <1>2, <1>4 DEF TypeOK
  <2>2. /\ Len(schedule') \in Nat /\ idx' \in 1..(Len(schedule') + 1)
    BY <1>1, <1>3, LenProperties
  <2>3. DOMAIN report' \subseteq Model /\ DOMAIN merged' \subseteq Model /\ DOMAIN merged' = {}
    BY <1>1 DEF NoProfiles
  <2>4. \A f \in {profileFile', merged'} :
           DOMAIN f \subseteq Model /\ \A m \in DOMAIN f : f[m] \in [Dim -> 0..Unit]
    BY <1>1, <1>2, <2>3 DEF TypeOK
  <2>5. run' \in 0..MaxRuns  BY <1>1, <1>2
  <2>6. phase' \in Phases /\ shutdown' \in BOOLEAN /\ results' = {}
    BY <1>1 DEF Phases
  <2>7. QED  BY <1>1, <1>2, <1>3, <1>7, <2>1, <2>2, <2>3, <2>4, <2>5, <2>6 DEF TypeOK
<1>9. FutureOK'
  BY <1>1, <1>2 DEF FutureOK, Run
<1>10. LoopOK'
  <2>1. planned'[run'] = Range(schedule')
    BY <1>1, <1>2 DEF TypeOK
  <2>2. checkpoint'[run'] = {} /\ {<<x.model, x.probe>> : x \in results'} = {}
    BY <1>1, <1>5
  <2>3. completed' \subseteq Known(run)'
    <3>1. Known(run)' = UNION {checkpoint[q] : q \in 1..(run + 1)}
      BY <1>1 DEF Known
    <3>2. QED  BY <1>6, <3>1
  <2>4. mode' = "merge" => \A r \in Run : checkpoint'[r] \subseteq completed'
    BY <1>1 DEF Skipped
  <2>5. 1..(idx' - 1) = {}  BY <1>1
  <2>6. phase' \notin AfterLoop /\ phase' # "calling"  BY <1>1 DEF AfterLoop
  <2>7. checkpoint'[run'] \subseteq completed'  BY <2>2
  <2>8. QED  BY <1>2, <2>1, <2>2, <2>3, <2>4, <2>5, <2>6, <2>7 DEF LoopOK
<1>11. StoreOK'
  <2>1. status'[run'] = "none"
    BY <1>1, <1>2 DEF FutureOK
  <2>2. QED  BY <1>1, <2>1 DEF StoreOK, AfterLoop
<1>12. FinishedRunIsBacked'
  <2>1. \A r \in Run : status'[r] \in {"partial", "complete"} => planned'[r] = planned[r]
    BY <1>1, <1>2 DEF FutureOK, TypeOK
  <2>2. QED  BY <1>1, <2>1, SameCheckpoints DEF IInv, FinishedRunIsBacked
<1>13. KillLosesOneCall'
  <2>1. begun \in Nat /\ crashes \in Nat /\ Cardinality(Lines) \in Nat
    BY <1>2, LinesCount, SpectrographyAssumption DEF TypeOK
  <2>2. begun <= Cardinality(Lines) + crashes
    BY <1>1, <2>1 DEF IInv, KillLosesOneCall
  <2>3. QED  BY <1>1, <2>1, <2>2, SameCheckpoints DEF KillLosesOneCall
<1>14. QED  BY <1>8, <1>9, <1>10, <1>11, <1>12, <1>13 DEF IInv

\* A signal changes a flag.
LEMMA SignalStep == ASSUME IInv, Signal PROVE IInv'
<1>1. /\ phase # "idle" /\ shutdown' = TRUE
      /\ UNCHANGED <<phase, run, mode, writes, schedule, idx, results, completed,
                     report, merged, checkpoint, reports>>
      /\ UNCHANGED <<profileFile, status, rows, stored, pruned, planned, begun, crashes>>
  BY DEF Signal, disk, history
<1>2. TypeOK'  BY <1>1 DEF IInv, TypeOK
<1>3. FutureOK' /\ StoreOK'  BY <1>1 DEF IInv, FutureOK, StoreOK
<1>4. LoopOK'  BY <1>1, SameCheckpoints DEF IInv, LoopOK
<1>5. FinishedRunIsBacked'  BY <1>1, BackedStep
<1>6. KillLosesOneCall'  BY <1>1, SameCheckpoints DEF IInv, KillLosesOneCall
<1>7. QED  BY <1>2, <1>3, <1>4, <1>5, <1>6 DEF IInv

\* A pair passed over is a completed one.
LEMMA SkipStep == ASSUME IInv, Skip PROVE IInv'
<1>1. /\ phase = "loop" /\ ~shutdown /\ idx <= Len(schedule)
      /\ schedule[idx] \in completed /\ idx' = idx + 1
      /\ UNCHANGED <<phase, run, mode, writes, schedule, results, completed,
                     shutdown, report, merged, checkpoint, reports>>
      /\ UNCHANGED <<profileFile, status, rows, stored, pruned, planned, begun, crashes>>
  BY DEF Skip, disk, history
<1>2. idx \in Nat /\ Len(schedule) \in Nat /\ idx' \in 1..(Len(schedule) + 1)
  BY <1>1, LenProperties DEF IInv, TypeOK
<1>3. TypeOK'  BY <1>1, <1>2 DEF IInv, TypeOK
<1>4. FutureOK' /\ StoreOK'  BY <1>1 DEF IInv, FutureOK, StoreOK
<1>5. LoopOK'
  <2>1. \A i \in 1..(idx' - 1) : schedule'[i] \in completed'
    BY <1>1, <1>2 DEF IInv, LoopOK
  <2>2. QED  BY <1>1, <2>1, SameCheckpoints DEF IInv, LoopOK, AfterLoop
<1>6. FinishedRunIsBacked'  BY <1>1, BackedStep
<1>7. KillLosesOneCall'  BY <1>1, PaidStep
<1>8. QED  BY <1>3, <1>4, <1>5, <1>6, <1>7 DEF IInv

\* One more evaluation is in progress.
LEMMA BeginStep == ASSUME IInv, Begin PROVE IInv'
<1>1. /\ phase = "loop" /\ ~shutdown /\ idx <= Len(schedule)
      /\ schedule[idx] \notin completed /\ phase' = "calling" /\ begun' = begun + 1
      /\ UNCHANGED <<run, mode, writes, schedule, idx, results, completed,
                     shutdown, report, merged, checkpoint, reports>>
      /\ UNCHANGED <<profileFile, status, rows, stored, pruned, planned, crashes>>
  BY DEF Begin, memory, disk
<1>2. begun \in Nat /\ crashes \in Nat /\ Cardinality(Lines) \in Nat
  BY LinesCount, SpectrographyAssumption DEF IInv, TypeOK
<1>3. TypeOK'  BY <1>1, <1>2 DEF IInv, TypeOK, Phases
<1>4. FutureOK' /\ StoreOK'  BY <1>1 DEF IInv, FutureOK, StoreOK, AfterLoop
<1>5. LoopOK'  BY <1>1, SameCheckpoints DEF IInv, LoopOK, AfterLoop
<1>6. FinishedRunIsBacked'  BY <1>1, BackedStep
<1>7. KillLosesOneCall'
  <2>1. begun <= Cardinality(Lines) + crashes
    BY <1>1, <1>2 DEF IInv, KillLosesOneCall
  <2>2. QED  BY <1>1, <1>2, <2>1, SameCheckpoints DEF KillLosesOneCall
<1>8. QED  BY <1>3, <1>4, <1>5, <1>6, <1>7 DEF IInv

\* The line of a pair nobody had a line for.
LEMMA FinishStep ==
    ASSUME IInv, NEW failed \in BOOLEAN, NEW score \in 0..Unit, Finish(failed, score)
    PROVE  IInv'
<1> DEFINE pair == schedule[idx]
           result == [model |-> pair[1], probe |-> pair[2],
                      at |-> idx, failed |-> failed, score |-> score]
<1>1. /\ phase = "calling" /\ phase' = "loop" /\ idx' = idx + 1
      /\ results' = results \cup {result}
      /\ completed' = completed \cup {pair}
      /\ checkpoint' = [checkpoint EXCEPT ![run] = @ \cup {pair}]
      /\ UNCHANGED <<run, mode, writes, schedule, shutdown, report, merged, reports>>
      /\ UNCHANGED <<profileFile, status, rows, stored, pruned, planned, begun, crashes>>
  BY DEF Finish, Line, history
<1>2. TypeOK /\ LoopOK /\ StoreOK /\ FutureOK  BY DEF IInv
<1>3. /\ run \in Run /\ idx <= Len(schedule) /\ pair \notin completed
      /\ planned[run] = Range(schedule)
      /\ checkpoint[run] = {<<x.model, x.probe>> : x \in results}
      /\ checkpoint[run] \subseteq completed /\ completed \subseteq Known(run)
      /\ \A i \in 1..(idx - 1) : schedule[i] \in completed
      /\ mode = "merge" => \A r \in Run : checkpoint[r] \subseteq completed
  BY <1>1, <1>2 DEF LoopOK
<1>4. idx \in Nat /\ Len(schedule) \in Nat /\ idx \in 1..Len(schedule)
      /\ idx' \in 1..(Len(schedule) + 1)
  BY <1>1, <1>2, <1>3, LenProperties DEF TypeOK
<1>5. pair \in Pair /\ pair = <<pair[1], pair[2]>> /\ pair[1] \in Model /\ pair[2] \in Probe
  <2>1. pair \in Pair  BY <1>2, <1>4, LenProperties DEF TypeOK
  <2>2. QED  BY <2>1 DEF Pair
<1>6. /\ checkpoint' \in [Run -> SUBSET Pair]
      /\ checkpoint'[run] = checkpoint[run] \cup {pair}
      /\ \A r \in Run \ {run} : checkpoint'[r] = checkpoint[r]
  BY <1>1, <1>2, <1>3, <1>5 DEF TypeOK
<1>7. run \in Nat /\ MaxRuns \in Nat
  BY <1>3, SpectrographyAssumption DEF Run
<1>8. \A r \in Run : Known(r) \subseteq Known(r)'
  BY <1>6, <1>7 DEF Known, Run
<1>9. TypeOK'
  <2>1. results' \subseteq [model : Model, probe : Probe, at : 1..Len(schedule'),
                            failed : BOOLEAN, score : 0..Unit]
    BY <1>1, <1>2, <1>4, <1>5 DEF TypeOK
  <2>2. phase' \in Phases /\ completed' \subseteq Pair
    BY <1>1, <1>2, <1>5 DEF TypeOK, Phases
  <2>3. QED  BY <1>1, <1>2, <1>4, <1>6, <2>1, <2>2 DEF TypeOK
<1>10. FutureOK'
  BY <1>1, <1>2, <1>6, <1>7 DEF FutureOK, Run
<1>11. LoopOK'
  <2>1. {<<x.model, x.probe>> : x \in results'}
           = {<<x.model, x.probe>> : x \in results} \cup {pair}
    <3>1. <<result.model, result.probe>> = pair  BY <1>5
    <3>2. QED  BY <1>1, <3>1
  <2>2. completed' \subseteq Known(run)'
    <3>1. pair \in Known(run)'
      BY <1>1, <1>6, <1>7, <1>3 DEF Known, Run
    <3>2. Known(run) \subseteq Known(run)'  BY <1>1, <1>3, <1>8
    <3>3. QED  BY <1>1, <1>3, <3>1, <3>2
  <2>3. \A i \in 1..(idx' - 1) : schedule'[i] \in completed'
    BY <1>1, <1>3, <1>4
  <2>4. mode' = "merge" => \A r \in Run : checkpoint'[r] \subseteq completed'
    BY <1>1, <1>3, <1>6
  <2>5. phase' # "calling" /\ phase' \notin AfterLoop
    BY <1>1 DEF AfterLoop
  <2>6. /\ run' \in Run /\ planned'[run'] = Range(schedule')
        /\ checkpoint'[run'] = {<<x.model, x.probe>> : x \in results'}
        /\ checkpoint'[run'] \subseteq completed'
    BY <1>1, <1>3, <1>6, <2>1
  <2>7. QED  BY <2>2, <2>3, <2>4, <2>5, <2>6 DEF LoopOK
<1>12. StoreOK'
  BY <1>1, <1>2 DEF StoreOK, AfterLoop
<1>13. FinishedRunIsBacked'
  <2> SUFFICES ASSUME NEW r \in Run, status'[r] \in {"partial", "complete"}
               PROVE  /\ r \in reports' /\ rows'[r] = checkpoint'[r]
                      /\ status'[r] = "complete" => planned'[r] \subseteq Known(r)'
    BY DEF FinishedRunIsBacked
  <2>1. r # run  BY <1>1, <1>2 DEF StoreOK
  <2>2. r \in reports /\ rows[r] = checkpoint[r]
        /\ (status[r] = "complete" => planned[r] \subseteq Known(r))
    BY <1>1 DEF IInv, FinishedRunIsBacked
  <2>3. QED  BY <1>1, <1>6, <1>8, <2>1, <2>2
<1>14. KillLosesOneCall'
  <2>1. Lines' = Lines \cup {<<run, pair>>} /\ <<run, pair>> \notin Lines
    <3>1. <<run, pair>> \notin Lines  BY <1>3 DEF Lines
    <3>2. <<run, pair>> \in Lines'  BY <1>3, <1>5, <1>6 DEF Lines
    <3>3. Lines \subseteq Lines'  BY <1>6 DEF Lines
    <3>4. Lines' \subseteq Lines \cup {<<run, pair>>}
      <4> SUFFICES ASSUME NEW line \in Run \X Pair, line[2] \in checkpoint'[line[1]]
                   PROVE  line \in Lines \/ line = <<run, pair>>
        BY DEF Lines
      <4>1. line = <<line[1], line[2]>> /\ line[1] \in Run  OBVIOUS
      <4>2. CASE line[1] # run  BY <1>6, <4>1, <4>2 DEF Lines
      <4>3. CASE line[1] = run
        <5>1. line[2] \in checkpoint[run] \/ line[2] = pair  BY <1>6, <4>3
        <5>2. QED  BY <4>1, <4>3, <5>1 DEF Lines
      <4>4. QED  BY <4>2, <4>3
    <3>5. QED  BY <3>1, <3>2, <3>3, <3>4
  <2>2. IsFiniteSet(Lines)
    <3>1. Lines \in SUBSET (Run \X Pair)  BY DEF Lines
    <3>2. QED  BY <3>1, PairsFinite
  <2>3. Cardinality(Lines') = Cardinality(Lines) + 1
    <3> HIDE DEF pair
    <3>1. QED  BY <2>1, <2>2, FS_AddElement
  <2>4. begun \in Nat /\ crashes \in Nat /\ Cardinality(Lines) \in Nat
    BY <1>2, LinesCount, SpectrographyAssumption DEF TypeOK
  <2>5. begun <= Cardinality(Lines) + crashes + 1
    BY <1>1, <2>4 DEF IInv, KillLosesOneCall
  <2>6. QED  BY <1>1, <2>3, <2>4, <2>5 DEF KillLosesOneCall
<1>15. QED  BY <1>9, <1>10, <1>11, <1>12, <1>13, <1>14 DEF IInv

\* The loop is left with every pair done, or for a signal.
LEMMA LeaveLoopStep == ASSUME IInv, LeaveLoop PROVE IInv'
<1>1. /\ phase = "loop" /\ (shutdown \/ idx > Len(schedule)) /\ phase' = "report"
      /\ UNCHANGED <<run, mode, writes, schedule, idx, results, completed,
                     shutdown, report, merged, checkpoint, reports>>
      /\ UNCHANGED <<profileFile, status, rows, stored, pruned, planned, begun, crashes>>
  BY DEF LeaveLoop, memory, disk, history
<1>2. TypeOK'  BY <1>1 DEF IInv, TypeOK, Phases
<1>3. FutureOK' /\ StoreOK'  BY <1>1 DEF IInv, FutureOK, StoreOK, AfterLoop, Phases
<1>4. LoopOK'  BY <1>1, SameCheckpoints DEF IInv, LoopOK
<1>5. FinishedRunIsBacked'  BY <1>1, BackedStep
<1>6. KillLosesOneCall'  BY <1>1, PaidStep
<1>7. QED  BY <1>2, <1>3, <1>4, <1>5, <1>6 DEF IInv

\* The report says what the profiles of the run would change of the file.
LEMMA ReportStep == ASSUME IInv, Report PROVE IInv'
<1>1. /\ phase = "report" /\ phase' = IF writes THEN "profiles" ELSE "store"
      /\ report' = Deltas(Profiles(results), profileFile)
      /\ reports' = reports \cup {run}
      /\ UNCHANGED <<run, mode, writes, schedule, idx, results, completed, shutdown, merged,
                     checkpoint, profileFile, status, rows, stored, pruned>>
      /\ UNCHANGED <<planned, begun, crashes>>
  BY DEF Report, WithReport, history
<1>2. /\ TypeOK /\ LoopOK /\ StoreOK /\ FutureOK /\ run \in Run
      /\ phase' \in {"profiles", "store"}
  BY <1>1 DEF IInv, LoopOK
<1>3. TypeOK'
  <2>1. DOMAIN report' \subseteq Model
    BY <1>1, <1>2 DEF TypeOK, Deltas
  <2>2. phase' \in Phases /\ reports' \subseteq Run
    BY <1>1, <1>2 DEF TypeOK, Phases
  <2>3. QED  BY <1>1, <1>2, <2>1, <2>2 DEF TypeOK
<1>4. FutureOK'  BY <1>1, <1>2 DEF FutureOK
<1>5. LoopOK'
  <2>1. phase \in AfterLoop /\ phase' \in AfterLoop  BY <1>1, <1>2 DEF AfterLoop, Phases
  <2>2. QED  BY <1>1, <2>1, LoopStep
<1>6. StoreOK'  BY <1>1, <1>2 DEF StoreOK
<1>7. FinishedRunIsBacked'  BY <1>1, BackedStep
<1>8. KillLosesOneCall'  BY <1>1, PaidStep
<1>9. QED  BY <1>3, <1>4, <1>5, <1>6, <1>7, <1>8 DEF IInv

\* The merged profiles are profiles.
LEMMA TruncateStep == ASSUME IInv, Truncate PROVE IInv'
<1>1. /\ phase = "profiles" /\ phase' = "writing"
      /\ merged' = Merge(profileFile, Profiles(results))
      /\ profileFile' = NoProfiles
      /\ UNCHANGED <<run, mode, writes, schedule, idx, results, completed, shutdown, report,
                     checkpoint, reports, status, rows, stored, pruned>>
      /\ UNCHANGED <<planned, begun, crashes>>
  BY DEF Truncate, NewProfiles, history
<1>2. TypeOK /\ LoopOK /\ StoreOK /\ FutureOK /\ run \in Run
  BY <1>1 DEF IInv, LoopOK
<1>3. TypeOK'
  <2>1. \A x \in results : x.model \in Model  BY <1>2 DEF TypeOK
  <2>2. DOMAIN merged' \subseteq Model
        /\ \A m \in DOMAIN merged' : merged'[m] \in [Dim -> 0..Unit]
    BY <1>1, <1>2, <2>1, ProfilesType, MeasuredType DEF TypeOK, Merge
  <2>3. DOMAIN profileFile' = {}  BY <1>1 DEF NoProfiles
  <2>4. \A f \in {profileFile', merged'} :
           DOMAIN f \subseteq Model /\ \A m \in DOMAIN f : f[m] \in [Dim -> 0..Unit]
    BY <2>2, <2>3
  <2>5. phase' \in Phases  BY <1>1 DEF Phases
  <2>6. QED  BY <1>1, <1>2, <2>4, <2>5 DEF TypeOK
<1>4. FutureOK'  BY <1>1, <1>2 DEF FutureOK
<1>5. LoopOK'
  <2>1. phase \in AfterLoop /\ phase' \in AfterLoop  BY <1>1 DEF AfterLoop, Phases
  <2>2. QED  BY <1>1, <2>1, LoopStep
<1>6. StoreOK'  BY <1>1, <1>2 DEF StoreOK, AfterLoop, Phases
<1>7. FinishedRunIsBacked'  BY <1>1, BackedStep
<1>8. KillLosesOneCall'  BY <1>1, PaidStep
<1>9. QED  BY <1>3, <1>4, <1>5, <1>6, <1>7, <1>8 DEF IInv

\* The file has the merged profiles.
LEMMA FillStep == ASSUME IInv, Fill PROVE IInv'
<1>1. /\ phase = "writing" /\ phase' = "store" /\ profileFile' = merged
      /\ UNCHANGED <<run, mode, writes, schedule, idx, results, completed, shutdown, report,
                     merged, checkpoint, reports, status, rows, stored, pruned>>
      /\ UNCHANGED <<planned, begun, crashes>>
  BY DEF Fill, memory, history
<1>2. TypeOK /\ LoopOK /\ StoreOK /\ FutureOK /\ run \in Run
  BY <1>1 DEF IInv, LoopOK
<1>3. TypeOK'  BY <1>1, <1>2 DEF TypeOK, Phases
<1>4. FutureOK'  BY <1>1, <1>2 DEF FutureOK
<1>5. LoopOK'
  <2>1. phase \in AfterLoop /\ phase' \in AfterLoop  BY <1>1 DEF AfterLoop, Phases
  <2>2. QED  BY <1>1, <2>1, LoopStep
<1>6. StoreOK'  BY <1>1, <1>2 DEF StoreOK, AfterLoop, Phases
<1>7. FinishedRunIsBacked'  BY <1>1, BackedStep
<1>8. KillLosesOneCall'  BY <1>1, PaidStep
<1>9. QED  BY <1>3, <1>4, <1>5, <1>6, <1>7, <1>8 DEF IInv

\* A step of _store_to_sqlite, committed or swallowed: the disk it does not write
\* and the memory are as before.
StoreFrame ==
    /\ phase \in {"store", "rows", "stored", "complete"}
    /\ phase' \in {"rows", "stored", "complete", "prune"}
    /\ UNCHANGED <<run, mode, writes, schedule, idx, results, completed, shutdown, report,
                   merged, checkpoint, reports, profileFile, pruned>>
    /\ UNCHANGED <<planned, begun, crashes>>

LEMMA StoreStep ==
    ASSUME IInv, StoreFrame,
           status' \in [Run -> {"none", "running", "partial", "complete"}],
           rows' \in [Run -> SUBSET Pair], stored' \in [Model -> 0..MaxRuns],
           \A r \in Run \ {run} : status'[r] = status[r] /\ rows'[r] = rows[r],
           phase' \in {"stored", "complete"} => rows'[run] = checkpoint[run],
           phase' # "prune" => status'[run] \in {"none", "running"},
           status'[run] = "partial" => rows'[run] = checkpoint[run],
           status'[run] = "complete" => rows'[run] = checkpoint[run]
                                        /\ planned[run] \subseteq Known(run)
    PROVE  IInv'
<1>1. /\ TypeOK /\ LoopOK /\ StoreOK /\ FutureOK /\ run \in Run /\ run \in reports
      /\ FinishedRunIsBacked /\ phase # "calling" /\ phase \in AfterLoop /\ phase' \in AfterLoop
  BY DEF StoreFrame, IInv, LoopOK, StoreOK, AfterLoop, Phases
<1>2. TypeOK'
  <2>1. phase' \in Phases  BY DEF StoreFrame, Phases
  <2>2. QED  BY <1>1, <2>1 DEF StoreFrame, TypeOK
<1>3. FutureOK'  BY <1>1, FutureStep DEF StoreFrame
<1>4. LoopOK'  BY <1>1, LoopStep DEF StoreFrame
<1>5. StoreOK'  BY <1>1 DEF StoreFrame, StoreOK, AfterLoop, Phases
<1>6. FinishedRunIsBacked'
  <2> SUFFICES ASSUME NEW r \in Run, status'[r] \in {"partial", "complete"}
               PROVE  /\ r \in reports' /\ rows'[r] = checkpoint'[r]
                      /\ status'[r] = "complete" => planned'[r] \subseteq Known(r)'
    BY DEF FinishedRunIsBacked
  <2>1. checkpoint' = checkpoint /\ planned' = planned /\ reports' = reports
    BY DEF StoreFrame
  <2>2. CASE r = run  BY <1>1, <2>1, <2>2, SameCheckpoints
  <2>3. CASE r # run  BY <1>1, <2>1, <2>3, SameCheckpoints DEF FinishedRunIsBacked
  <2>4. QED  BY <2>2, <2>3
<1>7. KillLosesOneCall'  BY <1>1, PaidStep DEF StoreFrame
<1>8. QED  BY <1>2, <1>3, <1>4, <1>5, <1>6, <1>7 DEF IInv

\* A run that records its end: what it had to cover is covered, unless it was cut.
LEMMA CompleteIsCovered ==
    ASSUME IInv, phase = "complete", ~shutdown
    PROVE  planned[run] \subseteq Known(run)
<1>1. /\ planned[run] = Range(schedule) /\ completed \subseteq Known(run)
      /\ \A i \in 1..(idx - 1) : schedule[i] \in completed
      /\ idx > Len(schedule)
  BY DEF IInv, LoopOK, AfterLoop, Phases
<1>2. schedule \in Seq(Pair) /\ idx \in Nat /\ Len(schedule) \in Nat
      /\ DOMAIN schedule = 1..Len(schedule)
  BY LenProperties DEF IInv, TypeOK
<1>3. Range(schedule) \subseteq completed
  BY <1>1, <1>2 DEF Range
<1>4. QED  BY <1>1, <1>3

LEMMA StoreSteps ==
    ASSUME IInv, StoreStart \/ StoreRows \/ StoreProfiles \/ StoreComplete \/ StoreFails
    PROVE  IInv'
<1>1. TypeOK /\ LoopOK /\ StoreOK  BY DEF IInv
<1>2. /\ status \in [Run -> {"none", "running", "partial", "complete"}]
      /\ rows \in [Run -> SUBSET Pair] /\ stored \in [Model -> 0..MaxRuns]
      /\ checkpoint \in [Run -> SUBSET Pair]
  BY <1>1 DEF TypeOK
<1>3. ASSUME phase \in {"store", "rows", "stored", "complete"}
      PROVE  /\ run \in Run /\ run \in 0..MaxRuns /\ status[run] \in {"none", "running"}
             /\ checkpoint[run] = {<<x.model, x.probe>> : x \in results}
             /\ phase \in {"stored", "complete"} => rows[run] = checkpoint[run]
  BY <1>1, <1>3 DEF LoopOK, StoreOK, TypeOK
<1>4. CASE StoreStart
  <2>1. phase = "store" /\ phase' = "rows" /\ status' = [status EXCEPT ![run] = "running"]
        /\ rows' = rows /\ stored' = stored /\ StoreFrame
    BY <1>4 DEF StoreStart, StoreFrame, memory, history
  <2>2. /\ status' \in [Run -> {"none", "running", "partial", "complete"}]
        /\ status'[run] = "running" /\ \A r \in Run \ {run} : status'[r] = status[r]
    BY <1>2, <1>3, <2>1
  <2>3. QED  BY <1>2, <2>1, <2>2, StoreStep
<1>5. CASE StoreRows
  <2>1. phase = "rows" /\ phase' = "stored"
        /\ rows' = [rows EXCEPT ![run] = {<<r.model, r.probe>> : r \in results}]
        /\ status' = status /\ stored' = stored /\ StoreFrame
    BY <1>5 DEF StoreRows, StoreFrame, memory, history
  <2>2. /\ rows' \in [Run -> SUBSET Pair]
        /\ rows'[run] = checkpoint[run] /\ \A r \in Run \ {run} : rows'[r] = rows[r]
    BY <1>2, <1>3, <2>1
  <2>3. QED  BY <1>2, <1>3, <2>1, <2>2, StoreStep
<1>6. CASE StoreProfiles
  <2>1. phase = "stored" /\ phase' = "complete" /\ status' = status /\ rows' = rows
        /\ stored' = [m \in Model |-> IF m \in Measured(results) THEN run ELSE stored[m]]
        /\ StoreFrame
    BY <1>6 DEF StoreProfiles, StoreFrame, memory, history
  <2>2. stored' \in [Model -> 0..MaxRuns]
    BY <1>2, <1>3, <2>1
  <2>3. QED  BY <1>2, <1>3, <2>1, <2>2, StoreStep
<1>7. CASE StoreComplete
  <2>1. phase = "complete" /\ phase' = "prune"
        /\ status' = [status EXCEPT ![run] = FinalStatus]
        /\ rows' = rows /\ stored' = stored /\ StoreFrame
    BY <1>7 DEF StoreComplete, StoreFrame, memory, history
  <2>2. /\ FinalStatus \in {"partial", "complete"}
        /\ FinalStatus = "complete" => ~shutdown
    BY DEF FinalStatus
  <2>3. /\ status' \in [Run -> {"none", "running", "partial", "complete"}]
        /\ status'[run] = FinalStatus /\ \A r \in Run \ {run} : status'[r] = status[r]
    BY <1>2, <1>3, <2>1, <2>2
  <2>4. QED  BY <1>2, <1>3, <2>1, <2>2, <2>3, StoreStep, CompleteIsCovered
<1>8. CASE StoreFails
  <2>1. phase \in {"store", "rows", "stored", "complete"} /\ phase' = "prune"
        /\ status' = status /\ rows' = rows /\ stored' = stored /\ StoreFrame
    BY <1>8 DEF StoreFails, StoreFrame, memory, disk, history
  <2>2. QED  BY <1>2, <1>3, <2>1, StoreStep
<1>9. QED  BY <1>4, <1>5, <1>6, <1>7, <1>8

\* The process is gone, at the end of a run or in the middle of one.
LEMMA EndStep ==
    ASSUME IInv, NoProcess, phase # "idle",
           UNCHANGED <<run, checkpoint, reports, profileFile, status, rows, stored>>,
           UNCHANGED <<planned, begun>>, pruned' \subseteq Model,
           \/ phase # "calling" /\ crashes' = crashes
           \/ crashes' = crashes + 1 /\ crashes < MaxCrashes
    PROVE  IInv'
<1>1. /\ phase' = "idle"
      /\ mode' = "fresh" /\ writes' = FALSE /\ schedule' = <<>> /\ idx' = 1
      /\ results' = {} /\ completed' = {} /\ shutdown' = FALSE
      /\ report' = NoProfiles /\ merged' = NoProfiles
  BY DEF NoProcess
<1>2. TypeOK /\ FutureOK /\ crashes \in Nat /\ MaxCrashes \in Nat
      /\ begun \in Nat /\ Cardinality(Lines) \in Nat
  BY LinesCount, SpectrographyAssumption DEF IInv, TypeOK
<1>3. TypeOK'
  <2>1. schedule' \in Seq(Pair) /\ Len(schedule') = 0 /\ idx' \in 1..(Len(schedule') + 1)
    BY <1>1
  <2>2. DOMAIN report' \subseteq Model /\ DOMAIN merged' = {}
    BY <1>1 DEF NoProfiles
  <2>3. \A f \in {profileFile', merged'} :
           DOMAIN f \subseteq Model /\ \A m \in DOMAIN f : f[m] \in [Dim -> 0..Unit]
    BY <1>2, <2>2 DEF TypeOK
  <2>4. phase' \in Phases /\ mode' \in Modes /\ crashes' \in 0..MaxCrashes
    BY <1>1, <1>2 DEF Phases, Modes, TypeOK
  <2>5. QED  BY <1>1, <1>2, <2>1, <2>2, <2>3, <2>4 DEF TypeOK
<1>4. FutureOK' /\ LoopOK' /\ StoreOK'
  BY <1>1, <1>2 DEF FutureOK, LoopOK, StoreOK, AfterLoop
<1>5. FinishedRunIsBacked'  BY BackedStep
<1>6. KillLosesOneCall'
  <2>1. begun <= Cardinality(Lines) + crashes + (IF phase = "calling" THEN 1 ELSE 0)
    BY DEF IInv, KillLosesOneCall
  <2>2. begun <= Cardinality(Lines) + crashes'
    BY <1>2, <2>1
  <2>3. crashes' \in Nat  BY <1>2
  <2>4. QED  BY <1>1, <1>2, <2>2, <2>3, SameCheckpoints DEF KillLosesOneCall
<1>7. QED  BY <1>3, <1>4, <1>5, <1>6 DEF IInv

LEMMA PruneStep == ASSUME IInv, Prune PROVE IInv'
<1>1. pruned' \subseteq Model
  BY DEF IInv, TypeOK, Prune, Unreachable
<1>2. QED  BY <1>1, EndStep DEF Prune, history

LEMMA CrashStep == ASSUME IInv, Crash PROVE IInv'
<1>1. pruned' \subseteq Model
  BY DEF IInv, TypeOK, Crash, disk
<1>2. QED  BY <1>1, EndStep DEF Crash, disk

\* Nothing changes.
LEMMA IdleStep == ASSUME IInv, UNCHANGED vars PROVE IInv'
<1>1. /\ UNCHANGED <<phase, run, mode, writes, schedule, idx, results, completed,
                     shutdown, report, merged, checkpoint, reports>>
      /\ UNCHANGED <<profileFile, status, rows, stored, pruned, planned, begun, crashes>>
  BY DEF vars, memory, disk, history
<1>2. TypeOK'  BY <1>1 DEF IInv, TypeOK
<1>3. FutureOK' /\ StoreOK'  BY <1>1 DEF IInv, FutureOK, StoreOK
<1>4. LoopOK'  BY <1>1, SameCheckpoints DEF IInv, LoopOK
<1>5. FinishedRunIsBacked'  BY <1>1, BackedStep
<1>6. KillLosesOneCall'  BY <1>1, SameCheckpoints DEF IInv, KillLosesOneCall
<1>7. QED  BY <1>2, <1>3, <1>4, <1>5, <1>6 DEF IInv

THEOREM Invariance == Spec => []IInv
<1>1. ASSUME IInv, [Next]_vars PROVE IInv'
  <2>1. CASE \E option \in Options, from \in Run : Start(option, from)
    BY <1>1, <2>1, StartStep
  <2>2. CASE Progress
    <3>1. CASE Skip  BY <1>1, <3>1, SkipStep
    <3>2. CASE Begin  BY <1>1, <3>2, BeginStep
    <3>3. CASE LeaveLoop  BY <1>1, <3>3, LeaveLoopStep
    <3>4. CASE Report  BY <1>1, <3>4, ReportStep
    <3>5. CASE Truncate  BY <1>1, <3>5, TruncateStep
    <3>6. CASE Fill  BY <1>1, <3>6, FillStep
    <3>7. CASE StoreStart \/ StoreRows \/ StoreProfiles \/ StoreComplete \/ StoreFails
      BY <1>1, <3>7, StoreSteps
    <3>8. CASE Prune  BY <1>1, <3>8, PruneStep
    <3>9. CASE Finish(TRUE, 0)
      <4>1. 0 \in 0..Unit  BY SpectrographyAssumption
      <4>2. QED  BY <1>1, <3>9, <4>1, FinishStep
    <3>10. CASE \E score \in 0..Unit : Finish(FALSE, score)
      BY <1>1, <3>10, FinishStep
    <3>11. QED
      BY <2>2, <3>1, <3>2, <3>3, <3>4, <3>5, <3>6, <3>7, <3>8, <3>9, <3>10 DEF Progress
  <2>3. CASE Signal  BY <1>1, <2>3, SignalStep
  <2>4. CASE Crash  BY <1>1, <2>4, CrashStep
  <2>5. CASE UNCHANGED vars  BY <1>1, <2>5, IdleStep
  <2>6. QED  BY <1>1, <2>1, <2>2, <2>3, <2>4, <2>5 DEF Next
<1>2. QED  BY <1>1, InitIInv, PTL DEF Spec

-----------------------------------------------------------------------------
(* The theorems.                                                           *)

\* The state of the process, of the files and of the database is well typed, the
\* profiles in memory and in the configuration file with a score between 0 and 1
\* for every dimension.
THEOREM TypeCorrect == Spec => []TypeOK
<1>1. IInv => TypeOK  BY DEF IInv
<1>2. QED  BY <1>1, Invariance, PTL

\* A run the database calls finished has its report and the rows of its
\* checkpoint, and a complete one left no pair out.
THEOREM BackedTheorem == Spec => []FinishedRunIsBacked
<1>1. IInv => FinishedRunIsBacked  BY DEF IInv
<1>2. QED  BY <1>1, Invariance, PTL

\* A kill loses no more than the evaluation in progress.
THEOREM LossTheorem == Spec => []KillLosesOneCall
<1>1. IInv => KillLosesOneCall  BY DEF IInv
<1>2. QED  BY <1>1, Invariance, PTL

\* A run that merges the checkpoints never pays again for a pair with a line.
THEOREM PaidTheorem == Spec => PaidOnce
<1>1. IInv => (Begin /\ mode = "merge" => \A r \in Run : schedule[idx] \notin checkpoint[r])
  BY DEF IInv, LoopOK, Begin
<1>2. QED  BY <1>1, Invariance, PTL DEF Spec, PaidOnce

\* The distance of two scores has no direction.
LEMMA DeltaSymmetric ==
    ASSUME NEW a \in Int, NEW b \in Int PROVE Delta(a, b) = Delta(b, a)
BY DEF Delta

\* What a profile write changes of the file was announced by the run's report.
THEOREM AnnouncedTheorem == Spec => WritesAreAnnounced
<1>1. ASSUME IInv, Truncate PROVE Announced(profileFile, merged', report)
  <2> DEFINE new == Profiles(results)
  <2>1. /\ TypeOK /\ report = Deltas(new, profileFile)
        /\ merged' = Merge(profileFile, new)
    BY <1>1 DEF IInv, StoreOK, Truncate, NewProfiles
  <2>2. \A x \in results : x.model \in Model  BY <2>1 DEF TypeOK
  <2>3. DOMAIN new = Measured(results) /\ \A m \in DOMAIN new : new[m] \in [Dim -> 0..Unit]
    BY <2>2, ProfilesType
  <2> SUFFICES ASSUME NEW m \in DOMAIN profileFile
               PROVE  /\ m \in DOMAIN merged'
                      /\ m \notin Measured(results) => merged'[m] = profileFile[m]
                      /\ m \in DOMAIN report => \A d \in Dim :
                            report[m][d] = "confirm" =>
                                Delta(profileFile[m][d], merged'[m][d]) <= Confirm
    BY DEF Announced
  <2> HIDE DEF new
  <2>4. m \in DOMAIN merged' /\ (m \notin DOMAIN new => merged'[m] = profileFile[m])
        /\ (m \in DOMAIN new => merged'[m] = new[m])
    BY <2>1 DEF Merge
  <2>5. ASSUME m \in DOMAIN report, NEW d \in Dim, report[m][d] = "confirm"
        PROVE  Delta(profileFile[m][d], merged'[m][d]) <= Confirm
    <3>1. m \in DOMAIN new /\ report[m][d] = Recommend(Delta(new[m][d], profileFile[m][d]))
      BY <2>1, <2>5 DEF Deltas
    <3>2. Delta(new[m][d], profileFile[m][d]) <= Confirm
      BY <2>5, <3>1 DEF Recommend
    <3>3. new[m][d] \in Int /\ profileFile[m][d] \in Int
      <4>1. profileFile[m] \in [Dim -> 0..Unit]  BY <2>1 DEF TypeOK
      <4>2. QED  BY <2>3, <2>5, <3>1, <4>1
    <3>4. QED  BY <2>4, <3>1, <3>2, <3>3, DeltaSymmetric
  <2>6. QED  BY <2>3, <2>4, <2>5
<1>2. IInv => (Truncate => Announced(profileFile, merged', report))
  BY <1>1
<1>3. QED  BY <1>2, Invariance, PTL DEF Spec, WritesAreAnnounced
=============================================================================
