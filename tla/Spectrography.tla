---------------------------- MODULE Spectrography ----------------------------
(***************************************************************************)
(* Runs of the spectrography command (spectrography/runner.py) against one *)
(* output directory, one configuration directory and one database          *)
(* (spectrography/storage.py).                                             *)
(*                                                                         *)
(* A run asks a judged question of every model for every probe, appends    *)
(* each result to its own checkpoint file, and at the end writes a report, *)
(* optionally the profiles the router reads, the rows of the database and  *)
(* the list of models to take out of the role matrix.  A run can be        *)
(* signalled at any moment, killed at any moment, or ended by an exception *)
(* that no handler names; what is on disk stays, what is in memory goes.   *)
(***************************************************************************)
EXTENDS Integers, Sequences, FiniteSets, SequencesExt, SpectrographyScores

CONSTANTS
    Model,        \* model ids
    Probes,       \* the probe bank, a sequence
    Options,      \* the command lines: mode, --write-profiles, and the models that have an
                  \* adapter, in the order of their ids
    Score,        \* Score[p]: the normalized scores a judge gives answers to p
    MinResults,   \* results a model needs before it can be pruned
    MaxRuns,      \* bound: runs started
    MaxCrashes    \* bound: kills and escaped exceptions

Probe == Range(Probes)
Pair == Model \X Probe
Run == 1..MaxRuns
Modes == {"fresh", "resume", "resume_from", "merge"}

ASSUME SpectrographyAssumption ==
    /\ IsFiniteSet(Model) /\ Probes \in Seq(Probe)
    /\ Unit \in Nat /\ MaxRuns \in Nat /\ MaxCrashes \in Nat
    /\ \A option \in Options :
          /\ option.mode \in Modes /\ option.writes \in BOOLEAN
          /\ option.models \in Seq(Model) \ {<<>>}

\* A file that declares nothing: missing, empty, or not a mapping.
NoProfiles == [m \in {} |-> [d \in Dim |-> Neutral]]
NoRun == 0

VARIABLES
    phase,        \* where the process is: "idle" when there is none
    run,          \* RunState.run_id: the number of the current run, 0 before the first
    mode,         \* which of the resume options the run was given
    writes,       \* --write-profiles
    schedule,     \* _SpectrographySetup.schedule
    idx,          \* position in the schedule
    results,      \* RunState.results
    completed,    \* RunState.completed_pairs
    shutdown,     \* RunState.shutdown_requested
    report,       \* the recommendations of the run's calibration deltas
    merged,       \* the profiles about to be written to the configuration
    checkpoint,   \* checkpoint[r]: the lines of run r's checkpoint.jsonl
    reports,      \* the runs that have a report.json
    profileFile,  \* config/model_spectrograph_profiles.yaml
    status,       \* spectrography_runs.status
    rows,         \* spectrography_probe_results, by run
    stored,       \* spectrography_profiles: the run each model's rows come from
    pruned,       \* models taken out of the role matrix
    planned,      \* history: the pairs each run had to cover
    begun,        \* history: evaluations begun
    crashes       \* history: kills and escaped exceptions

memory == <<mode, writes, schedule, idx, results, completed, shutdown, report, merged>>
disk == <<checkpoint, reports, profileFile, status, rows, stored, pruned>>
history == <<planned, begun, crashes>>
vars == <<phase, run, memory, disk, history>>

-----------------------------------------------------------------------------

\* _interleaved_schedule: every model gets a probe before the next probe starts.
Interleaved(models) ==
    LET n == Len(models)
    IN  [i \in 1..(n * Len(Probes)) |->
            <<models[((i - 1) % n) + 1], Probes[((i - 1) \div n) + 1]>>]

\* Mutant: a merging run looks for checkpoints in its own directory only.
OwnDirectory(m, from) ==
    IF m = "resume_from" THEN checkpoint[from] ELSE checkpoint[run + 1]

\* _merge_all_checkpoints, _load_checkpoint of one run, and, for --resume, the
\* checkpoint of the run that is just starting, which has no line yet.
Skipped(m, from) ==
    CASE m = "merge"       -> UNION {checkpoint[r] : r \in Run}
      [] m = "resume_from" -> checkpoint[from]
      [] m = "resume"      -> checkpoint[run + 1]
      [] OTHER             -> {}

\* The process and its memory are gone.
NoProcess ==
    /\ phase' = "idle"
    /\ mode' = "fresh" /\ writes' = FALSE /\ schedule' = <<>> /\ idx' = 1
    /\ results' = {} /\ completed' = {} /\ shutdown' = FALSE
    /\ report' = NoProfiles /\ merged' = NoProfiles

Init ==
    /\ phase = "idle" /\ run = NoRun
    /\ mode = "fresh" /\ writes = FALSE /\ schedule = <<>> /\ idx = 1
    /\ results = {} /\ completed = {} /\ shutdown = FALSE
    /\ report = NoProfiles /\ merged = NoProfiles
    /\ checkpoint = [r \in Run |-> {}]
    /\ reports = {}
    /\ profileFile = [m \in Model |-> [d \in Dim |-> Neutral]]
    /\ status = [r \in Run |-> "none"]
    /\ rows = [r \in Run |-> {}]
    /\ stored = [m \in Model |-> NoRun]
    /\ pruned = {}
    /\ planned = [r \in Run |-> {}]
    /\ begun = 0 /\ crashes = 0

\* _setup_spectrography: the models whose adapter could be created are scheduled.
\* With no such model, or without the judge, the command refuses to start.
Start(option, from) ==
    /\ phase = "idle" /\ run < MaxRuns
    /\ option.mode = "resume_from" => from \in 1..run
    /\ option.mode # "resume_from" => from = 1
    /\ run' = run + 1
    /\ phase' = "loop"
    /\ mode' = option.mode /\ writes' = option.writes
    /\ schedule' = Interleaved(option.models)
    /\ idx' = 1 /\ results' = {} /\ shutdown' = FALSE
    /\ report' = NoProfiles /\ merged' = NoProfiles
    /\ completed' = Skipped(option.mode, from)
    /\ planned' = [planned EXCEPT ![run'] = Range(schedule')]
    /\ UNCHANGED <<disk, begun, crashes>>

\* SIGINT or SIGTERM: only a flag, read between two pairs and by the database step.
Signal ==
    /\ phase # "idle" /\ ~shutdown
    /\ shutdown' = TRUE
    /\ UNCHANGED <<phase, run, mode, writes, schedule, idx, results, completed,
                   report, merged, disk, history>>

\* A pair that is already completed is passed over.
Skip ==
    /\ phase = "loop" /\ ~shutdown /\ idx <= Len(schedule)
    /\ schedule[idx] \in completed
    /\ idx' = idx + 1
    /\ UNCHANGED <<phase, run, mode, writes, schedule, results, completed,
                   shutdown, report, merged, disk, history>>

\* The pacing delay and the calls to the model and to the judge begin.
Begin ==
    /\ phase = "loop" /\ ~shutdown /\ idx <= Len(schedule)
    /\ schedule[idx] \notin completed
    /\ phase' = "calling"
    /\ begun' = begun + 1
    /\ UNCHANGED <<run, memory, disk, planned, crashes>>

\* Mutant: failed evaluations leave no line, so that they can be tried again.
ValidOnly(result) == IF result.failed THEN {} ELSE {schedule[idx]}

\* _append_checkpoint writes a line for every result, also for a failed one.
Line(result) == {schedule[idx]}

\* _evaluate_probe: a silent model and a silent or unreadable judge give a result
\* with an error, whose score nothing reads; both count as completed.
Finish(failed, score) ==
    LET result == [model |-> schedule[idx][1], probe |-> schedule[idx][2],
                   at |-> idx, failed |-> failed, score |-> score]
    IN  /\ phase = "calling"
        /\ failed \/ score \in Score[result.probe]
        /\ results' = results \cup {result}
        /\ completed' = completed \cup {schedule[idx]}
        /\ checkpoint' = [checkpoint EXCEPT ![run] = @ \cup Line(result)]
        /\ idx' = idx + 1
        /\ phase' = "loop"
        /\ UNCHANGED <<run, mode, writes, schedule, shutdown, report, merged, reports,
                       profileFile, status, rows, stored, pruned, history>>

\* The loop is over: the schedule is done or a shutdown was asked for.
LeaveLoop ==
    /\ phase = "loop"
    /\ shutdown \/ idx > Len(schedule)
    /\ phase' = "report"
    /\ UNCHANGED <<run, memory, disk, history>>

\* _write_json_report, _write_markdown_summary, in the run's own directory.
WithReport == reports \cup {run}

Report ==
    /\ phase = "report"
    /\ report' = Deltas(Profiles(results), profileFile)
    /\ reports' = WithReport
    /\ phase' = IF writes THEN "profiles" ELSE "store"
    /\ UNCHANGED <<run, mode, writes, schedule, idx, results, completed, shutdown,
                   merged, checkpoint, profileFile, status, rows, stored, pruned,
                   history>>

\* Mutant: the run's profiles replace the whole file.
OverwriteAll(existing, new) == new

NewProfiles(existing, new) == Merge(existing, new)

\* _write_config_profiles loads and merges, then write_text truncates the file ...
Truncate ==
    /\ phase = "profiles"
    /\ merged' = NewProfiles(profileFile, Profiles(results))
    /\ profileFile' = NoProfiles
    /\ phase' = "writing"
    /\ UNCHANGED <<run, mode, writes, schedule, idx, results, completed, shutdown,
                   report, checkpoint, reports, status, rows, stored, pruned, history>>

\* ... and fills it.
Fill ==
    /\ phase = "writing"
    /\ profileFile' = merged
    /\ phase' = "store"
    /\ UNCHANGED <<run, memory, checkpoint, reports, status, rows, stored, pruned,
                   history>>

\* record_run_start commits before the rows are there.
StoreStart ==
    /\ phase = "store"
    /\ status' = [status EXCEPT ![run] = "running"]
    /\ phase' = "rows"
    /\ UNCHANGED <<run, memory, checkpoint, reports, profileFile, rows, stored,
                   pruned, history>>

\* store_probe_results_batch, one transaction.
StoreRows ==
    /\ phase = "rows"
    /\ rows' = [rows EXCEPT ![run] = {<<r.model, r.probe>> : r \in results}]
    /\ phase' = "stored"
    /\ UNCHANGED <<run, memory, checkpoint, reports, profileFile, status, stored,
                   pruned, history>>

\* store_profiles_batch: every dimension of a measured model is replaced.
StoreProfiles ==
    /\ phase = "stored"
    /\ stored' = [m \in Model |-> IF m \in Measured(results) THEN run ELSE stored[m]]
    /\ phase' = "complete"
    /\ UNCHANGED <<run, memory, checkpoint, reports, profileFile, status, rows,
                   pruned, history>>

\* Mutant: the status forgets that the loop was cut short.
AlwaysComplete == "complete"

FinalStatus == IF shutdown THEN "partial" ELSE "complete"

\* record_run_complete
StoreComplete ==
    /\ phase = "complete"
    /\ status' = [status EXCEPT ![run] = FinalStatus]
    /\ phase' = "prune"
    /\ UNCHANGED <<run, memory, checkpoint, reports, profileFile, rows, stored,
                   pruned, history>>

\* _store_to_sqlite swallows every exception: the steps before it stay committed.
StoreFails ==
    /\ phase \in {"store", "rows", "stored", "complete"}
    /\ phase' = "prune"
    /\ UNCHANGED <<run, memory, disk, history>>

\* _prune_unreachable_models: MinResults results of this run and 95 % errors, the
\* judge's failures among them.
Unreachable ==
    {m \in Model :
        LET mine == {r \in results : r.model = m}
            bad  == {r \in mine : r.failed}
        IN  /\ Cardinality(mine) >= MinResults
            /\ Cardinality(bad) * 100 >= Cardinality(mine) * 95}

Prune ==
    /\ phase = "prune"
    /\ pruned' \in {pruned, pruned \cup Unreachable}
    /\ NoProcess
    /\ UNCHANGED <<run, checkpoint, reports, profileFile, status, rows,
                   stored, history>>

\* A kill at any moment, or an exception the adapter does not wrap (a transport
\* error of httpx), which _collect_streaming_response does not catch.
Crash ==
    /\ phase # "idle" /\ crashes < MaxCrashes
    /\ crashes' = crashes + 1
    /\ NoProcess
    /\ UNCHANGED <<run, disk, planned, begun>>

\* What a run does by itself.
Progress ==
    \/ Skip \/ Begin \/ LeaveLoop \/ Report \/ Truncate \/ Fill \/ StoreStart
    \/ StoreRows \/ StoreProfiles \/ StoreComplete \/ StoreFails \/ Prune
    \/ Finish(TRUE, 0)
    \/ \E score \in 0..Unit : Finish(FALSE, score)

Next ==
    \/ \E option \in Options, from \in Run : Start(option, from)
    \/ Progress
    \/ Signal
    \/ Crash

Spec == Init /\ [][Next]_vars

-----------------------------------------------------------------------------

\* The type invariant.
Phases == {"idle", "loop", "calling", "report", "profiles", "writing", "store", "rows",
           "stored", "complete", "prune"}
TypeOK ==
    /\ phase \in Phases
    /\ run \in 0..MaxRuns /\ mode \in Modes /\ writes \in BOOLEAN
    /\ schedule \in Seq(Pair) /\ idx \in 1..(Len(schedule) + 1)
    /\ results \subseteq [model : Model, probe : Probe, at : 1..Len(schedule),
                          failed : BOOLEAN, score : 0..Unit]
    /\ completed \subseteq Pair /\ shutdown \in BOOLEAN
    /\ \A f \in {profileFile, merged} :
          DOMAIN f \subseteq Model /\ \A m \in DOMAIN f : f[m] \in [Dim -> 0..Unit]
    /\ checkpoint \in [Run -> SUBSET Pair] /\ rows \in [Run -> SUBSET Pair]
    /\ status \in [Run -> {"none", "running", "partial", "complete"}]
    /\ DOMAIN report \subseteq Model /\ reports \subseteq Run
    /\ stored \in [Model -> 0..MaxRuns] /\ pruned \subseteq Model
    /\ planned \in [Run -> SUBSET Pair] /\ begun \in Nat /\ crashes \in 0..MaxCrashes

\* The pairs that the runs up to r have a line for.
Known(r) == UNION {checkpoint[q] : q \in 1..r}

\* A run the database calls finished has its report and the rows of exactly its
\* checkpointed results, and one it calls complete left no pair of its schedule
\* without a line in some checkpoint (_run_probe_loop, _store_to_sqlite).
FinishedRunIsBacked ==
    \A r \in Run :
        /\ status[r] \in {"partial", "complete"} =>
              r \in reports /\ rows[r] = checkpoint[r]
        /\ status[r] = "complete" =>
              planned[r] \subseteq Known(r)

\* Every evaluation that was begun has its line in a checkpoint, but for the one
\* in progress and one for each run that was killed (_append_checkpoint runs
\* after every pair).
Lines == {line \in Run \X Pair : line[2] \in checkpoint[line[1]]}
KillLosesOneCall ==
    begun <= Cardinality(Lines) + crashes + (IF phase = "calling" THEN 1 ELSE 0)

\* A run that merges the checkpoints never pays again for a pair that any run has
\* a line for, the failed ones included (_merge_all_checkpoints).
PaidOnce ==
    [][Begin /\ mode = "merge" => \A r \in Run : schedule[idx] \notin checkpoint[r]]_vars

\* What a profile write changes of the file was announced by the report of that
\* run: a model the run has no valid result of keeps its entry, and a dimension
\* reported "confirm" moves by no more than the threshold (merge_incremental,
\* compute_calibration_deltas).
Announced(before, after, advice) ==
    \A m \in DOMAIN before :
        /\ m \in DOMAIN after
        /\ m \notin Measured(results) => after[m] = before[m]
        /\ m \in DOMAIN advice => \A d \in Dim :
              advice[m][d] = "confirm" => Delta(before[m][d], after[m][d]) <= Confirm
WritesAreAnnounced ==
    [][Truncate => Announced(profileFile, merged', report)]_vars
=============================================================================
