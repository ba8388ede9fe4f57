# dragonlight-router in TLA+

This directory is a model of the parts of dragonlight-router whose correctness
depends on the order of events: what several processes share through SQLite,
what several tasks share on one event loop, what survives a restart, and what a
call may do between two awaits. The modules are translated from the code under
`src/src/dragonlight_router/`; where a comment below names a file, it is
relative to that directory. TLC checks small instances of every module; for the
core modules TLAPS proves the safety properties for every value of the constants.

## 1. The system

A router process holds one `RouterEngine` (router.py). It answers requests for a
ranking of models, or dispatches a prompt itself: it *selects* backends (MBR by
capability, CBR by cost, LBR by rate), *ranks* them, and *cascades* through them
until one answers. On the side it keeps track of the health of models and the
budget of providers, probes its backends in a loop, and refreshes the catalog of
models. Several processes (factory runs, a sidecar) share three SQLite files.

| component | state it keeps | operations | how it interacts |
|---|---|---|---|
| Circuit breaker (health/circuit_breaker.py) | state, error timestamps, `_opened_at`, jittered cooldown | allow_request, record_success, record_error, get_state, restore_state | HealthTracker has one per model, which every call reports to, every score asks and a shutdown saves; HealthCheckLoop has one per backend, which it asks before each probe and never saves |
| Model retirement and suspension (health/tracker.py, health_db.py) | per process: retired, suspended with TTL, 403 counts, suspended providers; shared: retired_models, suspended_models | record_error(status), is_retired, reinstate_model, pruning | written by every dispatch that fails, read by selection and by the cascade before each attempt; shared with other processes |
| Rate limiter (rate/limiter.py) | rate_slots: id, key, acquired_at, expires_at | acquire, release, get_usage | shared by processes; a process may die holding slots |
| Budget tracker (budget/tracker.py) | request_log per provider | has_capacity, check_and_reserve, record_request, cleanup, score | read by LBR, reserved by pinned calls, written after successes, by all processes |
| Health check loop and backend status (health/check_loop.py, core/registry.py, core/state.py, router.py, server/routes.py) | `BackendState.status`, the loop's breakers, SLO violation counts | probe cycle, refresh with auth failures, retire, reinstate | loop, refreshes and administrator all write the same field, around awaits |
| Cascade dispatch (dispatch/cascade.py) | per call: ranking, position, fallback chain, attempts | dispatch, dispatch_stream, route | reads selection and health, records to health and budget |
| Pinned dispatch (dispatch/pinned.py) | per call: reservation, pieces of the answer | preflight, reserve, call, record | one backend, no fallback; records to health and budget |
| Provider adapters (adapters/) | a status, which the probe reads once health_check has set it (check_loop.py:232) | generate, generate_with_tools, health_check | HTTP to one provider; retries, time-outs, streams |
| Selection (selection/) | none but scores | mbr, cbr, lbr, interleave, scoring | reads health, budget, status, catalog, before and after an await |
| Intent routing and feedback (selection/ibr.py, classifier.py, spectrograph.py, feedback.py) | a cache of classifications, declared profiles with the mtime of their file, learned scores in SQLite | classify, reload, merge, record_feedback | awaited in the middle of a dispatch; another process rewrites the profiles |
| Spectrography (spectrography/) | checkpoints, reports, the profile file, a database | a run: schedule, ask and judge, checkpoint, report, write, store, prune | a command of its own; feeds intent routing and the role matrix |
| Catalog (catalog/) | a JSON file with TTL | get, set, refresh of all providers | refreshes overlap: scheduled by selections, the loop, the administrator |
| Role matrix (roles/) | two JSON files, a copy in memory with its mtime | seed, decay, mark, blend, reload | rewritten by refreshes, by the spectrography runner and the command line |
| Caches (caching/) | SQLite tables | get, put, evict | not configured in production |
| Router engine, persistence, configuration | singleton, snapshots | construction, save_state, restore | |
| HTTP server, benchmark, command line | metrics | | see PROJECT.json |

### What is hard

- **Late outcomes.** Calls are long; trips, recoveries, suspensions and whole
  refreshes happen between their start and their outcome.
- **Read before an await, used after it.** The loop reads a status, awaits a
  probe and writes; a dispatch filters, awaits the classification and ranks;
  refreshes apply in any order.
- **Several processes, one file.** Check and insert must be one transaction;
  read and delete in two transactions are not; clocks are read before locks.
- **Three sources, one answer.** `is_retired` asks two dictionaries, a provider
  suspension and a database, which expire and are corrected separately.
- **Restarts.** Snapshots may be arbitrarily old or fail to be written.
- **Paths with their own bookkeeping.** An attempt of a cascade can end in six
  ways (an answer, one that is too short, one without its tools, a named error,
  one that escapes, a caller who leaves), a pinned call in as many, and each
  updates chain, health and budget differently.
- **Files without a rename.** Matrix and profiles are truncated and filled while
  others read their text and then their mtime.
- **Expensive work that is interrupted.** A measuring run pays for every call, is
  killed, resumed, and writes its results to four places one after the other.

### What makes the components correct

- A breaker is open for the whole cooldown, trips only on real errors of the
  last window, and is left again; that of the loop closes once its backend answers.
- A model answered with 404 or 410 stays out everywhere; a suspension lasts no
  longer than was earned.
- Slots and reservations stay within their limits over all processes, whatever
  crashes or comes late; what overshoots is bounded; a day's count is complete.
- Status follows the probes: degraded means slow, healthy backends come back,
  failing ones are found out, an accepted key is restored.
- A call tries all it may before it fails, and no more than it may; it asks
  nobody who is out, accounts for its attempts, and ends.
- Selection refuses only what nobody could serve, leaves out the loaded first,
  and never ranks a candidate behind one that is worse in everything.
- A request is scored for an intent that was given for its own message; ratings
  count whole; a changed profile file is noticed.
- A measuring run loses at most the call in progress, pays for nothing twice,
  and calls itself finished only when its rows and its report are there.

## 2. Modules

| module | models | kind |
|---|---|---|
| `BreakerOps` | the methods of one CircuitBreaker as operators on a record | operators |
| `CircuitBreaker` | the breaker of a model in the health tracker, the dispatches that report to it, the clock, restarts | state machine |
| `AvailabilityPromise` | who is out, as the calls of one process may rely on | abstract specification |
| `ModelAvailability` | HealthTracker and HealthDB in several processes; implements `AvailabilityPromise` for each | state machine |
| `RateLimiter` | acquire and release in several processes | state machine |
| `BudgetTracker` | the request log of one provider, cascading and pinned callers | state machine |
| `HealthCheckLoop` | backend status and its writers; embeds `BreakerOps` (its names begin with Loop) | composition |
| `CandidateSelection` | tiers, gates, scores, load and the interleaved list, while what they read changes (Selection...) | state machine |
| `PinnedCall` | pinned calls and their adapters, which share budget and health | composition |
| `IntentRouting` | the intent stage, its cache, the profile file and the feedback store (Intent...) | state machine |
| `SpectrographyScores` | profiles, ranks and deltas as operators | operators |
| `Spectrography` | runs of the command, their files and their database; extends `SpectrographyScores` | state machine |
| `DispatchPromise` | what a dispatch promises | abstract specification |
| `CascadeDispatch` | the calls of the cascade, with `AvailabilityPromise` for the health tracker; implements `DispatchPromise` | composition |
| `MatrixLifecycle` | the matrix and lifecycle files, the copy in memory, the router and the command | state machine |
| `MC*` | instances for TLC: model values, symmetry | |
| `*Proofs` | theorems; `BreakerProofs` is about `CircuitBreaker` and `HealthCheckLoop`, `RankingProofs` about `MatrixLifecycle`, `IntentRouting` and `CandidateSelection` | |

Modules that one proof module extends together need names of their own, hence
`LoopSpec`, `IntentSpec` and `SelectionSpec`.

### How state and actions correspond to the code

**Time** is kept as ages or as time left, never as a clock: the code only ever
compares `now - instant` with a duration. An age stops where no comparison can
tell it from a larger one, so no bound on the clock is needed. The clock is
taken not to run backwards.

**CircuitBreaker.** `breaker` is the object that HealthTracker keeps. `Begin` is a
dispatch, which never asks it; `Succeed`, `Fail` and `Abandon` (cancelled, or ended by
an error that escapes: nobody is told) end one at any later time. `Consult` is
`allow_request` as `HealthTracker.score` calls it, for a decision of which nobody
reports the outcome. `Restart` is the shutdown (save may fail), the crash and the boot
with a new jitter. The breakers of the health loop are other objects, with one probe
at a time and no snapshot: they are in `HealthCheckLoop`.

**ModelAvailability.** `RecordFailure` is `record_error` with a status: one step,
because it runs without an await and commits one statement. `Check` is
`is_retired`, which prunes what it finds expired; the database row is read in
one transaction and deleted in another, so `Prune` is a step of its own and other
processes may write in between. `Restart` loses the dictionaries.
`View(p)` is the refinement mapping: gone is what process p or the database has as
retired, suspended what any of the three sources has with time left. The step of
`AvailabilityPromise` that each action may be is named (`KeepsAvailability`): a prune or
a restart of another process may only be a suspension that ends.

**RateLimiter.** `Ask` reads the clock, `Decide` is the IMMEDIATE transaction,
with a clock that lags by up to `MaxDelay`; `GiveUp` is the lock timeout;
`Release` deletes a row, `Crash` forgets the slots and leaves their rows.

**BudgetTracker.** `Select` is the gate of LBR, `AttemptSucceeds` and
`AttemptFails` are attempts of a fallback chain; `Preflight`, `Reserve`,
`PinnedSucceeds` and `PinnedFails` are the pinned path, which reserves a row and
then records another. `Restart` runs the cleanup of the constructor. The four
reads of `has_capacity` are one step here.

**HealthCheckLoop.** `BeginProbe` reads status and breaker before the await,
`EndProbe` writes after it, and `EndCycle` is what the loop does when all probes
of the cycle are in. `Ask`, `Answer` and `Apply` split a refresh into request,
response and effect, so that refreshes overtake each other. `Retire` and
`Reinstate` are the administrator's requests. The liveness properties are about backends
left to the probes: neither retired nor without a valid key (`LeftToProbes`).

**CascadeDispatch.** A call gives way at the classification of the intent and at
the request to a backend, so `Submit` and `Rank` are before and after the
classification, and `Fail`, `Answer`, `AnswerShort` and `AnswerWithoutTools` are
the ways a request ends; each includes what the loop does up to the next request
(`GoOn`: skip who is out, append to the chain, ask, or give up). `Cancel` is a
caller that goes away, `Escape` an error of a kind the loop does not name, such as a
connection that breaks: it leaves the cascade, so nothing is recorded and the rest of
the ranking is not tried. Who is out is the state of `AvailabilityPromise`: a failure
of the call is one of its steps (`Health!Fail`), and `Elsewhere` is any of them, taken
by other calls and processes. That this is all that can happen to a process is what
is proved of `ModelAvailability`.

**CandidateSelection.** `Submit` is `_run_cascade` up to its await: the tiers of
`_resolve_tiers_to_try`, capabilities, status, retirement, trust and cost ceiling.
`Rank` is what comes after it: both sorts, the penalty, the gate and the median.
`SelectModels` is the ranked list of a role; what scores equal comes in any
order, as in a set. `UsageChanges`, `HealthChanges`, `StatusChanges`,
`SpendChanges` and `CatalogChanges` are the other components, at any time.
A provider has two names, which may differ: the key of its adapter (`ProviderOf`), under
which a dispatch asks for its budget, and its name in the configuration (`NameOf`), under
which the budget is kept and `SelectModels` asks. An order larger than any context window
(`Window`) is refused by everybody.
A score is an integer and a weight counts hundredths: prices and shares are
rounded; `SelectionAssumption` has the prices far enough apart that the rounding
keeps their order, which the floats of the code do for any. Filtering and sorting
say which place an element comes to (`Nth`, `Arranged`), without recursion, so
that they can be reasoned about; `Rounds` has what is placed and what remains after
each round of the loop that interleaves, as a function of the number of rounds.

**PinnedCall.** `Submit` is `_pinned_preflight`, which takes a daily limit of 0 for no
request; `Reserve` is the transaction of `check_and_reserve`, which takes it for
unlimited; `Ask` is a request of the adapter. `ErrorStatus`, `TimeOut`, `Break` and
`Unreadable` are the failures the adapters tell apart (a body of unexpected shape may end
in an error that nobody names), `Piece` is a chunk, `Complete` the end of the body. An adapter is a record of what the
dispatch can see of it: how often it tries, whether it has a way to use tools,
whether it wraps every transport error, whether it needs a key. `Leave` is a
client that goes away or a worker that is killed; `OtherCall` is what a cascade
records in the same log.

**IntentRouting.** `Arrive` asks the cache; `Check`, `Read` and `Stat` are the
three system calls of `reload_if_changed`, which hold the event loop; `Answer`
and `Escape` end the classification, `Score` runs after it with what is loaded by
then. `BeginWrite` and `EndWrite` are a writer in another process. `Rate` and
`Commit` are `record_feedback` and its transaction per dimension.

**Spectrography.** `Start` is a command line; `Begin` and `Finish` surround the
two calls of an evaluation, and `Finish` includes the checkpoint line. `Report`,
`Truncate`, `Fill`, `StoreStart`, `StoreRows`, `StoreProfiles`, `StoreComplete`
and `Prune` are the steps of `_generate_spectrography_reports`, one per file
access or transaction; `StoreFails` is the exception that `_store_to_sqlite`
swallows between any two. `Signal` only sets a flag; `Crash` is a kill or an
exception that no handler names.

**MatrixLifecycle.** `Boot` is the construction, `Refresh` a background refresh
from the response on: `Diff`, `Merge`, `SaveRanks`, `SaveLifecycle`, `Decay` and
`SaveDecay` are the reads and writes of `_sync_matrix_lifecycle`, with `Load` and
`Stamp` (the text, then the mtime) where it reloads; `Select` reloads before a
ranking. Each file access is a step, because `UpdateReads`, `UpdateOpens` and
`UpdateWrites`, the command `matrix update`, run in another process. The file is
empty from the truncation to the write; if the router renames its own file over
it meanwhile, the command writes into one that is no longer in the directory.
A comparison of mtimes is a flag, as every write makes the file newer.

## 3. Runs

| run | question | result |
|---|---|---|
| breaker | cooldown and error accounting of the tracker's breaker, through crashes and late outcomes; is an open one left? | holds |
| availability | do retirements hold and suspensions end on time, in all processes? is a provider put out by counted 403s only? does each process see `AvailabilityPromise`? | holds |
| availability_shared | does a suspension hold in all processes? | refuted: the late DELETE of an expired row |
| limiter | live slots within the limit; somebody served though nobody releases | holds |
| budget | how far limits are passed; is the count of the day complete? | holds |
| loop | is the status of a settled backend, neither retired nor without a key, found again and again? is an accepted key restored for good? does the circuit of a backend that answers close for good? | holds |
| dispatch | exhaustion, accounts, policy, the promise; is anybody asked who is out by then? does every call end? | holds |
| lifecycle | is what is gone taken out in the end, and what is there put in, through crashes, failed saves and a second writer? | holds |
| selection | is a refusal earned, the loaded half left, the better one first, however state changes around the await? are stakes only raised, repeats left for the tail, and is nobody lost by interleaving? | holds |
| pinned | do budget and health hear of each call the right number of times? is an answer that of one attempt? does a stream end once, and every call? | holds |
| intent | is an intent that of its own message, a rating whole, a changed file noticed? | holds |
| spectrography | is what is called finished backed? what does a kill lose, what is paid twice, what may a profile write change? | holds |

Every property of a run that holds has a mutant beside the definition it
changes: the bug it would catch. The refuted statement is quoted from the
repository, with its line, under "findings" in PROJECT.json. One run per
component checks everything that holds, safety and liveness together; only the
budget and availability runs, which have no liveness property, use symmetry.

Every safety property of the runs that hold is also proved for every value of
the constants (section 4); what is about liveness rests on the runs alone. Type
invariants are proved and not repeated by a run.

### Other disagreements with the documents

Met while the code was translated, and evident from reading the lines; no run
is spent on them.

- The success of a call that began before the breaker tripped takes it from OPEN
  to CLOSED (health/circuit_breaker.py:111), which the state machine of its
  docstring (line 3) does not have.
- A 429 after a 403 replaces the one entry of the model and its longer TTL
  (health/tracker.py:222), although the docstring (line 212) has the failure
  types expire independently.
- A tool answer that is rejected is recorded neither as a success nor as a
  failure (dispatch/cascade.py:898); src/docs/live-specs/dragonlight-router-v0.3.0-spec.md:180
  says every attempt is.
- A router that meets the matrix while the command rewrites it reads it as empty
  (roles/matrix.py:97, roles/lifecycle.py:149), has no ranks until the next
  request, or saves the heuristic ranks over the profile;
  src/docs/live-specs/dragonlight-router.md:158 has "no partial reads".
- `matrix seed` passes `config_path` to a function without that parameter
  (cli/matrix_cli.py), so it always fails.
- A model of the catalog that `classify_model` excludes but an operator or a
  profile has put into the matrix counts as missing and is decayed
  (roles/lifecycle.py:199), although decay is for models "absent from the
  catalog" (line 358).
- `allow_request` answers True to every caller while half open
  (health/circuit_breaker.py:96); its module docstring (line 5) and
  src/docs/hazard-register.md:178 speak of one probe.
- `HealthDB.reinstate_model` deletes the row of retired_models only
  (health/health_db.py:141), so a suspended model stays out, although the
  tracker's docstring (health/tracker.py:288) says "retired or suspended".
- The gate of the cascade and its record are two steps, so two calls share the
  last place of a minute (selection/lbr.py:43); src/docs/hazard-register.md:66
  claims the race is closed, which holds for `check_and_reserve` alone.
  `OvershootIsBounded` says by how much a limit can be passed.
- A daily limit of 0 is no requests in `has_capacity` and no limit in
  `_has_capacity_in_txn` (budget/tracker.py:630), whose docstring (line 606) says
  "Same logic". A pinned call passes the first check before the second, so that the
  difference reaches nobody.
- The cascade does not skip backends that were retired over HTTP: selection/mbr.py:247
  looks for CIRCUIT_OPEN and KEY_INVALID only, and dispatch/cascade.py asks the health
  tracker, which does not know; src/docs/api-reference.md:249 says "The cascade skips
  retired backends until they are explicitly reinstated."
- The health loop probes retired backends and writes their status over
  (health/check_loop.py:313), after which pinned calls, which do look at the status, admit
  them again and reinstate answers "not found"; core/registry.py:87 has "excluding it from
  all routing". The properties of the loop are about backends that are not retired.
- A grant of the limiter is counted while its row lives, which release deletes
  (rate/limiter.py:292) and pruning takes after 30 s (line 348): more requests than the limit
  fit into a minute, against "cannot exceed the 60 RPM limit"
  (src/docs/design/factory-router-service-boundary.md:141).
- The matrix is saved before the lifecycle file (roles/lifecycle.py:330): after a crash in
  between, a seeded model never gets the entry that line 253 promises.
- roles/matrix.py:97 and selection/spectrograph.py:219 read the text and then the mtime:
  a write in between is not noticed until the next one, although both files are said to be
  hot-reloaded (src/docs/configuration.md:109,
  src/docs/live-specs/intent-based-router-v0.1.0-spec.md:395).  `ReloadCatchesUp` excludes
  this case by name.
- `--resume` loads the checkpoint of the run that is just starting, which is empty
  (spectrography/runner.py:832), so everything is measured again; src/docs/spectrography.md:183
  has "Use `--resume` on the next run to continue from where it stopped".  The audit of
  benchmark/calibration_audit.py does the same.
- Failures of the judge count as errors of the model (spectrography/runner.py:954), so an
  outage of the judge takes the models it was to judge out of the matrix; and failed
  evaluations are checkpointed, so a resumed or merging run does not try them again.
- A kill between truncation and write leaves an empty profile file; the next run merges into
  nothing (spectrography/lifecycle.py:279) and what it does not measure is lost.
- The decay of stale profiles (IBR-FLV-06) has no caller in production.
- A transport error of httpx (a connection that breaks in the middle of an answer) is none
  of the exceptions that the intent stage names (selection/classifier.py:372), nor pinned
  dispatch: it ends the request, although selection/ibr.py:82 has "Never raises" and
  dispatch/cascade.py:326 "must NEVER block or fail the cascade".  Only the Google and
  local adapters wrap it.
- Nor does the cascade name it (dispatch/cascade.py:1119, 1462): it ends the call at the
  first backend that raises it, with no record and no entry in the chain, although
  src/docs/hazard-register.md:82 has "tries every candidate in ranked order before
  returning failure".  This is the action `Escape`.
- A time-out in the middle of a streamed answer is tried again from the start
  (adapters/_openai_compat.py:300), so the caller gets the beginning twice;
  `AnswerIsOneAttempt` excludes this case by name.
- The confidence gate looks at the profile of the first candidate only (selection/ibr.py:162).
- `POST /v1/flavor-profiles` changes the loader of the server (server/routes.py:1043), not the
  file; `RouterEngine.record_ibr_feedback` and both `configure_cache` functions have no caller
  in production, so nothing is learned and nothing cached by default.
- The weights of the stakes are always listed, so that `spectrograph_match_weight` of the
  configuration (src/docs/configuration.md:91) is never reached (dispatch/cascade.py:363), and
  the scores differ from the default weights also with the intent stage off
  (src/docs/configuration.md:69: "identically to v0.3.0").
- `filter_by_cost` keeps "at least one" by its docstring (selection/cbr.py:64) and returns the
  empty list when no provider has budget; it has no exception for LOCAL backends, which
  "MUST bypass all health and rate-limit checks"
  (src/docs/live-specs/dragonlight-router-v0.3.0-spec.md:131).
- The health score is asked for config.model (selection/scoring.py:345) and kept under the
  name of the backend (dispatch/cascade.py:806); a streamed pinned call is recorded under
  config.model (dispatch/pinned.py:446).
- The budget is kept by the provider names of the configuration and asked by adapter keys
  (router.py:687), so where the two differ no limit and no cost ceiling applies.
- `_resolve_tiers_to_try` tries the requested tier and all above it, and `_try_tiers` collects
  them; their docstrings have "the next tier" and "returning the first"
  (selection/mbr.py:117, 140).
- Interleaving places the best of those it can place (selection/interleave.py:121); the
  docstring of `_build_interleaved` (line 84) has "a most-frequent-first strategy".
- An empty catalog filters nobody out of `select_models`; the docstring of `_get_live_catalog`
  (router.py:847) says it filters out all.
- A 404 of the Google or local adapter is raised as a RuntimeError without a status
  (adapters/google.py:199, adapters/local.py:125), so it never retires a model.
- A pinned call is counted twice in the budget when it succeeds, by its reservation and by its
  record, and keeps its reservation when it fails (dispatch/pinned.py:212, 447); `BooksBalance`
  states this as it is.
- A background refresh that finds a key accepted does not clear key_invalid
  (router.py:1299; src/docs/api-reference.md:185 reads it as the last refresh).
- A tool answer that is rejected is not appended to the chain
  (dispatch/cascade.py:1112), so `was_fallback` may be False after a fallback
  (src/docs/live-specs/dragonlight-router.md:432).

### Bounds, and why they are enough

- *Breaker*: threshold 2, window 3, cooldown 2, jitter 1, two dispatches at once. Two
  errors distinguish counting from tripping; the window is longer than the cooldown, so
  that old errors outlive a whole open period; either dispatch's outcome may come late
  while the other trips, and a third would do what one of these does again.
- *Availability*: two processes, two models of one provider; all races are of
  two parties, and the second model only carries the provider's count of 403s
  (threshold 2). The TTLs differ where the order of expiry matters. That a failure
  puts out no model of another provider needs two of them: it is proved only.
- *Limiter*: limit 2, three slots, TTL 2, lag up to 2. Every slot id is reused
  when nobody has it, as a uuid would be new; the third lets the limit be passed
  by an acquire that is late, and one key has no limit.
- *Budget*: one provider, one place per minute, two per day, three callers, five
  rows; the day is 3 ticks long and a minute one, so that rows leave the minute,
  the day and the log at different ticks.
- *Loop*: one backend, as backends share nothing but the provider's key, with one
  refresher of each kind. Violation limit 3, as in the code, and breaker threshold 2
  (3 in the code, in a window of four probes; here of two), so that a breaker trips
  before, at and after the degradation.
- *Dispatch*: one call and three backends: the first,
  a middle one and the last are all different cases of the loop, and two tiers
  make the policies differ. Two are of one provider, so that a failure can put out
  a sibling, and one is alone. Other calls act on a call only through who is out,
  which changes as `AvailabilityPromise` lets it; the proofs are for any
  number of calls.

- *Selection*: six backends of four providers and all four tiers, so that every tier
  but one holds several, one provider has three models, one a limit of 0, and one is
  known to the tracker under its name in the configuration only; one order exceeds every
  context window; seven orders for each category, tool use and trust; two
  changes between or around the halves of a dispatch, which suffices for each half to
  see a different value. Ratings and prices are chosen so that candidates tie and
  dominate each other.
- *Pinned*: two requests, a provider with one place and an adapter that tries three
  times, one with two places and an adapter that tries once; two pieces per answer
  (the code bounds them by max_tokens = 4096), and one call of a cascade. The
  model is of one minute: leaving the window is in `BudgetTracker`.
- *Intent*: two requests and two messages for a cache of one entry that expires at
  once, one rating, one restart, one rewrite of the file with or without a new mtime
  (the clock of the file system ticks more slowly than writes come). One model: models
  meet in no comparison here.
- *Spectrography*: two models, two probes that share one of three dimensions, two runs
  of four command lines, one kill. A second run can resume, merge or start anew after
  whatever the first left; ranks among two models are exact on a scale of two.
- *Lifecycle*: one model in two roles, with heuristic ranks 40 and 20, so that it
  leaves one role a decay earlier than the other; two faults and two uses of the
  command, so that each can follow the other. Models meet only in whether
  anything was seeded or decayed at all; the proofs are for any number of them.

### Fairness, and why the code justifies it

Only the liveness properties use fairness. Time passes. The event loop runs what is
ready, so a cycle that has slept starts again and a probe that is in is handled.
Requests end, by the timeouts of their adapters at the latest. SQLite gives the
lock or times out (busy_timeout). A process that has read an expired row goes on
to delete it. A stopped process is started again (breaker and lifecycle). The catalog expires
and is refreshed, in turn with the requests (strong fairness: a selection that
reloads comes in between). No caller has
to release a slot, no provider has to answer well, no administrator to come:
where a property needs that, it says so as a premise (AskersAreServed,
HealthyIsRestored, CircuitRecovers, KeyIsRestored). A dispatch does not ask the tracker's
breaker, and its failures renew the cooldown, so an open breaker is left only if such calls
stop; and nobody probes it, so only if scores go on being asked for. Both are premises of
`OpenIsLeft`, and no fairness is assumed of either. The breakers of the loop are asked by
its probes, which the event loop runs (`CircuitRecovers`). The await of a dispatch ends in one of the
ways a request ends, an error that escapes among them (`AwaitEnds`); which one is left
open. A pinned call goes on because each request has a time-out. A writer that
truncated the profile file fills it, and callers
go on to send requests: without one nothing reloads. `CandidateSelection` has no liveness
property and no fairness, since neither half waits for anything; nor has `Spectrography`,
whose run goes through a finite schedule.

## 4. Proofs

All theorems are about the specification without fairness, and for every value
of the constants that satisfies the named assumptions (thresholds and durations
positive, sets of slots, rows or backends finite, and the like). Each proof
follows one pattern: an inductive invariant, checked by TLC before it is proved,
a lemma per action, a theorem that the invariant holds, and a theorem per
property. The invariants `IInv`, `IntentInv` and `SelectionInv` and the lemmas are
in the proof modules.

| module | theorems | why the invariant is more than the property |
|---|---|---|
| `BreakerProofs`, on `CircuitBreaker` | TypeCorrect, CooldownTheorem, ErrorsTheorem, EarnedTheorem | a restart goes back to the snapshot, so the snapshot satisfies its own version of each property, and both say how old `_opened_at` is, which is what the code compares; a trip is earned because the errors that are kept are real, distinct and inside the window |
| `BreakerProofs`, on `HealthCheckLoop` | LoopTypeCorrect, ProbeTheorem, DegradedTheorem | where a probe is under way the breaker has admitted it, and outcomes of that backend come from that probe only |
| `ModelAvailabilityProofs` | TypeCorrect, GoneTheorem, SuspensionTheorem, CountTheorem, AvailabilityTheorem, ViewTheorem | the properties speak of the answer of is_retired, the invariant of its three sources: each holds at most the time still due, and the database has every model that is gone; the refinement has a lemma per action that says what it does to the two sets as one process sees them |
| `RateLimiterProofs` | TypeCorrect, LimitTheorem, UsedTheorem | a clock that lies behind sees rows younger than they are, so it counts every live slot and prunes none; and nobody's slot is granted twice |
| `BudgetTrackerProofs` | TypeCorrect, ReservationTheorem, DayTheorem, OvershootTheorem | rows of the day grow with inserts only, a cleanup takes rows older than a day, and all leave together at midnight; every request over the limit belongs to an attempt that passed the gate while there was room, so requests and open attempts are counted together, as a cardinality of tokens |
| `CascadeDispatchProofs` | TypeCorrect, ExhaustionTheorem, PolicyTheorem, AccountTheorem, LookTheorem, HealthTheorem, PromiseTheorem | what lies before the position of a call in its ranking was asked or was out, what was asked does not lie behind it, and the ranking names nobody twice; from the last two follows that nobody is asked again, which the refinement of DispatchPromise needs; the health tracker has heard of whom was asked, but for the one at the position of a call that goes on, was cancelled or raised |
| `PinnedCallProofs` | TypeCorrect, BooksTheorem, AttemptTheorem, StreamTheorem | each call stands in one phase, and the phase says which of reservation, record and outcome it has made; the books are a sum over the calls, kept by changing one term per step; a call that comes to the reservation has a limit other than 0, which the two checks read differently |
| `SpectrographyProofs` | TypeCorrect, BackedTheorem, LossTheorem, PaidTheorem, AnnouncedTheorem | what a run has in memory, in its checkpoint and in its report grows in that order, and the step it is at says how far each has come; at most the evaluation that has begun is paid for and in none of them |
| `RankingProofs`, on `MatrixLifecycle` | TypeCorrect, NotMissedTheorem | what the router goes on to is part of the state: only a refresh has the decay ahead of it, and comes to it through the save that has just cleared the counts |
| `RankingProofs`, on `IntentRouting` | IntentTypeCorrect, AnsweredTheorem, RatingsTheorem | entries of the cache are for different messages and hold what was said of theirs; the samples of a model's tables differ by the transactions of the rating in progress, and by one for each restart |
| `RankingProofs`, on `CandidateSelection` | SelectionTypeCorrect, EscalationTheorem, RefusalTheorem, LoadedTheorem, BetterTheorem, TailTheorem, ListingTheorem | the work is in the lists: the places of a strict order on a finite set are 1, 2, ... (an injection into as many places is onto), so arranging loses and repeats nothing; sorting moves a candidate only past lower keys; the best budget is never below the median; and a sum of products with positive weights is monotone, in integers, with the halving of the degraded exact; and the rounds of interleaving, by induction over their number, have everybody either placed once or among those who remain in order, and repeat a provider only when no other remains |

The theorems on `TripsAreEarned`, `UsedIsCounted`, `NothingAskedWhileOut`,
`PaidOnce`, `WritesAreAnnounced`, `RefusalIsEarned`, `LoadedIsLeft`,
`BetterRanksFirst`, `ListingIsWhole` and `KeepsAvailability` are about steps: what
no step of the specification ever does.

The induction over the rounds is written out: a set of natural numbers that has 0
and with each number the next one has them all (lemma `Induction`), since the
library's theorem takes an operator. That a function with the recursive definition
exists is a lemma too (`RoundsExist`).

Two theorems compose the health tracker with the cascade. `ViewTheorem` has the
store of all processes implement `AvailabilityPromise` for each of them;
`CascadeDispatch` is built on its actions, and `HealthTheorem` has the calls and
everything `Elsewhere` keep to it. A restart is a step of the promise that the
cascade does not take: it ends the calls of its process.

What stays with TLC:

- everything about liveness: the prover has no rules for fairness and ENABLED;
- the statement that is refuted.

## 5. Not modelled

- `get_usage` of the limiter prunes in a transaction it never commits; it
  changes nothing.
- The in-memory modes of HealthTracker and BudgetTracker: RouterEngine always
  gives them a database. The budget snapshot, which only that mode reads.
- Errors of SQLite other than a lock timeout in `acquire`.
- The four reads of has_capacity are separate transactions; they are one step
  here, which leaves out that a request of another process is seen by the later
  reads only. The gate is not atomic with the request either way.
- The clock that `record_request` reads before it waits for the lock
  (budget/tracker.py:509): reading and insert are one step, so a row is never older than
  its place in the log. A pinned call of a provider that the tracker does not know is in
  `CandidateSelection` only, as an adapter key.
- Two writes of the matrix within one tick of the file system's clock: there every write
  makes the file newer (`IntentRouting` has both).
- Spectrography runs that overlap, which nothing in `run_spectrography` prevents
  (spectrography/runner.py:803): they would pay for a pair twice, and each would overwrite
  what the other wrote between its own read and write. Nobody else writes the profile file
  between the deltas (runner.py:1045) and the write (runner.py:928); the three files of a
  report are one step; scores are not rounded to four digits (spectrography/analyzer.py:606).
- `HealthTracker.reinstate_model` is modelled, but has no caller in production.
- The marks of the lifecycle: `mark_spectrography_complete` has no caller, and
  `mark_models_unreachable` works on the files under config/, which the router
  copies once; `auto_populate_matrix`, whose command always fails. Weights other
  than the default 0.7 and decay rates other than one half.
- Start and stop of the health loop.
- In the cascade: the response cache (off), token and cost arithmetic, the tokens
  a stream has already delivered when its backend fails. Its requests to a backend
  have no time-out but that of the adapter.
- Rounding: scores are integers here and floating-point numbers there; an order
  that hangs on the last digits is not checked.
- `context_filter.py`: it filters fields of the system context that no order of the
  server fills, and leaves structured messages alone.
- The texts of prompts, probes, reports and answers, and the validation of an answer
  of the classifier: the models have the answers that pass and one that does not.
- The refusal of a pinned call's order before the preflight (empty messages), and tool
  answers whose calls are dropped by `/v1/dispatch`: formats.
- Everything marked `not_modelled` in PROJECT.json, with the reason there.

Liveness under fairness is beyond the prover used.

## 6. Plan

1. The catalog file with its TTL and the merge of its providers, if the router ever
   depends on more of it than the names.
2. A second promise, of the budget to the gate of `CandidateSelection`, as
   `AvailabilityPromise` is one of the health tracker to the cascade: there the usage of
   a provider changes in any way.
