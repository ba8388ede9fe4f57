---------------------------- MODULE IntentRouting ----------------------------
(***************************************************************************)
(* The intent stage of a dispatch (selection/ibr.py): a request is         *)
(* classified by a model (selection/classifier.py) while the declared      *)
(* profiles are reloaded from their file (selection/spectrograph.py), and  *)
(* the learned profiles (selection/feedback.py) are laid over them.        *)
(*                                                                         *)
(* Requests run on one event loop: between two awaits nothing of the       *)
(* router runs, but another process (the spectrography command, an editor) *)
(* may rewrite the file between any two system calls of a reload.          *)
(*                                                                         *)
(* The three tables of a profile are one function of the dimensions; an    *)
(* intent names its task, its domain and its quality or speed, in this     *)
(* order.                                                                  *)
(***************************************************************************)
EXTENDS Integers, Sequences, FiniteSets, SequencesExt, FiniteSetsExt

CONSTANTS
    Model,         \* model ids
    Candidates,    \* the candidates of a request after filtering, in order
    Dim,           \* dimensions of the three tables together
    Table,         \* Table[d]: "task", "domain" or "qs"
    Intents,       \* what a classifier can answer: records dims, sure
    Unit,          \* the score 1.0
    Full,          \* _FULL_CONFIDENCE_SAMPLES, the confidence 1.0
    Trusted,       \* profile_confidence_threshold on the scale of Full
    Feedback,      \* the ratings callers give: records model, dims, rating in 1..5
    Contents,      \* what writers put into the profile file
    Broken,        \* a text that is not YAML
    Request,       \* requests in flight
    Message,       \* operator messages
    Ttl, MaxEntries,                 \* of the classification cache
    MaxWrites,     \* bound: the last mtime of the file
    MaxFeedback,   \* bound: ratings
    MaxCrashes     \* bound: restarts of the router

\* What the classifier says when asked with a message.
Said(i, msg) == [of |-> msg, dims |-> i.dims, sure |-> i.sure]
NoIntent == [of |-> "nothing", dims |-> <<>>, sure |-> FALSE]
Neutral == [score |-> Unit \div 2, conf |-> 0, n |-> 0]
NoProfiles == [m \in {} |-> [d \in Dim |-> Neutral]]
Free == "free"

Dims == Dim \X Dim \X Dim
InOrder(dims) ==
    Table[dims[1]] = "task" /\ Table[dims[2]] = "domain" /\ Table[dims[3]] = "qs"

ASSUME IntentAssumption ==
    /\ \A i \in Intents : i.dims \in Dims /\ InOrder(i.dims) /\ i.sure \in BOOLEAN
    /\ \A given \in Feedback : /\ given.model \in Model /\ given.rating \in 1..5
                             /\ given.dims \in Dims /\ InOrder(given.dims)
    /\ \A c \in Contents \ {Broken} :
          DOMAIN c \subseteq Model
          /\ \A m \in DOMAIN c : \A d \in Dim \cap DOMAIN c[m] : c[m][d] \in 0..Unit
    /\ IsFiniteSet(Dim) /\ Message # {} /\ Free \notin Request
    /\ {Unit, Full, Ttl, MaxWrites, MaxFeedback, MaxCrashes} \subseteq Nat
    /\ MaxEntries \in Nat \ {0}

VARIABLES
    file,       \* content and mtime of model_spectrograph_profiles.yaml
    filling,    \* what a writer that truncated the file is about to write
    loaded,     \* SpectrographProfileLoader._profiles of the engine
    seen,       \* _mtime of the engine's loader
    text,       \* what the reload in progress has read
    learned,    \* feedback_scores: score and sample count of model and dimension
    halfway,    \* the rating a crash or the next commit will find half recorded
    pc,         \* where each request is
    loop,       \* the request that holds the event loop, or Free
    message,    \* the request's operator_message
    intent,     \* the request's classification, and (history) what message it answers
    cache,      \* _ClassificationCache._entries, oldest use first
    rated,      \* history: ratings begun
    crashes     \* history: restarts

fileVars == <<file, filling>>
loaderVars == <<loaded, seen, text>>
feedbackVars == <<learned, halfway, rated>>
requestVars == <<pc, loop, message, intent>>
intentVars == <<fileVars, loaderVars, feedbackVars, requestVars, cache, crashes>>

-----------------------------------------------------------------------------
(* Profiles *)

\* _parse_profiles: a declared dimension counts as certain, the others are neutral.
Parsed(content) ==
    [m \in DOMAIN content |-> [d \in Dim |->
        IF d \in DOMAIN content[m]
        THEN [score |-> content[m][d], conf |-> Full, n |-> 0]
        ELSE Neutral]]

\* get_learned_profiles: the models with at least one row, gaps filled as neutral.
Learned ==
    [m \in {x \in Model : \E d \in Dim : learned[x][d].n > 0} |->
        [d \in Dim |-> IF learned[m][d].n = 0 THEN Neutral ELSE learned[m][d]]]

\* _merge_dimension_scores: what was learned, but no less than 80 % of the declared.
Overlay(op, fb) ==
    IF fb.n = 0 THEN op
    ELSE [fb EXCEPT !.score = Max({fb.score, (8 * op.score) \div 10})]

\* get_merged_profiles
MergedProfiles(declared, fb) ==
    [m \in DOMAIN declared \cup DOMAIN fb |->
        IF m \notin DOMAIN fb THEN declared[m]
        ELSE IF m \notin DOMAIN declared THEN fb[m]
        ELSE [d \in Dim |-> Overlay(declared[m][d], fb[m][d])]]

\* get_profile_for_model
ProfileOf(m, profiles) ==
    IF m \in DOMAIN profiles THEN profiles[m] ELSE [d \in Dim |-> Neutral]

\* _passes_confidence_gate: of all candidates only the first one is looked at.
Confident(i, profiles) ==
    /\ i.sure
    /\ MapThenSumSet(LAMBDA d : ProfileOf(Candidates[1], profiles)[d].conf, Range(i.dims))
          >= 3 * Trusted

-----------------------------------------------------------------------------

Entry(msg, i) == [msg |-> msg, intent |-> i, age |-> 0]

IntentInit ==
    /\ \E c \in Contents \ {Broken} :
          /\ file = [content |-> c, mtime |-> 1]
          /\ loaded = Parsed(c)
    /\ filling = <<>> /\ seen = 1 /\ text = NoProfiles
    /\ learned = [m \in Model |-> [d \in Dim |-> [score |-> 0, conf |-> 0, n |-> 0]]]
    /\ halfway = <<>>
    /\ pc = [r \in Request |-> "idle"] /\ loop = Free
    /\ message = [r \in Request |-> CHOOSE msg \in Message : TRUE]
    /\ intent = [r \in Request |-> NoIntent]
    /\ cache = <<>> /\ crashes = 0
    /\ rated = 0

\* write_text of another process: the file is emptied ...  Two writes may fall
\* into one tick of the file system's clock.
BeginWrite(content) ==
    /\ filling = <<>> /\ file.mtime < MaxWrites
    /\ \E tick \in {0, 1} : file' = [content |-> NoProfiles, mtime |-> file.mtime + tick]
    /\ filling' = <<content>>
    /\ UNCHANGED <<loaderVars, feedbackVars, requestVars, cache, crashes>>

\* ... and filled.
EndWrite ==
    /\ filling # <<>>
    /\ \E tick \in {0, 1} : file' = [content |-> filling[1], mtime |-> file.mtime + tick]
    /\ filling' = <<>>
    /\ UNCHANGED <<loaderVars, feedbackVars, requestVars, cache, crashes>>

-----------------------------------------------------------------------------
(* The classification cache *)

Position(msg) == {k \in 1..Len(cache) : cache[k].msg = msg}

\* The dictionary without the key of the message.
Without(entries, msg) ==
    LET at == {k \in 1..Len(entries) : entries[k].msg = msg}
    IN  IF at = {} THEN entries ELSE RemoveAt(entries, CHOOSE k \in at : TRUE)

\* _ClassificationCache.put, _evict_if_needed
Put(entries, msg, i) ==
    LET all == Append(Without(entries, msg), Entry(msg, i))
    IN  IF Len(all) > MaxEntries THEN Tail(all) ELSE all

\* Time passes.  Ages past Ttl + 1 make no difference.
Tick ==
    /\ \E k \in 1..Len(cache) : cache[k].age <= Ttl
    /\ cache' = [k \in 1..Len(cache) |->
                    [cache[k] EXCEPT !.age = Min({@ + 1, Ttl + 1})]]
    /\ UNCHANGED <<fileVars, loaderVars, feedbackVars, requestVars, crashes>>

Ended == {"active", "inactive", "raised"}

\* run_ibr_stage begins: classify_intent asks its cache before it first awaits, and
\* the reload of the profiles runs before anything else of the router.
Arrive(r, msg) ==
    /\ pc[r] \in Ended \cup {"idle"} /\ loop = Free
    /\ message' = [message EXCEPT ![r] = msg]
    /\ LET hits == {k \in Position(msg) : cache[k].age <= Ttl}
           rest == Without(cache, msg)
       IN  \/ \E k \in hits :
                 /\ intent' = [intent EXCEPT ![r] = cache[k].intent]
                 /\ cache' = Append(rest, cache[k])
           \/ /\ hits = {}
              /\ cache' = rest
              /\ intent' = [intent EXCEPT ![r] = NoIntent]
    /\ pc' = [pc EXCEPT ![r] = "check"]
    /\ loop' = r
    /\ UNCHANGED <<fileVars, loaderVars, feedbackVars, crashes>>

\* The reload is over: a hit can be scored, a miss awaits the classifier.
Reloaded(r) ==
    /\ pc' = [pc EXCEPT ![r] = IF intent[r] = NoIntent THEN "asking" ELSE "scoring"]
    /\ loop' = Free

\* Mutant: the file is only read while nothing is loaded.
OnlyWhenEmpty == loaded = NoProfiles

Changed == file.mtime > seen

\* reload_if_changed: the modification time.
Check(r) ==
    /\ loop = r /\ pc[r] = "check"
    /\ \/ Changed /\ pc' = [pc EXCEPT ![r] = "read"] /\ UNCHANGED loop
       \/ ~Changed /\ Reloaded(r)
    /\ UNCHANGED <<fileVars, loaderVars, feedbackVars, message, intent,
                   cache, crashes>>

\* _read_yaml: the text; one that does not parse leaves no profile and no mtime.
Read(r) ==
    /\ loop = r /\ pc[r] = "read"
    /\ \/ /\ file.content = Broken
          /\ loaded' = NoProfiles
          /\ UNCHANGED text
          /\ Reloaded(r)
       \/ /\ file.content # Broken
          /\ text' = Parsed(file.content)
          /\ UNCHANGED <<loaded, loop>>
          /\ pc' = [pc EXCEPT ![r] = "stat"]
    /\ UNCHANGED <<fileVars, seen, feedbackVars, message, intent, cache, crashes>>

\* _read_yaml: getmtime, after the text was read.
Stat(r) ==
    /\ loop = r /\ pc[r] = "stat"
    /\ seen' = file.mtime
    /\ loaded' = text /\ text' = NoProfiles
    /\ Reloaded(r)
    /\ UNCHANGED <<fileVars, feedbackVars, message, intent, cache, crashes>>

\* Mutant: an answer that fails the validation is cached as well.
AnyAnswer(r, i) == cache' = Put(cache, message[r], i)

Remember(r, i) ==
    IF i = NoIntent THEN UNCHANGED cache ELSE cache' = Put(cache, message[r], i)

\* classify_intent: a valid answer; or NoIntent for an answer that does not parse or
\* validate, an error of the adapter, or the hard time-out.
Answer(r, i) ==
    /\ pc[r] = "asking" /\ loop = Free
    /\ intent' = [intent EXCEPT ![r] = i]
    /\ Remember(r, i)
    /\ pc' = [pc EXCEPT ![r] = IF i = NoIntent THEN "inactive" ELSE "scoring"]
    /\ UNCHANGED <<fileVars, loaderVars, feedbackVars, loop, message, crashes>>

\* A transport error of httpx is in none of the tuples that are caught: not in
\* _call_classifier, classify_intent, run_ibr_stage nor the cascade.
Escape(r) ==
    /\ pc[r] = "asking" /\ loop = Free
    /\ pc' = [pc EXCEPT ![r] = "raised"]
    /\ UNCHANGED <<fileVars, loaderVars, feedbackVars, loop, message, intent,
                   cache, crashes>>

\* _build_ibr_result, after the gather: with what is loaded by now.
InForce == IF Learned = NoProfiles THEN loaded ELSE MergedProfiles(loaded, Learned)

Score(r) ==
    /\ pc[r] = "scoring" /\ loop = Free
    /\ pc' = [pc EXCEPT ![r] =
                 IF Confident(intent[r], InForce) THEN "active" ELSE "inactive"]
    /\ intent' = [intent EXCEPT ![r] = NoIntent]
    /\ UNCHANGED <<fileVars, loaderVars, feedbackVars, loop, message, cache, crashes>>

-----------------------------------------------------------------------------
(* Feedback *)

\* _resolve_floor
FloorFor(op, d) == (8 * op[d].score) \div 10

\* Mutant: a rating that the floor overrules does not count as a sample.
Lifted(old, observation, floor) ==
    IF observation < floor THEN [old EXCEPT !.score = floor]
    ELSE [score |-> observation, conf |-> Min({old.n + 1, Full}), n |-> old.n + 1]

\* _update_dimension: an exponential mean, floored, one transaction.
Updated(old, observation, floor) ==
    LET score == IF old.n = 0 THEN observation ELSE (observation + 9 * old.score) \div 10
    IN  [score |-> Max({score, floor}), conf |-> Min({old.n + 1, Full}), n |-> old.n + 1]

\* record_feedback begins, with the operator's profile as it is loaded now.
Rate(given) ==
    /\ loop = Free /\ halfway = <<>> /\ rated < MaxFeedback
    /\ rated' = rated + 1
    /\ halfway' = <<[model |-> given.model, dims |-> given.dims, rating |-> given.rating,
                     op |-> IF given.model \in DOMAIN loaded THEN loaded[given.model]
                            ELSE [d \in Dim |-> [Neutral EXCEPT !.score = 0]]]>>
    /\ UNCHANGED <<fileVars, loaderVars, learned, requestVars, cache, crashes>>

\* The dimensions are committed one by one (a caller's thread; the lock is held for
\* one dimension at a time).
Commit ==
    /\ halfway # <<>>
    /\ LET h == halfway[1]
           d == Head(h.dims)
       IN  /\ learned' = [learned EXCEPT ![h.model][d] =
                             Updated(@, (h.rating * Unit) \div 5, FloorFor(h.op, d))]
           /\ halfway' = IF Len(h.dims) = 1 THEN <<>> ELSE <<[h EXCEPT !.dims = Tail(@)]>>
    /\ UNCHANGED <<fileVars, loaderVars, rated, requestVars, cache, crashes>>

-----------------------------------------------------------------------------

\* The process is gone and starts again: what was committed of a rating stays, the
\* rest of it is lost, and the profiles are loaded as at boot.
IntentCrash ==
    /\ crashes < MaxCrashes
    /\ crashes' = crashes + 1
    /\ halfway' = <<>> /\ cache' = <<>>
    /\ pc' = [r \in Request |-> "idle"] /\ loop' = Free
    /\ intent' = [r \in Request |-> NoIntent]
    /\ text' = NoProfiles
    /\ IF file.content = Broken THEN loaded' = NoProfiles /\ seen' = 0
       ELSE loaded' = Parsed(file.content) /\ seen' = file.mtime
    /\ UNCHANGED <<fileVars, learned, rated, message>>

Step(r) ==
    \/ Check(r) \/ Read(r) \/ Stat(r) \/ Score(r)
    \/ \E msg \in Message : Arrive(r, msg)
    \/ \E i \in Intents : Answer(r, Said(i, message[r]))
    \/ Answer(r, NoIntent)
    \/ Escape(r)

IntentNext ==
    \/ \E c \in Contents : BeginWrite(c)
    \/ EndWrite
    \/ Tick
    \/ \E r \in Request : Step(r)
    \/ \E given \in Feedback : Rate(given)
    \/ Commit
    \/ IntentCrash

\* A writer that began ends; a request goes on (the classifier has a hard
\* time-out), and callers keep asking.
IntentFairness ==
    /\ WF_intentVars(EndWrite)
    /\ \A r \in Request : WF_intentVars(Step(r))

IntentSpec == IntentInit /\ [][IntentNext]_intentVars /\ IntentFairness

-----------------------------------------------------------------------------

\* The type invariant.
ProfilesOK(p) ==
    /\ DOMAIN p \subseteq Model
    /\ \A m \in DOMAIN p : p[m] \in [Dim -> [score : 0..Unit, conf : 0..Full, n : Nat]]
Places == Ended \cup {"idle", "check", "read", "stat", "asking", "scoring"}
IntentTypeOK ==
    /\ file.content \in Contents \cup {NoProfiles} /\ file.mtime \in 1..(MaxWrites + 1)
    /\ Len(filling) <= 1 /\ seen \in 0..file.mtime
    /\ ProfilesOK(loaded) /\ ProfilesOK(text) /\ ProfilesOK(learned)
    /\ pc \in [Request -> Places]
    /\ loop \in Request \cup {Free} /\ message \in [Request -> Message]
    /\ \A r \in Request : intent[r].sure \in BOOLEAN
    /\ Len(cache) <= MaxEntries
    /\ \A j, k \in 1..Len(cache) : cache[j].msg = cache[k].msg => j = k

\* IBR-CLS-04: what a request is scored for is a valid answer of the classifier to this
\* very message, however requests for the same message overlap, fail, time out or find
\* the cache full.
IntentIsAnswered ==
    /\ \A r \in Request : intent[r] # NoIntent => intent[r].of = message[r]
    /\ \A k \in 1..Len(cache) : cache[k].intent.of = cache[k].msg

\* A rating counts once in each of the three tables: at any moment the tables of a model
\* differ by the rating in progress and by one for every restart.
Sampled(m, table) ==
    UNION {{d} \X (1..learned[m][d].n) : d \in {x \in Dim : Table[x] = table}}
Samples(m, table) == Cardinality(Sampled(m, table))
RatingsAreWhole ==
    \A m \in Model :
        /\ Samples(m, "task") >= Samples(m, "domain")
        /\ Samples(m, "domain") >= Samples(m, "qs")
        /\ Samples(m, "task") <= Samples(m, "qs") + crashes
                                 + (IF halfway = <<>> THEN 0 ELSE 1)

\* IBR-FLV-04: once the file stays as it is and requests go on, they are scored with what
\* it says, unless a write fell between the read and the stat of a reload or into one
\* tick with the write before it.
Current == file.content # Broken => loaded = Parsed(file.content)
Missed == seen = file.mtime /\ ~Current
ReloadCatchesUp == <>[](filling = <<>> /\ ~Missed) => <>[]Current
=============================================================================
