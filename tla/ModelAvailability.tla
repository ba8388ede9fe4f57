-------------------------- MODULE ModelAvailability --------------------------
(***************************************************************************)
(* Retirement and suspension of models: what HealthTracker.is_retired      *)
(* answers (health/tracker.py) when several processes, each with the       *)
(* dictionaries of its own tracker, share health.db (health/health_db.py). *)
(* RouterEngine always gives the tracker a database, so this is the mode   *)
(* that runs.                                                              *)
(*                                                                         *)
(* A suspension is kept as the time it has left: the code stores the       *)
(* instant and the TTL and compares "now - instant < ttl".  An entry that  *)
(* has run out (0 left) stays until somebody looks at it; Absent is no     *)
(* entry.  Each call of the tracker runs without an await, and touches the *)
(* database in one committed statement, so it is one step, except the      *)
(* check: HealthDB.is_suspended reads the row in one transaction and       *)
(* deletes it in another.                                                  *)
(*                                                                         *)
(* record_error also counts the error and informs the circuit breaker;     *)
(* is_retired reads neither, and both are left to CircuitBreaker.tla.      *)
(***************************************************************************)
EXTENDS Integers, FiniteSets

CONSTANTS
    Processes,
    Models,
    Providers,
    ProviderOf,          \* the part of the model id before the slash
    Ttl403, Ttl429, Ttl5xx,
    ProviderTtl,         \* _provider_suspend_ttl_s
    ProviderThreshold    \* _provider_suspend_threshold

ASSUME AvailabilityAssumption ==
    /\ ProviderOf \in [Models -> Providers]
    /\ {Ttl403, Ttl429, Ttl5xx, ProviderTtl, ProviderThreshold} \subseteq Nat \ {0}

Absent == -1

\* The HTTP statuses that suspend a model.
Transient == {"403", "429", "5xx"}

Ttl == [s \in Transient |-> CASE s = "403" -> Ttl403
                              [] s = "429" -> Ttl429
                              [] s = "5xx" -> Ttl5xx]

Ttls == {Ttl[s] : s \in Transient}
MaxTtl == CHOOSE t \in Ttls : \A u \in Ttls : u <= t

VARIABLES
    memRetired,     \* process -> models in _retired
    memLeft,        \* process -> model -> time left of _suspended, or Absent
    forbidden,      \* process -> provider -> _provider_403_counts, up to the threshold
    providerLeft,   \* process -> provider -> time left of _suspended_providers, or Absent
    dbRetired,      \* models in table retired_models
    dbLeft,         \* model -> time left of its row in suspended_models, or Absent
    pruning,        \* process -> models (one at most) whose expired row it will delete
    \* History, read by the properties only.
    gone,           \* models answered 404 or 410 since they were last reinstated
    due,            \* model -> longest time left of any suspension it earned
    providerDue     \* provider -> time left since its last 403

memory == <<memRetired, memLeft, forbidden, providerLeft>>
history == <<gone, due, providerDue>>
vars == <<memory, dbRetired, dbLeft, pruning, history>>

Left(ttl) == {Absent} \cup 0 .. ttl

TypeOK ==
    /\ memRetired \in [Processes -> SUBSET Models]
    /\ memLeft \in [Processes -> [Models -> Left(MaxTtl)]]
    /\ forbidden \in [Processes -> [Providers -> 0 .. ProviderThreshold]]
    /\ providerLeft \in [Processes -> [Providers -> Left(ProviderTtl)]]
    /\ dbRetired \subseteq Models
    /\ dbLeft \in [Models -> Left(MaxTtl)]
    /\ pruning \in [Processes -> SUBSET Models]
    /\ gone \subseteq Models
    /\ due \in [Models -> 0 .. MaxTtl]
    /\ providerDue \in [Providers -> 0 .. ProviderTtl]

Init ==
    /\ memRetired = [p \in Processes |-> {}]
    /\ memLeft = [p \in Processes |-> [m \in Models |-> Absent]]
    /\ forbidden = [p \in Processes |-> [v \in Providers |-> 0]]
    /\ providerLeft = [p \in Processes |-> [v \in Providers |-> Absent]]
    /\ dbRetired = {}
    /\ dbLeft = [m \in Models |-> Absent]
    /\ pruning = [p \in Processes |-> {}]
    /\ gone = {}
    /\ due = [m \in Models |-> 0]
    /\ providerDue = [v \in Providers |-> 0]

-----------------------------------------------------------------------------
Ready(p) == pruning[p] = {}

\* _is_retired_or_suspended, the answer.
Suspended(p, m) == memLeft[p][m] > 0 \/ providerLeft[p][ProviderOf[m]] > 0 \/ dbLeft[m] > 0
Unavailable(p, m) == m \in memRetired[p] \/ m \in dbRetired \/ Suspended(p, m)

\* Mutant: only this process learns it.
RecordGone_MemoryOnly(p, m) ==
    /\ Ready(p)
    /\ memRetired' = [memRetired EXCEPT ![p] = @ \cup {m}]
    /\ gone' = gone \cup {m}
    /\ UNCHANGED <<memLeft, forbidden, providerLeft, dbRetired, dbLeft, pruning, due, providerDue>>

\* record_error with 404 or 410: retired in memory and in the database.
RecordGone(p, m) ==
    /\ Ready(p)
    /\ memRetired' = [memRetired EXCEPT ![p] = @ \cup {m}]
    /\ dbRetired' = dbRetired \cup {m}
    /\ gone' = gone \cup {m}
    /\ UNCHANGED <<memLeft, forbidden, providerLeft, dbLeft, pruning, due, providerDue>>

\* _track_provider_suspension counts 403s only.
Forbid(p, v) ==
    LET count == IF forbidden[p][v] < ProviderThreshold
                 THEN forbidden[p][v] + 1 ELSE ProviderThreshold
    IN  /\ forbidden' = [forbidden EXCEPT ![p][v] = count]
        /\ providerLeft' = [providerLeft EXCEPT
                               ![p][v] = IF count >= ProviderThreshold THEN ProviderTtl ELSE @]
        /\ providerDue' = [providerDue EXCEPT ![v] = ProviderTtl]

\* Mutant: the TTL of a 403 serves for all.
Renewed_OneTtl(left, s) == Ttl403

\* _suspend_model_with_ttl replaces an entry, whatever is left of it.
Renewed(left, s) == Ttl[s]

\* record_error with 403, 429 or 5xx: suspended in memory and in the database.
RecordTransient(p, m, s) ==
    /\ Ready(p)
    /\ memLeft' = [memLeft EXCEPT ![p][m] = Renewed(@, s)]
    /\ dbLeft' = [dbLeft EXCEPT ![m] = Renewed(@, s)]
    /\ due' = [due EXCEPT ![m] = IF @ < Ttl[s] THEN Ttl[s] ELSE @]
    /\ IF s = "403"
       THEN Forbid(p, ProviderOf[m])
       ELSE UNCHANGED <<forbidden, providerLeft, providerDue>>
    /\ UNCHANGED <<memRetired, dbRetired, pruning, gone>>

\* Mutant: the count goes on where it was.
ProviderOver_KeepsCount(p, v) ==
    /\ providerLeft' = [providerLeft EXCEPT ![p][v] = Absent]
    /\ UNCHANGED forbidden

\* A provider suspension that has run out is dropped with its count.
ProviderOver(p, v) ==
    /\ providerLeft' = [providerLeft EXCEPT ![p][v] = Absent]
    /\ forbidden' = [forbidden EXCEPT ![p][v] = 0]

\* is_retired, score, is_available: the first source that says "unavailable"
\* answers; an entry of this process that has run out on the way is dropped.
MemorySays(p, m) == m \in memRetired[p] \/ memLeft[p][m] > 0

ProviderSays(p, m) == providerLeft[p][ProviderOf[m]] > 0

Check(p, m) ==
    LET asksProvider == ~MemorySays(p, m)
        asksDb == asksProvider /\ ~ProviderSays(p, m)
    IN  /\ Ready(p)
        /\ memLeft' = [memLeft EXCEPT
               ![p][m] = IF m \notin memRetired[p] /\ @ = 0 THEN Absent ELSE @]
        /\ IF asksProvider /\ providerLeft[p][ProviderOf[m]] = 0
           THEN ProviderOver(p, ProviderOf[m])
           ELSE UNCHANGED <<forbidden, providerLeft>>
        /\ pruning' = [pruning EXCEPT
               ![p] = IF asksDb /\ m \notin dbRetired /\ dbLeft[m] = 0 THEN {m} ELSE @]
        /\ UNCHANGED <<memRetired, dbRetired, dbLeft, history>>

\* Mutant: the retirement of the model goes with its row.
Prune_Both(p) ==
    /\ ~Ready(p)
    /\ dbLeft' = [m \in Models |-> IF m \in pruning[p] THEN Absent ELSE dbLeft[m]]
    /\ dbRetired' = dbRetired \ pruning[p]
    /\ pruning' = [pruning EXCEPT ![p] = {}]
    /\ UNCHANGED <<memory, history>>

\* The DELETE of HealthDB.is_suspended, by model id alone.
Prune(p) ==
    /\ ~Ready(p)
    /\ dbLeft' = [m \in Models |-> IF m \in pruning[p] THEN Absent ELSE dbLeft[m]]
    /\ pruning' = [pruning EXCEPT ![p] = {}]
    /\ UNCHANGED <<memory, dbRetired, history>>

\* reinstate_model: the tracker forgets the model, the database only its
\* retirement.
Reinstate(p, m) ==
    /\ Ready(p)
    /\ memRetired' = [memRetired EXCEPT ![p] = @ \ {m}]
    /\ memLeft' = [memLeft EXCEPT ![p][m] = Absent]
    /\ dbRetired' = dbRetired \ {m}
    /\ gone' = gone \ {m}
    /\ UNCHANGED <<forbidden, providerLeft, dbLeft, pruning, due, providerDue>>

\* A process is killed or stopped and started again.  restore_state takes
\* neither retirements nor suspensions from the JSON file in this mode.
Restart(p) ==
    /\ memRetired' = [memRetired EXCEPT ![p] = {}]
    /\ memLeft' = [memLeft EXCEPT ![p] = [m \in Models |-> Absent]]
    /\ forbidden' = [forbidden EXCEPT ![p] = [v \in Providers |-> 0]]
    /\ providerLeft' = [providerLeft EXCEPT ![p] = [v \in Providers |-> Absent]]
    /\ pruning' = [pruning EXCEPT ![p] = {}]
    /\ UNCHANGED <<dbRetired, dbLeft, history>>

Less(left) == IF left > 0 THEN left - 1 ELSE left

Tick ==
    /\ memLeft' = [p \in Processes |-> [m \in Models |-> Less(memLeft[p][m])]]
    /\ providerLeft' = [p \in Processes |-> [v \in Providers |-> Less(providerLeft[p][v])]]
    /\ dbLeft' = [m \in Models |-> Less(dbLeft[m])]
    /\ due' = [m \in Models |-> Less(due[m])]
    /\ providerDue' = [v \in Providers |-> Less(providerDue[v])]
    /\ UNCHANGED <<memRetired, forbidden, dbRetired, pruning, gone>>

-----------------------------------------------------------------------------
RecordFailure(p, m) == RecordGone(p, m) \/ \E s \in Transient : RecordTransient(p, m, s)

Next ==
    \/ \E p \in Processes, m \in Models : RecordFailure(p, m) \/ Check(p, m) \/ Reinstate(p, m)
    \/ \E p \in Processes : Prune(p) \/ Restart(p)
    \/ Tick

Spec == Init /\ [][Next]_vars

-----------------------------------------------------------------------------
(* Properties.                                                             *)

\* 404 and 410 are permanent: from the moment one process records such an
\* answer every process, restarted ones too, keeps the model out of routing
\* until somebody reinstates it.
GoneStaysOut == \A m \in gone : m \in dbRetired /\ \A p \in Processes : Unavailable(p, m)

\* A suspension ends no later than the longest TTL after the last failure that
\* earned it: no pruning, overwriting or provider bookkeeping prolongs it.
SuspensionIsEarned ==
    \A p \in Processes, m \in Models :
        Suspended(p, m) => due[m] > 0 \/ providerDue[ProviderOf[m]] > 0

\* A whole provider is suspended by a process only with enough 403s on its
\* count; a count that has run its time is not held against the provider again.
ProviderSuspensionIsCounted ==
    \A p \in Processes, v \in Providers :
        providerLeft[p][v] # Absent <=> forbidden[p][v] = ProviderThreshold

\* To each process the three sources and all other processes look like the two sets of
\* AvailabilityPromise.tla, from one start to the next.
View(p) == INSTANCE AvailabilityPromise WITH
    gone <- memRetired[p] \cup dbRetired,
    suspended <- {m \in Models : Suspended(p, m)}

\* What CascadeDispatch.tla relies on: while a process is up, models go out only when
\* somebody records a failure, their own or one that puts out the provider, and one that
\* is gone comes back only when somebody reinstates it; all else, the races of the
\* pruning and restarts of other processes too, only ends suspensions
\* (_is_retired_or_suspended).
KeepsAvailability ==
    /\ \A p \in Processes : View(p)!Init
    /\ [][\A p \in Processes :
              \/ Restart(p) /\ View(p)!StartAgain
              \/ \E q \in Processes, m \in Models :
                    \/ RecordFailure(q, m) /\ View(p)!Fail(m)
                    \/ Reinstate(q, m) /\ View(p)!Reinstate(m)
              \/ \E over \in SUBSET Models : View(p)!Recover(over)]_vars

\* "all retirement/suspension state is stored in a shared SQLite database ...
\* so that multiple router instances coordinate through a single source of
\* truth" (HealthDB, health/health_db.py:31).
SuspensionIsShared == \A m \in Models : due[m] > 0 => dbLeft[m] > 0

=============================================================================
