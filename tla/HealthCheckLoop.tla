--------------------------- MODULE HealthCheckLoop ---------------------------
(***************************************************************************)
(* The status of the backends of one provider (BackendState.status, kept   *)
(* by core/registry.py) and everything that writes it, all on one event    *)
(* loop:                                                                   *)
(*   - the health check loop (health/check_loop.py): cycle after cycle it  *)
(*     probes every backend concurrently and, now and then, has the        *)
(*     catalog refreshed before it sleeps again;                           *)
(*   - catalog refreshes, which learn whether the provider accepts the     *)
(*     key: the loop's own, those that selections schedule                 *)
(*     (router.py, _async_refresh_catalog) and the administrator's         *)
(*     (server/routes.py, _execute_catalog_refresh);                       *)
(*   - the administrator, who retires and reinstates backends.             *)
(* Between the await of a probe or a refresh and its result, all the       *)
(* others may write.                                                       *)
(*                                                                         *)
(* A tick is the interval of the loop.  The adapters, the provider and its *)
(* opinion of the key are the environment.                                 *)
(***************************************************************************)
EXTENDS BreakerOps

CONSTANTS
    Backends,
    Admin, Background,      \* refreshes, besides the loop's own
    SloLimit,               \* consecutive violations that degrade a backend
    OnCycleInterval         \* cycles from one refresh of the loop to the next

Loop == "loop"
Refreshers == Admin \cup Background \cup {Loop}

ASSUME LoopAssumption ==
    /\ SloLimit \in Nat \ {0} /\ OnCycleInterval \in Nat \ {0}
    /\ Loop \notin Admin \cup Background

VARIABLES
    status,         \* backend -> its status
    breakers,       \* backend -> the breaker the loop keeps for it
    slow,           \* _slo_violation_counts, exact below SloLimit
    probe,          \* backend -> how far the probe of this cycle is
    loop, cycles,   \* where the loop is; cycles since its last refresh
    refresh,        \* refresher -> what it knows
    server,         \* backend -> how it answers a probe
    keyAccepted,    \* the provider accepts the key
    \* History, read by the properties only.
    lifted          \* backends made available by hand since their last probe

env == <<server, keyAccepted>>
loopVars == <<status, breakers, slow, probe, loop, cycles, refresh, env, lifted>>

Status == {"available", "degraded", "error", "offline", "retired", "key_invalid"}

Answers == {"fast", "slow", "failed", "gone"}

Results == {"denied", "listed", "failed"}

LoopTypeOK ==
    /\ status \in [Backends -> Status]
    /\ breakers \in [Backends -> Breakers]
    /\ slow \in [Backends -> 0 .. SloLimit]
    /\ probe \in [Backends -> {"none", "due", "sent"}]
    /\ loop \in {"asleep", "awake", "probing", "refreshing"}
    /\ cycles \in 0 .. OnCycleInterval - 1
    /\ refresh \in [Refreshers -> {"idle", "asking"} \cup Results]
    /\ server \in [Backends -> Answers]
    /\ keyAccepted \in BOOLEAN
    /\ lifted \subseteq Backends

\* Registered backends are available, or key_invalid when the variable that
\* should hold the key is empty (_mark_missing_key).
LoopInit ==
    /\ \E s \in {"available", "key_invalid"} : status = [b \in Backends |-> s]
    /\ breakers \in [Backends -> NewBreakers]
    /\ slow = [b \in Backends |-> 0]
    /\ probe = [b \in Backends |-> "none"]
    /\ loop = "awake" /\ cycles = 0
    /\ refresh = [r \in Refreshers |-> "idle"]
    /\ server \in [Backends -> {"fast", "gone"}]
    /\ keyAccepted \in BOOLEAN
    /\ lifted = {}

-----------------------------------------------------------------------------
(* The loop.                                                               *)

\* _probe_all_backends: one task per backend.
StartCycle ==
    /\ loop = "awake"
    /\ loop' = "probing"
    /\ probe' = [b \in Backends |-> "due"]
    /\ UNCHANGED <<status, breakers, slow, cycles, refresh, env, lifted>>

\* _probe_backend up to its await.
BeginProbe(b) ==
    /\ probe[b] = "due"
    /\ IF status[b] = "key_invalid"
       THEN probe' = [probe EXCEPT ![b] = "none"] /\ UNCHANGED breakers
       ELSE /\ breakers' = [breakers EXCEPT ![b] = AllowRequest(@)]
            /\ probe' = [probe EXCEPT ![b] =
                            IF Admits(breakers[b]) \/ breakers'[b].state = "half_open"
                            THEN "sent" ELSE "none"]
    /\ UNCHANGED <<status, slow, loop, cycles, refresh, env, lifted>>

Success(answer) == answer \in {"fast", "slow"}

\* _update_breaker_and_errors.
BreakersAfter(b, answer) ==
    IF Success(answer) THEN {RecordSuccess(breakers[b])} ELSE RecordError(breakers[b])

\* _evaluate_slo: a failure is a violation too.
SlowAfter(b, answer) ==
    IF answer = "fast" THEN 0 ELSE IF slow[b] < SloLimit THEN slow[b] + 1 ELSE SloLimit

\* Mutant: a failure that does not open the circuit leaves the status.
StatusAfter_Patient(b, answer) ==
    IF Success(answer) THEN "available" ELSE status[b]

\* _update_backend_status.
StatusAfter(b, answer) ==
    IF slow'[b] = SloLimit THEN "degraded"
    ELSE IF breakers'[b].state = "open" THEN "error"
    ELSE IF Success(answer) THEN "available"
    ELSE "error"

Missing(answer) == answer = "gone"

\* _probe_backend after its await.  A missing model makes the backend offline
\* and tells neither the breaker nor the SLO count.
EndProbe(b) ==
    /\ probe[b] = "sent"
    /\ probe' = [probe EXCEPT ![b] = "none"]
    /\ IF Missing(server[b])
       THEN status' = [status EXCEPT ![b] = "offline"] /\ UNCHANGED <<breakers, slow>>
       ELSE /\ \E after \in BreakersAfter(b, server[b]) :
                   breakers' = [breakers EXCEPT ![b] = after]
            /\ slow' = [slow EXCEPT ![b] = SlowAfter(b, server[b])]
            /\ status' = [status EXCEPT ![b] = StatusAfter(b, server[b])]
    /\ lifted' = lifted \ {b}
    /\ UNCHANGED <<loop, cycles, refresh, env>>

\* The cycle is over when every probe is; on_cycle refreshes the catalog.
EndCycle ==
    /\ loop = "probing" /\ \A b \in Backends : probe[b] = "none"
    /\ IF cycles + 1 = OnCycleInterval
       THEN loop' = "refreshing" /\ cycles' = 0 /\ refresh' = [refresh EXCEPT ![Loop] = "asking"]
       ELSE loop' = "asleep" /\ cycles' = cycles + 1 /\ UNCHANGED refresh
    /\ UNCHANGED <<status, breakers, slow, probe, env, lifted>>

-----------------------------------------------------------------------------
(* Refreshes.                                                              *)

AskProvider(r) ==
    /\ r # Loop /\ refresh[r] = "idle"
    /\ refresh' = [refresh EXCEPT ![r] = "asking"]
    /\ UNCHANGED <<status, breakers, slow, probe, loop, cycles, env, lifted>>

\* The provider answers; the refresher still waits for the other providers.
Answer(r) ==
    /\ refresh[r] = "asking"
    /\ \E result \in {IF keyAccepted THEN "listed" ELSE "denied", "failed"} :
          refresh' = [refresh EXCEPT ![r] = result]
    /\ UNCHANGED <<status, breakers, slow, probe, loop, cycles, env, lifted>>

\* Mutant of Restored: the administrator's refresh only marks.
Restored_None(r) == {}

\* Backends the administrator's refresh finds in order again.  The refreshes in
\* the background restore none.
Restored(r) ==
    {b \in Backends : r \in Admin /\ refresh[r] = "listed" /\ status[b] = "key_invalid"}

\* _async_refresh_catalog or _execute_catalog_refresh after the await.
Apply(r) ==
    /\ refresh[r] \in Results
    /\ status' = [b \in Backends |->
            IF refresh[r] = "denied" THEN "key_invalid"
            ELSE IF b \in Restored(r) THEN "available"
            ELSE status[b]]
    /\ refresh' = [refresh EXCEPT ![r] = "idle"]
    /\ loop' = IF r = Loop THEN "asleep" ELSE loop
    /\ lifted' = lifted \cup Restored(r)
    /\ UNCHANGED <<breakers, slow, probe, cycles, env>>

-----------------------------------------------------------------------------
(* The administrator (core/registry.py).                                   *)

Retire(b) ==
    /\ status' = [status EXCEPT ![b] = "retired"]
    /\ UNCHANGED <<breakers, slow, probe, loop, cycles, refresh, env, lifted>>

\* Any other status than retired is answered with "not found".
Reinstate(b) ==
    /\ status[b] = "retired"
    /\ status' = [status EXCEPT ![b] = "available"]
    /\ lifted' = lifted \cup {b}
    /\ UNCHANGED <<breakers, slow, probe, loop, cycles, refresh, env>>

(* The environment.                                                        *)

\* Time passes.  The loop sleeps for one tick.
LoopTick ==
    /\ breakers' = [b \in Backends |-> Aged(breakers[b])]
    /\ loop' = IF loop = "asleep" THEN "awake" ELSE loop
    /\ UNCHANGED <<status, slow, probe, cycles, refresh, env, lifted>>

ServerChanges(b) ==
    /\ \E answer \in Answers : server' = [server EXCEPT ![b] = answer]
    /\ UNCHANGED <<status, breakers, slow, probe, loop, cycles, refresh, keyAccepted, lifted>>

KeyChanges ==
    /\ keyAccepted' = ~keyAccepted
    /\ UNCHANGED <<status, breakers, slow, probe, loop, cycles, refresh, server, lifted>>

-----------------------------------------------------------------------------
LoopNext ==
    \/ StartCycle \/ EndCycle \/ LoopTick \/ KeyChanges
    \/ \E b \in Backends :
          BeginProbe(b) \/ EndProbe(b) \/ Retire(b) \/ Reinstate(b) \/ ServerChanges(b)
    \/ \E r \in Refreshers : AskProvider(r) \/ Answer(r) \/ Apply(r)

LoopSpec == LoopInit /\ [][LoopNext]_loopVars

\* Time passes, the event loop runs what is ready, and requests end, by their
\* timeouts at the latest.
LoopFairness ==
    /\ WF_loopVars(LoopTick) /\ WF_loopVars(StartCycle) /\ WF_loopVars(EndCycle)
    /\ \A b \in Backends : WF_loopVars(BeginProbe(b)) /\ WF_loopVars(EndProbe(b))
    /\ \A r \in Refreshers : WF_loopVars(Answer(r)) /\ WF_loopVars(Apply(r))

LoopFairSpec == LoopSpec /\ LoopFairness

-----------------------------------------------------------------------------
(* Properties.                                                             *)

\* No probe is under way to a backend whose circuit is open: its breaker can
\* only have opened after the previous probe.
ProbedIsNotOpen == \A b \in Backends : probe[b] = "sent" => breakers[b].state # "open"

\* A backend with SloLimit violations in a row is degraded, whatever its breaker
\* says, until a better probe, a 404, a rejected key or the administrator; and no
\* other is.
DegradedIsSlow ==
    \A b \in Backends :
        /\ status[b] = "degraded" => slow[b] = SloLimit
        /\ slow[b] = SloLimit /\ b \notin lifted =>
              status[b] \in {"degraded", "offline", "retired", "key_invalid"}

\* Nothing but the probes says how the backend is: neither is its key held to be
\* invalid, nor has the administrator retired it.
LeftToProbes(b) == status[b] \notin {"key_invalid", "retired"}

\* A backend that answers well is made available again and again, whatever the
\* loop found before.
HealthyIsRestored ==
    \A b \in Backends :
        <>[](server[b] = "fast" /\ LeftToProbes(b)) => []<>(status[b] = "available")

\* A backend that fails, or is missing, for good is found out again and again,
\* although its open circuit suspends the probes.
FailingIsNoticed ==
    \A b \in Backends :
        /\ <>[](server[b] = "failed" /\ LeftToProbes(b))
              => []<>(status[b] \in {"error", "degraded"})
        /\ <>[](server[b] = "gone" /\ LeftToProbes(b)) => []<>(status[b] = "offline")

\* The circuit of a backend that answers again is closed by the probes alone and
\* stays closed: neither failures of before, which a 404 hides from the breaker,
\* nor a jitter drawn anew keep it open.
CircuitRecovers ==
    \A b \in Backends :
        <>[](Success(server[b]) /\ status[b] # "key_invalid")
            => <>[](breakers[b].state = "closed")

\* An accepted key is restored for good by an administrator who goes on asking,
\* although refreshes with an older answer may still be under way.
KeyIsRestored ==
    (<>[]keyAccepted /\ []<>(\E r \in Admin : refresh[r] = "listed"))
        => <>[](\A b \in Backends : status[b] # "key_invalid")

=============================================================================
