--------------------------- MODULE CircuitBreaker ---------------------------
(***************************************************************************)
(* The circuit breaker that HealthTracker keeps for a model, the           *)
(* dispatches that share it, the clock, and the restarts of the process    *)
(* that owns it.                                                           *)
(*                                                                         *)
(* A dispatcher calls the provider without asking the breaker and reports  *)
(* the outcome to record_success or record_error (dispatch/cascade.py      *)
(* through HealthTracker); allow_request is called beside it, by every     *)
(* HealthTracker.score.  Outcomes arrive whenever the provider answers, so *)
(* any number of trips, recoveries and ticks may happen between the start  *)
(* of a call and its outcome.  The state is saved when the process stops   *)
(* and restored when it starts.                                            *)
(*                                                                         *)
(* The breakers of the health check loop are other objects: they are asked *)
(* before each probe, have one probe at a time and are never saved.  They  *)
(* are in HealthCheckLoop.tla.                                             *)
(***************************************************************************)
EXTENDS BreakerOps

CONSTANT
    Dispatchers    \* the dispatches that may be under way at once

VARIABLES
    breaker,     \* the CircuitBreaker object
    calling,     \* the dispatchers whose call is in flight
    up,          \* the owning process is running
    saved,       \* the last snapshot in health_state.json, or NoSnapshot
    \* History, read by the properties only.
    tripAge,     \* age of the last closed/half-open -> open step, up to Cooldown;
                 \* Cooldown when a success has come since
    savedTripAge,\* tripAge as of the snapshot
    errorLog     \* age -> number of failures reported that long ago, up to Threshold

vars == <<breaker, calling, up, saved, tripAge, savedTripAge, errorLog>>

NoSnapshot == [state |-> "closed", openFor |-> LongAgo, errors |-> NoErrors]

TypeOK ==
    /\ breaker \in Breakers
    /\ calling \subseteq Dispatchers
    /\ up \in BOOLEAN
    /\ saved \in Snapshots
    /\ tripAge \in 0 .. Cooldown
    /\ savedTripAge \in 0 .. Cooldown
    /\ errorLog \in Errors

Init ==
    /\ breaker \in NewBreakers
    /\ calling = {}
    /\ up = TRUE
    /\ saved = NoSnapshot
    /\ tripAge = Cooldown
    /\ savedTripAge = Cooldown
    /\ errorLog = NoErrors

-----------------------------------------------------------------------------
\* The history of a step that ran breaker -> b.
TripAgeAfter(b) ==
    IF b.state = "open" /\ breaker.state # "open" THEN 0 ELSE tripAge

\* HealthTracker.score, is_available and availability_status ask allow_request, for
\* a routing decision or a status page: nobody reports an outcome for that.
Consult ==
    /\ up
    /\ breaker' = AllowRequest(breaker)
    /\ UNCHANGED <<calling, up, saved, tripAge, savedTripAge, errorLog>>

\* A dispatcher calls the provider; the breaker is not involved.
Begin(d) ==
    /\ up
    /\ d \notin calling
    /\ calling' = calling \cup {d}
    /\ UNCHANGED <<breaker, up, saved, tripAge, savedTripAge, errorLog>>

Succeed(d) ==
    /\ up
    /\ d \in calling
    /\ breaker' = RecordSuccess(breaker)
    /\ calling' = calling \ {d}
    /\ tripAge' = Cooldown
    /\ UNCHANGED <<up, saved, savedTripAge, errorLog>>

Fail(d) ==
    /\ up
    /\ d \in calling
    /\ breaker' \in RecordError(breaker)
    /\ calling' = calling \ {d}
    /\ tripAge' = TripAgeAfter(breaker')
    /\ errorLog' = AddError(errorLog)
    /\ UNCHANGED <<up, saved, savedTripAge>>

\* A call that ends without an outcome: a dispatch that is cancelled, or that an
\* error escapes from, tells nobody.
Abandon(d) ==
    /\ up
    /\ d \in calling
    /\ calling' = calling \ {d}
    /\ UNCHANGED <<breaker, up, saved, tripAge, savedTripAge, errorLog>>

Tick ==
    /\ breaker' = Aged(breaker)
    /\ saved' = Aged(saved)
    /\ tripAge' = Older(tripAge, Cooldown)
    /\ savedTripAge' = Older(savedTripAge, Cooldown)
    /\ errorLog' = [age \in 0 .. Window |-> IF age = 0 THEN 0 ELSE errorLog[age - 1]]
    /\ UNCHANGED <<calling, up>>

\* RouterEngine.save_state runs at shutdown and nowhere else.
Shutdown ==
    /\ up
    /\ up' = FALSE
    /\ calling' = {}
    /\ saved' = GetState(breaker)
    /\ savedTripAge' = tripAge
    /\ UNCHANGED <<breaker, tripAge, errorLog>>

\* A kill, or a shutdown whose save failed: the earlier snapshot stays.
Crash ==
    /\ up
    /\ up' = FALSE
    /\ calling' = {}
    /\ UNCHANGED <<breaker, saved, tripAge, savedTripAge, errorLog>>

Boot ==
    /\ ~up
    /\ up' = TRUE
    /\ \E b \in NewBreakers : breaker' = RestoreState(b, saved)
    /\ tripAge' = savedTripAge
    /\ UNCHANGED <<calling, saved, savedTripAge, errorLog>>

-----------------------------------------------------------------------------
Restart == Shutdown \/ Crash \/ Boot

Next ==
    \/ Consult
    \/ \E d \in Dispatchers : Begin(d) \/ Succeed(d) \/ Fail(d) \/ Abandon(d)
    \/ Tick
    \/ Restart

Spec == Init /\ [][Next]_vars

\* Time passes, and a stopped process is started again.  Nobody has to dispatch,
\* to answer or to ask.
Fairness == WF_vars(Tick) /\ WF_vars(Boot)

FairSpec == Spec /\ Fairness

-----------------------------------------------------------------------------
(* Properties.                                                             *)

\* HAZ-009, HAZ-012: for a full base cooldown after it tripped the breaker is
\* open, however the outcomes of calls started earlier, a half-open failure, a
\* restart from a snapshot of any age, or a redrawn jitter interleave.  Only a
\* success reported since ends the period early.
CooldownHonoured == up /\ tripAge < Cooldown => breaker.state = "open"

\* Every failure the breaker, or the snapshot it will restart from, holds
\* against the provider was reported exactly that long ago: restarts and the
\* clock neither invent nor rejuvenate a failure.
ErrorsAreReal ==
    \A age \in 0 .. Window :
        /\ breaker.errors[age] <= errorLog[age]
        /\ saved.errors[age] <= errorLog[age]

\* The breaker leaves "closed" for "open" only on Threshold failures that were
\* reported within the last Window, even when some of them are known from a
\* snapshot only.
TripsAreEarned ==
    [][ up /\ breaker.state = "closed" /\ breaker'.state = "open"
          => Total(errorLog') >= Threshold ]_vars

\* Once no new calls are made and routing decisions go on to ask for the score,
\* an open breaker is always given another chance: late failures that extend the
\* cooldown, and restarts from a snapshot of any age, cannot keep it open for ever.
DispatchersStop == <>[][ ~ \E d \in Dispatchers : Begin(d) ]_vars
ScoresAreAsked == WF_vars(Consult)

OpenIsLeft == DispatchersStop /\ ScoresAreAsked => []<>(breaker.state # "open")

=============================================================================
