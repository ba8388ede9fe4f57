----------------------------- MODULE BreakerOps -----------------------------
(***************************************************************************)
(* The methods of one CircuitBreaker object (health/circuit_breaker.py) as *)
(* operators on a record.  CircuitBreaker.tla lets callers, the clock and  *)
(* restarts act on one such object; HealthCheckLoop.tla embeds it.         *)
(*                                                                         *)
(* The code keeps wall-clock instants (_opened_at, _error_timestamps) and  *)
(* only ever compares "now - instant" with a duration.  The model keeps    *)
(* these differences, the ages, in whole ticks, and stops counting where   *)
(* no comparison can tell a value from a larger one:                       *)
(*   - _opened_at is openFor, its age, up to the longest cooldown;         *)
(*   - _error_timestamps is errors, the number of timestamps of each age   *)
(*     in the window, up to Threshold.  An older timestamp is pruned       *)
(*     before every use of the list, so it is simply not there.            *)
(* Hence no bound on the clock or on the list is needed.  The clock is     *)
(* taken not to run backwards.                                             *)
(***************************************************************************)
EXTENDS Integers, FiniteSetsExt

CONSTANTS
    Threshold,   \* error_threshold
    Window,      \* error_window_s
    Cooldown,    \* cooldown_s
    MaxJitter    \* jitter_factor * cooldown_s

\* The precondition assertions of CircuitBreaker.__init__.
ASSUME BreakerAssumption ==
    /\ Threshold \in Nat \ {0}
    /\ Window \in Nat \ {0}
    /\ Cooldown \in Nat \ {0}
    /\ MaxJitter \in 0 .. Cooldown

CircuitState == {"closed", "open", "half_open"}

\* What _compute_jittered_cooldown may return.
JitteredCooldown == Cooldown .. (Cooldown + MaxJitter)

\* The age of an opened_at that every cooldown has outlived; 0.0, its initial
\* value, is one.
LongAgo == Cooldown + MaxJitter

Errors == [0 .. Window -> 0 .. Threshold]
NoErrors == [age \in 0 .. Window |-> 0]

\* The errors of the list one by one, and their number:
\* len(self._error_timestamps), exact below Threshold.
Single(errors) == {e \in (0 .. Window) \X (1 .. Threshold) : e[2] <= errors[e[1]]}
Total(errors) == Cardinality(Single(errors))

Snapshots == [state : CircuitState, openFor : 0 .. LongAgo, errors : Errors]

Breakers ==
    [state : CircuitState, openFor : 0 .. LongAgo, errors : Errors,
     cooldown : JitteredCooldown]

\* CircuitBreaker(): closed, no errors, opened_at = 0.0, jitter already drawn.
NewBreakers ==
    {[state |-> "closed", openFor |-> LongAgo, errors |-> NoErrors, cooldown |-> c] :
        c \in JitteredCooldown}

\* allow_request: the answer, and what it does to the object.
CooldownElapsed(b) == b.openFor >= b.cooldown

Admits(b) == b.state # "open" \/ CooldownElapsed(b)

\* Mutant of AllowRequest: a refused caller restarts the cooldown.
AllowRequest_Restarts(b) ==
    IF b.state # "open" THEN b
    ELSE IF CooldownElapsed(b) THEN [b EXCEPT !.state = "half_open"]
         ELSE [b EXCEPT !.openFor = 0]

AllowRequest(b) ==
    IF b.state = "open" /\ CooldownElapsed(b) THEN [b EXCEPT !.state = "half_open"] ELSE b

\* Mutant of RecordSuccess: a success clears the errors and forgets the state.
RecordSuccess_KeepsState(b) == [b EXCEPT !.errors = NoErrors]

\* record_success closes the circuit from whatever state it is in.
RecordSuccess(b) == [b EXCEPT !.state = "closed", !.errors = NoErrors]

Trip(b, c) == [b EXCEPT !.state = "open", !.openFor = 0, !.cooldown = c]

AddError(errors) == [errors EXCEPT ![0] = IF @ < Threshold THEN @ + 1 ELSE @]

CountError(b) == [b EXCEPT !.errors = AddError(@)]

\* record_error: the objects it may leave behind, one per jitter it can draw.
\* A half-open failure reopens at once and is not counted; in the open state a
\* late failure is counted, and trips the breaker anew when that makes enough.
RecordError(b) ==
    IF b.state = "half_open"
    THEN {Trip(b, c) : c \in JitteredCooldown}
    ELSE IF Total(AddError(b.errors)) >= Threshold
         THEN {Trip(CountError(b), c) : c \in JitteredCooldown}
         ELSE {CountError(b)}

\* get_state leaves the drawn jitter out.
GetState(b) == [state |-> b.state, openFor |-> b.openFor, errors |-> b.errors]

\* Mutant of RestoreState: nothing is restored but the errors.
RestoreState_Closed(b, s) == [b EXCEPT !.errors = s.errors]

\* restore_state on the freshly constructed breaker b.
RestoreState(b, s) ==
    LET known == [b EXCEPT !.errors = s.errors]
    IN  IF s.state # "open" THEN known
        ELSE IF s.openFor < b.cooldown
             THEN [known EXCEPT !.state = "open", !.openFor = s.openFor]
             ELSE [known EXCEPT !.state = "half_open"]

\* One tick of the clock, seen by an age, by the timestamps, and by a breaker
\* or a snapshot.
Older(age, cap) == IF age < cap THEN age + 1 ELSE age

\* Mutant of OlderErrors: nothing is pruned, the oldest errors stay for ever.
OlderErrors_NeverPruned(errors) ==
    [age \in 0 .. Window |->
        IF age = 0 THEN 0
        ELSE IF age < Window THEN errors[age - 1]
             ELSE Min({Threshold, errors[age - 1] + errors[age]})]

OlderErrors(errors) == [age \in 0 .. Window |-> IF age = 0 THEN 0 ELSE errors[age - 1]]

Aged(b) == [b EXCEPT !.openFor = Older(@, LongAgo), !.errors = OlderErrors(@)]

=============================================================================
