---------------------------- MODULE BreakerProofs ----------------------------
(***************************************************************************)
(* Proofs about a circuit breaker (CircuitBreaker) and about the loop that *)
(* keeps one for every backend it probes (HealthCheckLoop), for every      *)
(* threshold, window, cooldown, jitter and set of dispatches or backends.  *)
(* Both rest on the lemmas of the first part, which say what the methods   *)
(* of one breaker (BreakerOps) return.                                     *)
(***************************************************************************)
EXTENDS CircuitBreaker, HealthCheckLoop, FiniteSetTheorems, TLAPS

-----------------------------------------------------------------------------
(***************************************************************************)
(* What the methods of a circuit breaker return.                           *)
(***************************************************************************)
\* The initial list of errors, a list with one more error, and a list one tick
\* older are lists of errors, and the last two are monotonic in the list.
LEMMA ErrorsClosed ==
    /\ NoErrors \in Errors
    /\ \A e \in Errors : AddError(e) \in Errors /\ OlderErrors(e) \in Errors
  BY BreakerAssumption DEF Errors, NoErrors, AddError, OlderErrors

LEMMA ErrorsMonotonic ==
    ASSUME NEW e \in Errors, NEW f \in Errors,
           \A age \in 0 .. Window : e[age] <= f[age]
    PROVE  \A age \in 0 .. Window :
              /\ NoErrors[age] <= f[age]
              /\ e[age] <= AddError(f)[age]
              /\ AddError(e)[age] <= AddError(f)[age]
              /\ OlderErrors(e)[age] <= OlderErrors(f)[age]
<1>1. ASSUME NEW age \in 0 .. Window
      PROVE  NoErrors[age] <= f[age] /\ e[age] <= AddError(f)[age]
  BY BreakerAssumption DEF Errors, NoErrors, AddError
<1>2. ASSUME NEW age \in 0 .. Window
      PROVE  AddError(e)[age] <= AddError(f)[age]
  BY BreakerAssumption DEF Errors, AddError
<1>3. ASSUME NEW age \in 0 .. Window
      PROVE  OlderErrors(e)[age] <= OlderErrors(f)[age]
  <2>1. CASE age = 0
    BY <2>1, BreakerAssumption DEF OlderErrors
  <2>2. CASE age # 0
    <3>1. age - 1 \in 0 .. Window
      BY <2>2, BreakerAssumption
    <3>2. QED
      BY <2>2, <3>1, BreakerAssumption DEF OlderErrors, Errors
  <2>3. QED
    BY <2>1, <2>2
<1>4. QED
  BY <1>1, <1>2, <1>3

\* A list that has as many errors of every age has as many errors.
LEMMA TotalMonotonic ==
    ASSUME NEW e \in Errors, NEW f \in Errors,
           \A age \in 0 .. Window : e[age] <= f[age]
    PROVE  Total(e) \in Nat /\ Total(f) \in Nat /\ Total(e) <= Total(f)
<1>1. IsFiniteSet(0 .. Window) /\ IsFiniteSet(1 .. Threshold)
  BY BreakerAssumption, FS_Interval
<1>2. IsFiniteSet((0 .. Window) \X (1 .. Threshold))
  BY <1>1, FS_Product
<1>3. IsFiniteSet(Single(e)) /\ IsFiniteSet(Single(f))
  BY <1>2, FS_Subset DEF Single
<1>4. Single(e) \subseteq Single(f)
  <2> SUFFICES ASSUME NEW x \in Single(e)
               PROVE  x[2] <= f[x[1]]
    BY DEF Single
  <2>1. x[1] \in 0 .. Window /\ x[2] \in 1 .. Threshold /\ x[2] <= e[x[1]]
    BY DEF Single
  <2>2. e[x[1]] \in Int /\ f[x[1]] \in Int /\ e[x[1]] <= f[x[1]]
    BY <2>1, BreakerAssumption DEF Errors
  <2>3. QED
    BY <2>1, <2>2, BreakerAssumption
<1>5. QED
  BY <1>3, <1>4, FS_Subset, FS_CardinalityType DEF Total

\* A new breaker: closed, and with no error.
LEMMA NewBreakersFact ==
    ASSUME NEW b \in NewBreakers
    PROVE  b \in Breakers /\ b.state = "closed" /\ b.errors = NoErrors
  BY ErrorsClosed, BreakerAssumption
  DEF NewBreakers, Breakers, JitteredCooldown, LongAgo, CircuitState

\* allow_request touches the state only, and only when an open circuit has
\* cooled down.
LEMMA AllowRequestFact ==
    ASSUME NEW b \in Breakers
    PROVE  /\ AllowRequest(b) \in Breakers
           /\ AllowRequest(b).errors = b.errors
           /\ AllowRequest(b).openFor = b.openFor
           /\ Admits(b) => AllowRequest(b).state # "open"
           /\ ~Admits(b) => AllowRequest(b) = b
           /\ AllowRequest(b).state = "open" => AllowRequest(b) = b
           /\ b.state = "open" /\ b.openFor < Cooldown => AllowRequest(b) = b
  BY BreakerAssumption
  DEF Breakers, AllowRequest, Admits, CooldownElapsed, CircuitState,
      JitteredCooldown, LongAgo

LEMMA RecordSuccessFact ==
    ASSUME NEW b \in Breakers
    PROVE  /\ RecordSuccess(b) \in Breakers
           /\ RecordSuccess(b).state = "closed"
           /\ RecordSuccess(b).errors = NoErrors
  BY ErrorsClosed DEF Breakers, RecordSuccess, CircuitState

\* record_error counts the failure or not; it either restarts the cooldown in
\* the open state or leaves state and _opened_at alone.
LEMMA RecordErrorFact ==
    ASSUME NEW b \in Breakers, NEW n \in RecordError(b)
    PROVE  /\ n \in Breakers
           /\ n.errors \in {b.errors, AddError(b.errors)}
           /\ \/ n.state = "open" /\ n.openFor = 0
              \/ n.state = b.state /\ n.openFor = b.openFor /\ b.state # "half_open"
           /\ b.state = "closed" /\ n.state = "open"
                 => Total(AddError(b.errors)) >= Threshold
<1>1. CountError(b) \in Breakers
  BY ErrorsClosed DEF Breakers, CountError
<1>2. CountError(b).errors = AddError(b.errors) /\ CountError(b).state = b.state
      /\ CountError(b).openFor = b.openFor
  BY DEF Breakers, CountError
<1>3. ASSUME NEW d \in Breakers, NEW c \in JitteredCooldown
      PROVE  /\ Trip(d, c) \in Breakers
             /\ Trip(d, c).errors = d.errors
             /\ Trip(d, c).state = "open"
             /\ Trip(d, c).openFor = 0
  <2>1. 0 \in 0 .. LongAgo
    BY BreakerAssumption DEF LongAgo
  <2>2. QED
    BY <2>1 DEF Breakers, Trip, CircuitState
<1>4. CASE b.state = "half_open"
  <2>1. PICK c \in JitteredCooldown : n = Trip(b, c)
    BY <1>4 DEF RecordError
  <2>2. QED
    BY <2>1, <1>3, <1>4
<1>5. CASE b.state # "half_open" /\ Total(AddError(b.errors)) >= Threshold
  <2>1. PICK c \in JitteredCooldown : n = Trip(CountError(b), c)
    BY <1>5 DEF RecordError
  <2>2. QED
    BY <2>1, <1>1, <1>2, <1>3, <1>5
<1>6. CASE b.state # "half_open" /\ ~(Total(AddError(b.errors)) >= Threshold)
  <2>1. n = CountError(b)
    BY <1>6 DEF RecordError
  <2>2. QED
    BY <2>1, <1>1, <1>2, <1>6
<1>7. QED
  BY <1>4, <1>5, <1>6

\* restore_state brings back an open circuit whose base cooldown is running,
\* as old as it was, and no error the snapshot does not have.
LEMMA RestoreStateFact ==
    ASSUME NEW b \in NewBreakers, NEW s \in Snapshots
    PROVE  /\ RestoreState(b, s) \in Breakers
           /\ RestoreState(b, s).errors = s.errors
           /\ s.state = "open" /\ s.openFor < Cooldown =>
                 /\ RestoreState(b, s).state = "open"
                 /\ RestoreState(b, s).openFor = s.openFor
<1>1. b \in Breakers
  BY NewBreakersFact
<1>2. Cooldown <= b.cooldown
  BY <1>1, BreakerAssumption DEF Breakers, JitteredCooldown
<1>3. b.cooldown \in Int /\ Cooldown \in Int /\ s.openFor \in Int
  BY <1>1, BreakerAssumption DEF Breakers, JitteredCooldown, Snapshots, LongAgo
<1>4. RestoreState(b, s) \in Breakers /\ RestoreState(b, s).errors = s.errors
  BY <1>1 DEF RestoreState, Snapshots, Breakers, CircuitState
<1>5. ASSUME s.state = "open", s.openFor < Cooldown
      PROVE  RestoreState(b, s).state = "open" /\ RestoreState(b, s).openFor = s.openFor
  <2>1. s.openFor < b.cooldown
    BY <1>2, <1>3, <1>5
  <2>2. QED
    BY <1>1, <1>5, <2>1 DEF RestoreState, Snapshots, Breakers
<1>6. QED
  BY <1>4, <1>5

LEMMA OlderFact ==
    ASSUME NEW cap \in Nat, NEW age \in 0 .. cap
    PROVE  /\ Older(age, cap) \in 0 .. cap
           /\ Older(age, cap) = age + 1 \/ (age = cap /\ Older(age, cap) = cap)
  BY DEF Older

LEMMA AgedFact ==
    /\ \A b \in Breakers : /\ Aged(b) \in Breakers
                           /\ Aged(b).state = b.state
                           /\ Aged(b).openFor = Older(b.openFor, LongAgo)
                           /\ Aged(b).errors = OlderErrors(b.errors)
    /\ \A s \in Snapshots : /\ Aged(s) \in Snapshots
                            /\ Aged(s).state = s.state
                            /\ Aged(s).openFor = Older(s.openFor, LongAgo)
                            /\ Aged(s).errors = OlderErrors(s.errors)
<1>1. LongAgo \in Nat
  BY BreakerAssumption DEF LongAgo
<1>2. QED
  BY <1>1, ErrorsClosed, OlderFact DEF Aged, Breakers, Snapshots

LEMMA GetStateFact ==
    ASSUME NEW b \in Breakers
    PROVE  /\ GetState(b) \in Snapshots
           /\ GetState(b).state = b.state
           /\ GetState(b).openFor = b.openFor
           /\ GetState(b).errors = b.errors
  BY DEF GetState, Breakers, Snapshots

-----------------------------------------------------------------------------
(***************************************************************************)
(* A breaker, the dispatches, the clock and restarts (CircuitBreaker).     *)
(***************************************************************************)
(***************************************************************************)
(* The inductive invariant.  CooldownHonoured alone is not inductive: a    *)
(* restart re-enters the open state from the snapshot, so the snapshot     *)
(* must satisfy its own version of it, and both must say how old           *)
(* _opened_at is, because that, and not the history, is what the code      *)
(* compares with the cooldown.                                             *)
(***************************************************************************)
OpenAsLongAsTripped ==
    up /\ tripAge < Cooldown => breaker.state = "open" /\ breaker.openFor <= tripAge

SavedAsLongAsTripped ==
    savedTripAge < Cooldown => saved.state = "open" /\ saved.openFor <= savedTripAge

IInv ==
    /\ TypeOK
    /\ OpenAsLongAsTripped
    /\ SavedAsLongAsTripped
    /\ ErrorsAreReal

\* The constants are durations: the caps of the ages are natural numbers, and
\* the longest cooldown is not shorter than the base one.
LEMMA Durations ==
    /\ Cooldown \in Nat /\ LongAgo \in Nat /\ Cooldown <= LongAgo /\ 0 < Cooldown
    /\ 0 \in 0 .. LongAgo /\ 0 \in 0 .. Cooldown /\ Cooldown \in 0 .. Cooldown
  BY BreakerAssumption DEF LongAgo

\* A constructed router starts in a state of the invariant.
LEMMA InitIInv == Init => IInv
<1> SUFFICES ASSUME Init PROVE IInv
  OBVIOUS
<1>1. breaker \in Breakers /\ breaker.state = "closed" /\ breaker.errors = NoErrors
  BY NewBreakersFact DEF Init
<1>2. saved \in Snapshots
  BY Durations, ErrorsClosed DEF Init, NoSnapshot, Snapshots, CircuitState
<1>3. TypeOK
  BY <1>1, <1>2, Durations, ErrorsClosed DEF Init, TypeOK
<1>4. OpenAsLongAsTripped /\ SavedAsLongAsTripped
  BY Durations DEF Init, OpenAsLongAsTripped, SavedAsLongAsTripped
<1>5. ErrorsAreReal
  <2>1. \A age \in 0 .. Window : NoErrors[age] <= NoErrors[age]
    BY DEF NoErrors
  <2>2. breaker.errors = NoErrors /\ saved.errors = NoErrors /\ errorLog = NoErrors
    BY <1>1 DEF Init, NoSnapshot
  <2>3. QED
    BY <2>1, <2>2 DEF ErrorsAreReal
<1>6. QED
  BY <1>3, <1>4, <1>5 DEF IInv

(***************************************************************************)
(* One lemma per action.                                                   *)
(***************************************************************************)
LEMMA ConsultStep ==
    ASSUME IInv, Consult
    PROVE  IInv'
<1> USE DEF IInv
<1>1. breaker \in Breakers
  BY DEF TypeOK
<1>2. TypeOK'
  BY <1>1, AllowRequestFact DEF Consult, TypeOK
<1>3. OpenAsLongAsTripped' /\ SavedAsLongAsTripped'
  <2>1. up /\ tripAge < Cooldown => breaker' = breaker
    <3>1. ASSUME up, tripAge < Cooldown PROVE breaker.openFor < Cooldown
      BY <1>1, <3>1, Durations DEF OpenAsLongAsTripped, TypeOK, Breakers
    <3>2. QED
      BY <1>1, <3>1, AllowRequestFact DEF Consult, OpenAsLongAsTripped
  <2>2. QED
    BY <2>1 DEF Consult, OpenAsLongAsTripped, SavedAsLongAsTripped
<1>4. ErrorsAreReal'
  BY <1>1, AllowRequestFact DEF Consult, ErrorsAreReal
<1>5. QED
  BY <1>2, <1>3, <1>4

\* A call that starts, or ends without an outcome, leaves the breaker alone.
LEMMA QuietCallStep ==
    ASSUME IInv, NEW d \in Dispatchers, Begin(d) \/ Abandon(d)
    PROVE  IInv'
  BY DEF IInv, TypeOK, OpenAsLongAsTripped, SavedAsLongAsTripped, ErrorsAreReal,
         Begin, Abandon

LEMMA SucceedStep ==
    ASSUME IInv, NEW d \in Dispatchers, Succeed(d)
    PROVE  IInv'
<1> USE DEF IInv
<1>1. breaker' \in Breakers /\ breaker'.state = "closed" /\ breaker'.errors = NoErrors
  BY RecordSuccessFact DEF Succeed, TypeOK
<1>2. TypeOK'
  BY <1>1, Durations DEF Succeed, TypeOK
<1>3. OpenAsLongAsTripped' /\ SavedAsLongAsTripped'
  BY Durations DEF Succeed, OpenAsLongAsTripped, SavedAsLongAsTripped
<1>4. ErrorsAreReal'
  <2>1. errorLog \in Errors /\ saved.errors \in Errors
    BY DEF TypeOK, Snapshots
  <2>2. \A age \in 0 .. Window : NoErrors[age] <= errorLog[age]
    BY <2>1, ErrorsMonotonic DEF ErrorsAreReal
  <2>3. QED
    BY <1>1, <2>2 DEF Succeed, ErrorsAreReal
<1>5. QED
  BY <1>2, <1>3, <1>4

LEMMA FailStep ==
    ASSUME IInv, NEW d \in Dispatchers, Fail(d)
    PROVE  IInv'
<1> USE DEF IInv
<1>1. breaker \in Breakers /\ errorLog \in Errors /\ saved.errors \in Errors
      /\ breaker.errors \in Errors
  BY DEF TypeOK, Snapshots, Breakers
<1>2. /\ breaker' \in Breakers
      /\ breaker'.errors \in {breaker.errors, AddError(breaker.errors)}
      /\ \/ breaker'.state = "open" /\ breaker'.openFor = 0
         \/ /\ breaker'.state = breaker.state
            /\ breaker'.openFor = breaker.openFor
            /\ breaker.state # "half_open"
  BY <1>1, RecordErrorFact DEF Fail
<1>3. TypeOK'
  <2>1. tripAge' \in 0 .. Cooldown
    BY Durations DEF Fail, TripAgeAfter, TypeOK
  <2>2. errorLog' \in Errors
    BY <1>1, ErrorsClosed DEF Fail
  <2>3. QED
    BY <1>2, <2>1, <2>2 DEF Fail, TypeOK
<1>4. OpenAsLongAsTripped'
  BY <1>2, Durations DEF Fail, TripAgeAfter, OpenAsLongAsTripped, TypeOK
<1>5. SavedAsLongAsTripped'
  BY DEF Fail, SavedAsLongAsTripped
<1>6. ErrorsAreReal'
  <2>1. \A age \in 0 .. Window : /\ breaker.errors[age] <= AddError(errorLog)[age]
                                 /\ AddError(breaker.errors)[age] <= AddError(errorLog)[age]
    BY <1>1, ErrorsMonotonic DEF ErrorsAreReal
  <2>2. \A age \in 0 .. Window : saved.errors[age] <= AddError(errorLog)[age]
    BY <1>1, ErrorsMonotonic DEF ErrorsAreReal
  <2>3. QED
    BY <1>2, <2>1, <2>2 DEF Fail, ErrorsAreReal
<1>7. QED
  BY <1>3, <1>4, <1>5, <1>6

LEMMA TickStep ==
    ASSUME IInv, Tick
    PROVE  IInv'
<1> USE DEF IInv
<1>1. /\ breaker' \in Breakers
      /\ breaker'.state = breaker.state
      /\ breaker'.openFor = Older(breaker.openFor, LongAgo)
      /\ breaker'.errors = OlderErrors(breaker.errors)
  BY AgedFact DEF Tick, TypeOK
<1>2. /\ saved' \in Snapshots
      /\ saved'.state = saved.state
      /\ saved'.openFor = Older(saved.openFor, LongAgo)
      /\ saved'.errors = OlderErrors(saved.errors)
  BY AgedFact DEF Tick, TypeOK
<1>3. /\ breaker.openFor \in 0 .. LongAgo /\ breaker.errors \in Errors
      /\ saved.openFor \in 0 .. LongAgo /\ saved.errors \in Errors
  BY DEF TypeOK, Breakers, Snapshots
<1>4. TypeOK'
  <2>1. tripAge' \in 0 .. Cooldown /\ savedTripAge' \in 0 .. Cooldown
    BY Durations, OlderFact DEF Tick, TypeOK
  <2>2. errorLog' \in Errors
    BY ErrorsClosed DEF Tick, TypeOK, OlderErrors
  <2>3. QED
    BY <1>1, <1>2, <2>1, <2>2 DEF Tick, TypeOK
<1>5. \A age \in 0 .. LongAgo, trip \in 0 .. Cooldown :
         /\ Older(trip, Cooldown) < Cooldown => trip < Cooldown
         /\ Older(trip, Cooldown) < Cooldown /\ age <= trip
               => Older(age, LongAgo) <= Older(trip, Cooldown)
  BY Durations DEF Older
<1>6. OpenAsLongAsTripped'
  BY <1>1, <1>3, <1>5 DEF Tick, TypeOK, OpenAsLongAsTripped
<1>7. SavedAsLongAsTripped'
  BY <1>2, <1>3, <1>5 DEF Tick, TypeOK, SavedAsLongAsTripped
<1>8. ErrorsAreReal'
  <2>1. errorLog \in Errors
    BY DEF TypeOK
  <2>2. \A age \in 0 .. Window :
          /\ OlderErrors(breaker.errors)[age] <= OlderErrors(errorLog)[age]
          /\ OlderErrors(saved.errors)[age] <= OlderErrors(errorLog)[age]
    BY <1>3, <2>1, ErrorsMonotonic DEF ErrorsAreReal
  <2>3. QED
    BY <1>1, <1>2, <2>2 DEF Tick, ErrorsAreReal, OlderErrors
<1>9. QED
  BY <1>4, <1>6, <1>7, <1>8

LEMMA StopStep ==
    ASSUME IInv, Shutdown \/ Crash
    PROVE  IInv'
<1> USE DEF IInv
<1>1. /\ up /\ ~up' /\ breaker' = breaker /\ errorLog' = errorLog
      /\ tripAge' = tripAge
      /\ calling' = {}
      /\ \/ saved' = GetState(breaker) /\ savedTripAge' = tripAge
         \/ saved' = saved /\ savedTripAge' = savedTripAge
  BY DEF Shutdown, Crash
<1>2. /\ GetState(breaker) \in Snapshots
      /\ GetState(breaker).state = breaker.state
      /\ GetState(breaker).openFor = breaker.openFor
      /\ GetState(breaker).errors = breaker.errors
  BY GetStateFact DEF TypeOK
<1>3. TypeOK'
  <2>1. up' \in BOOLEAN
    BY DEF Shutdown, Crash
  <2>2. QED
    BY <1>1, <1>2, <2>1 DEF TypeOK
<1>4. OpenAsLongAsTripped' /\ SavedAsLongAsTripped'
  BY <1>1, <1>2 DEF OpenAsLongAsTripped, SavedAsLongAsTripped
<1>5. ErrorsAreReal'
  BY <1>1, <1>2 DEF ErrorsAreReal
<1>6. QED
  BY <1>3, <1>4, <1>5

LEMMA BootStep ==
    ASSUME IInv, Boot
    PROVE  IInv'
<1> USE DEF IInv
<1>1. PICK b \in NewBreakers : breaker' = RestoreState(b, saved)
  BY DEF Boot
<1>2. /\ breaker' \in Breakers
      /\ breaker'.errors = saved.errors
      /\ saved.state = "open" /\ saved.openFor < Cooldown =>
            breaker'.state = "open" /\ breaker'.openFor = saved.openFor
  BY <1>1, RestoreStateFact DEF TypeOK
<1>3. TypeOK'
  BY <1>2 DEF Boot, TypeOK
<1>4. OpenAsLongAsTripped'
  <2> SUFFICES ASSUME savedTripAge < Cooldown
               PROVE  breaker'.state = "open" /\ breaker'.openFor <= savedTripAge
    BY DEF Boot, OpenAsLongAsTripped
  <2>1. saved.state = "open" /\ saved.openFor <= savedTripAge
    BY DEF SavedAsLongAsTripped
  <2>2. saved.openFor < Cooldown
    BY <2>1, Durations DEF TypeOK, Snapshots
  <2>3. QED
    BY <1>2, <2>1, <2>2
<1>5. SavedAsLongAsTripped'
  BY DEF Boot, SavedAsLongAsTripped
<1>6. ErrorsAreReal'
  BY <1>2 DEF Boot, ErrorsAreReal
<1>7. QED
  BY <1>3, <1>4, <1>5, <1>6

LEMMA NextIInv == IInv /\ [Next]_vars => IInv'
<1> SUFFICES ASSUME IInv, [Next]_vars PROVE IInv'
  OBVIOUS
<1>1. CASE Consult
  BY <1>1, ConsultStep
<1>2. CASE \E d \in Dispatchers : Begin(d) \/ Succeed(d) \/ Fail(d) \/ Abandon(d)
  BY <1>2, QuietCallStep, SucceedStep, FailStep
<1>3. CASE Tick
  BY <1>3, TickStep
<1>4. CASE Restart
  BY <1>4, StopStep, BootStep DEF Restart
<1>5. CASE UNCHANGED vars
  BY <1>5 DEF vars, IInv, TypeOK, OpenAsLongAsTripped, SavedAsLongAsTripped, ErrorsAreReal
<1>6. QED
  BY <1>1, <1>2, <1>3, <1>4, <1>5 DEF Next

-----------------------------------------------------------------------------
(***************************************************************************)
(* The theorems.                                                           *)
(***************************************************************************)

\* The inductive invariant holds in every reachable state.
THEOREM Invariance == Spec => []IInv
<1>1. Init => IInv
  BY InitIInv
<1>2. IInv /\ [Next]_vars => IInv'
  BY NextIInv
<1>3. QED
  BY <1>1, <1>2, PTL DEF Spec

\* Every variable, and in particular every breaker a restart may restore, has
\* its type.
THEOREM TypeCorrect == Spec => []TypeOK
<1>1. IInv => TypeOK
  BY DEF IInv
<1>2. QED
  BY <1>1, Invariance, PTL

\* HAZ-009 and HAZ-012: a tripped breaker is open for a full base cooldown
\* unless a success was reported, across restarts.
THEOREM CooldownTheorem == Spec => []CooldownHonoured
<1>1. IInv => CooldownHonoured
  BY DEF IInv, OpenAsLongAsTripped, CooldownHonoured
<1>2. QED
  BY <1>1, Invariance, PTL

\* A closed circuit opens in one way only, the failure of a call, and what the
\* breaker counts then it was told of within the window: its list is part of
\* the log of the failures.
THEOREM EarnedTheorem == Spec => TripsAreEarned
<1> DEFINE Earned == up /\ breaker.state = "closed" /\ breaker'.state = "open"
                        => Total(errorLog') >= Threshold
<1>1. IInv /\ [Next]_vars => Earned
  <2> SUFFICES ASSUME IInv, [Next]_vars, up,
                      breaker.state = "closed", breaker'.state = "open"
               PROVE  Total(errorLog') >= Threshold
    OBVIOUS
  <2>1. breaker \in Breakers /\ errorLog \in Errors
    BY DEF IInv, TypeOK
  <2>2. AllowRequest(breaker).state # "open" /\ Aged(breaker).state # "open"
    BY <2>1, AgedFact DEF AllowRequest
  <2>3. RecordSuccess(breaker).state # "open"
    BY <2>1, RecordSuccessFact
  <2>4. PICK d \in Dispatchers : Fail(d)
    BY <2>1, <2>2, <2>3
    DEF Next, Consult, Begin, Succeed, Abandon, Tick, Restart, Shutdown, Crash, Boot, vars
  <2>5. Total(AddError(breaker.errors)) >= Threshold
    BY <2>1, <2>4, RecordErrorFact DEF Fail
  <2>6. /\ breaker.errors \in Errors
        /\ \A age \in 0 .. Window : breaker.errors[age] <= errorLog[age]
    BY <2>1 DEF Breakers, IInv, ErrorsAreReal
  <2>7. \A age \in 0 .. Window : AddError(breaker.errors)[age] <= AddError(errorLog)[age]
    BY <2>1, <2>6, ErrorsMonotonic
  <2>8. AddError(breaker.errors) \in Errors /\ AddError(errorLog) \in Errors
    BY <2>1, <2>6, ErrorsClosed
  <2>9. /\ Total(AddError(breaker.errors)) <= Total(AddError(errorLog))
        /\ Total(AddError(breaker.errors)) \in Nat /\ Total(AddError(errorLog)) \in Nat
    BY <2>7, <2>8, TotalMonotonic
  <2>10. QED
    BY <2>4, <2>5, <2>9, BreakerAssumption DEF Fail
<1>2. QED
  BY <1>1, Invariance, PTL DEF Spec, TripsAreEarned

\* No failure is invented or made younger by the clock or by a restart.
THEOREM ErrorsTheorem == Spec => []ErrorsAreReal
<1>1. IInv => ErrorsAreReal
  BY DEF IInv
<1>2. QED
  BY <1>1, Invariance, PTL

-----------------------------------------------------------------------------
(***************************************************************************)
(* The health check loop (HealthCheckLoop).  No backend is probed while its *)
(* circuit is open, and degraded is the status of the backends with too many *)
(* violations in a row and of no other, whatever refreshes and the         *)
(* administrator write between a probe and its result.  The type invariant, *)
(* ProbedIsNotOpen and DegradedIsSlow are inductive together.              *)
(***************************************************************************)
LoopInv == LoopTypeOK /\ ProbedIsNotOpen /\ DegradedIsSlow

(* The types of what the loop, the refreshes and the administrator write.  *)
LoopOK ==
    /\ status \in [Backends -> Status]
    /\ breakers \in [Backends -> Breakers]
    /\ slow \in [Backends -> 0 .. SloLimit]
    /\ probe \in [Backends -> {"none", "due", "sent"}]

RestOK ==
    /\ loop \in {"asleep", "awake", "probing", "refreshing"}
    /\ cycles \in 0 .. OnCycleInterval - 1
    /\ refresh \in [Refreshers -> {"idle", "asking"} \cup Results]
    /\ server \in [Backends -> Answers]
    /\ lifted \subseteq Backends

KeyOK == keyAccepted \in BOOLEAN

-----------------------------------------------------------------------------
LEMMA Parts == LoopTypeOK <=> LoopOK /\ RestOK /\ KeyOK
BY DEF LoopTypeOK, LoopOK, RestOK, KeyOK

LEMMA Intervals == SloLimit \in Nat \ {0} /\ OnCycleInterval \in Nat \ {0}
BY LoopAssumption

(* At the start every breaker is closed and no probe is sent.              *)
LEMMA InitLoopInv == LoopInit => LoopInv
<1> SUFFICES ASSUME LoopInit PROVE LoopInv
  OBVIOUS
<1>1. LoopOK
  <2>1. breakers \in [Backends -> Breakers]
    BY NewBreakersFact DEF LoopInit
  <2>2. QED  BY <2>1, Intervals DEF LoopInit, LoopOK, Status
<1>2. RestOK
  BY Intervals DEF LoopInit, RestOK, Answers, Results
<1>3. KeyOK  BY DEF LoopInit, KeyOK
<1>4. ProbedIsNotOpen  BY DEF LoopInit, ProbedIsNotOpen
<1>5. DegradedIsSlow  BY Intervals DEF LoopInit, DegradedIsSlow
<1>6. QED  BY <1>1, <1>2, <1>3, <1>4, <1>5, Parts DEF LoopInv

(* A step that leaves the statuses, the breakers, the counts and the       *)
(* probes alone.                                                           *)
LEMMA QuietStep ==
    ASSUME LoopInv, UNCHANGED <<status, breakers, slow, probe, lifted>>, RestOK', KeyOK'
    PROVE  LoopInv'
<1>1. LoopOK'  BY Parts DEF LoopInv, LoopOK
<1>2. ProbedIsNotOpen'  BY DEF LoopInv, ProbedIsNotOpen
<1>3. DegradedIsSlow'  BY DEF LoopInv, DegradedIsSlow
<1>4. LoopTypeOK'  BY <1>1 DEF LoopTypeOK, LoopOK, RestOK, KeyOK
<1>5. QED  BY <1>2, <1>3, <1>4 DEF LoopInv

(* A probe starts: the breaker lets it through, and is then not open.      *)
LEMMA BeginProbeStep ==
    ASSUME LoopInv, NEW b \in Backends, BeginProbe(b)
    PROVE  LoopInv'
<1>1. LoopOK /\ RestOK /\ KeyOK  BY Parts DEF LoopInv
<1>2. /\ UNCHANGED <<status, slow, loop, cycles, refresh, server, keyAccepted>>
      /\ UNCHANGED lifted
  BY DEF BeginProbe, env
<1>3. DegradedIsSlow'  BY <1>2 DEF LoopInv, DegradedIsSlow
<1>4. RestOK' /\ KeyOK'  BY <1>1, <1>2 DEF RestOK, KeyOK
<1>5. CASE status[b] = "key_invalid"
  <2>1. probe' = [probe EXCEPT ![b] = "none"] /\ breakers' = breakers
    BY <1>5 DEF BeginProbe
  <2>2. LoopOK'  BY <1>1, <1>2, <2>1 DEF LoopOK
  <2>3. ProbedIsNotOpen'  BY <1>1, <2>1 DEF LoopInv, ProbedIsNotOpen, LoopOK
  <2>4. LoopTypeOK'  BY <1>4, <2>2 DEF LoopTypeOK, LoopOK, RestOK, KeyOK
  <2>5. QED  BY <1>3, <2>3, <2>4 DEF LoopInv
<1>6. CASE status[b] # "key_invalid"
  <2>1. /\ breakers' = [breakers EXCEPT ![b] = AllowRequest(breakers[b])]
        /\ probe' = [probe EXCEPT ![b] =
                        IF Admits(breakers[b]) \/ breakers'[b].state = "half_open"
                        THEN "sent" ELSE "none"]
    BY <1>6 DEF BeginProbe
  <2>2. /\ breakers[b] \in Breakers /\ AllowRequest(breakers[b]) \in Breakers
        /\ Admits(breakers[b]) => AllowRequest(breakers[b]).state # "open"
    BY <1>1, AllowRequestFact DEF LoopOK
  <2>3. LoopOK'  BY <1>1, <1>2, <2>1, <2>2 DEF LoopOK
  <2>4. ASSUME NEW d \in Backends, probe'[d] = "sent" PROVE breakers'[d].state # "open"
    <3>1. CASE d = b
      <4>1. breakers'[b] = AllowRequest(breakers[b])
        BY <1>1, <2>1 DEF LoopOK
      <4>2. Admits(breakers[b]) \/ breakers'[b].state = "half_open"
        BY <1>1, <2>1, <2>4, <3>1 DEF LoopOK
      <4>3. QED  BY <2>2, <3>1, <4>1, <4>2
    <3>2. CASE d # b
      BY <1>1, <2>1, <2>4, <3>2 DEF LoopOK, LoopInv, ProbedIsNotOpen
    <3>3. QED  BY <3>1, <3>2
  <2>5. ProbedIsNotOpen'  BY <2>4 DEF ProbedIsNotOpen
  <2>6. LoopTypeOK'  BY <1>4, <2>3 DEF LoopTypeOK, LoopOK, RestOK, KeyOK
  <2>7. QED  BY <1>3, <2>5, <2>6 DEF LoopInv
<1>7. QED  BY <1>5, <1>6

(* A probe ends: the status it leaves is degraded exactly when the count   *)
(* it leaves is at the limit.                                              *)
LEMMA EndProbeStep ==
    ASSUME LoopInv, NEW b \in Backends, EndProbe(b)
    PROVE  LoopInv'
<1>1. LoopOK /\ RestOK /\ KeyOK  BY Parts DEF LoopInv
<1>2. /\ probe' = [probe EXCEPT ![b] = "none"] /\ lifted' = lifted \ {b}
      /\ UNCHANGED <<loop, cycles, refresh, server, keyAccepted>>
  BY DEF EndProbe, env
<1>3. RestOK' /\ KeyOK'  BY <1>1, <1>2 DEF RestOK, KeyOK
<1>4. /\ \E new \in Breakers : breakers' = [breakers EXCEPT ![b] = new]
      /\ \E n \in 0 .. SloLimit, s \in Status :
            /\ slow' = [slow EXCEPT ![b] = n] /\ status' = [status EXCEPT ![b] = s]
            /\ s = "degraded" => n = SloLimit
            /\ n = SloLimit => s \in {"degraded", "offline"}
  <2>1. CASE Missing(server[b])
    <3>1. status' = [status EXCEPT ![b] = "offline"] /\ breakers' = breakers /\ slow' = slow
      BY <2>1 DEF EndProbe
    <3>2. breakers' = [breakers EXCEPT ![b] = breakers[b]] /\ slow' = [slow EXCEPT ![b] = slow[b]]
      BY <1>1, <3>1 DEF LoopOK
    <3>3. breakers[b] \in Breakers /\ slow[b] \in 0 .. SloLimit /\ "offline" \in Status
      BY <1>1 DEF LoopOK, Status
    <3>4. QED  BY <3>1, <3>2, <3>3
  <2>2. CASE ~Missing(server[b])
    <3>1. PICK answer \in Answers : answer = server[b]
      BY <1>1 DEF RestOK
    <3>2. PICK after \in BreakersAfter(b, answer) : breakers' = [breakers EXCEPT ![b] = after]
      BY <2>2, <3>1 DEF EndProbe
    <3>3. after \in Breakers
      <4>1. breakers[b] \in Breakers  BY <1>1 DEF LoopOK
      <4>2. QED  BY <4>1, RecordSuccessFact, RecordErrorFact DEF BreakersAfter
    <3>4. /\ slow' = [slow EXCEPT ![b] = SlowAfter(b, answer)]
          /\ status' = [status EXCEPT ![b] = StatusAfter(b, answer)]
      BY <2>2, <3>1 DEF EndProbe
    <3>5. SlowAfter(b, answer) \in 0 .. SloLimit
      BY <1>1, Intervals DEF LoopOK, SlowAfter
    <3>6. slow'[b] = SlowAfter(b, answer) /\ slow'[b] \in 0 .. SloLimit
      BY <1>1, <3>4, <3>5 DEF LoopOK
    <3>7. CASE slow'[b] = SloLimit
      <4>1. StatusAfter(b, answer) = "degraded"
        BY <3>7 DEF StatusAfter
      <4>2. QED  BY <3>2, <3>3, <3>4, <3>5, <3>6, <3>7, <4>1 DEF Status
    <3>8. CASE slow'[b] # SloLimit
      <4>1. StatusAfter(b, answer) \in {"available", "error"}
        BY <3>8 DEF StatusAfter
      <4>2. QED  BY <3>2, <3>3, <3>4, <3>5, <3>6, <3>8, <4>1 DEF Status
    <3>9. QED  BY <3>7, <3>8
  <2>3. QED  BY <2>1, <2>2
<1>5. LoopOK'  BY <1>1, <1>2, <1>4 DEF LoopOK
<1>6. ProbedIsNotOpen'
  BY <1>1, <1>2, <1>4 DEF LoopOK, LoopInv, ProbedIsNotOpen
<1>7. DegradedIsSlow'
  <2>1. PICK n \in 0 .. SloLimit, s \in Status :
            /\ slow' = [slow EXCEPT ![b] = n] /\ status' = [status EXCEPT ![b] = s]
            /\ s = "degraded" => n = SloLimit
            /\ n = SloLimit => s \in {"degraded", "offline"}
    BY <1>4
  <2>2. ASSUME NEW d \in Backends
        PROVE  /\ status'[d] = "degraded" => slow'[d] = SloLimit
               /\ slow'[d] = SloLimit /\ d \notin lifted' =>
                     status'[d] \in {"degraded", "offline", "retired", "key_invalid"}
    BY <1>1, <1>2, <2>1 DEF LoopOK, LoopInv, DegradedIsSlow
  <2>3. QED  BY <2>2 DEF DegradedIsSlow
<1>8. LoopTypeOK'  BY <1>3, <1>5 DEF LoopTypeOK, LoopOK, RestOK, KeyOK
<1>9. QED  BY <1>6, <1>7, <1>8 DEF LoopInv

(* The result of a refresh: every backend gets key_invalid, or some        *)
(* key_invalid ones become available, by hand.                             *)
LEMMA ApplyStep ==
    ASSUME LoopInv, NEW r \in Refreshers, Apply(r)
    PROVE  LoopInv'
<1>1. LoopOK /\ RestOK /\ KeyOK  BY Parts DEF LoopInv
<1>2. /\ UNCHANGED <<breakers, slow, probe, cycles, server, keyAccepted>>
      /\ lifted' = lifted \cup Restored(r)
      /\ refresh[r] \in Results
      /\ refresh' = [refresh EXCEPT ![r] = "idle"]
      /\ loop' = IF r = Loop THEN "asleep" ELSE loop
      /\ status' = [b \in Backends |->
            IF refresh[r] = "denied" THEN "key_invalid"
            ELSE IF b \in Restored(r) THEN "available"
            ELSE status[b]]
  BY DEF Apply, env
<1>3. Restored(r) \subseteq Backends
  BY DEF Restored
<1>4. RestOK' /\ KeyOK'
  BY <1>1, <1>2, <1>3 DEF RestOK, KeyOK
<1>5. LoopOK'  BY <1>1, <1>2 DEF LoopOK, Status
<1>6. ProbedIsNotOpen'  BY <1>2 DEF LoopInv, ProbedIsNotOpen
<1>7. DegradedIsSlow'  BY <1>2 DEF LoopInv, DegradedIsSlow
<1>8. LoopTypeOK'  BY <1>4, <1>5 DEF LoopTypeOK, LoopOK, RestOK, KeyOK
<1>9. QED  BY <1>6, <1>7, <1>8 DEF LoopInv

(* The administrator retires or reinstates a backend.                      *)
LEMMA AdminStep ==
    ASSUME LoopInv, NEW b \in Backends, Retire(b) \/ Reinstate(b)
    PROVE  LoopInv'
<1>1. LoopOK /\ RestOK /\ KeyOK  BY Parts DEF LoopInv
<1>2. /\ UNCHANGED <<breakers, slow, probe, loop, cycles, refresh, server, keyAccepted>>
      /\ \/ status' = [status EXCEPT ![b] = "retired"] /\ lifted' = lifted
         \/ status' = [status EXCEPT ![b] = "available"] /\ lifted' = lifted \cup {b}
  BY DEF Retire, Reinstate, env
<1>3. RestOK' /\ KeyOK'  BY <1>1, <1>2 DEF RestOK, KeyOK
<1>4. LoopOK'  BY <1>1, <1>2 DEF LoopOK, Status
<1>5. ProbedIsNotOpen'  BY <1>2 DEF LoopInv, ProbedIsNotOpen
<1>6. DegradedIsSlow'  BY <1>1, <1>2 DEF LoopInv, DegradedIsSlow, LoopOK
<1>7. LoopTypeOK'  BY <1>3, <1>4 DEF LoopTypeOK, LoopOK, RestOK, KeyOK
<1>8. QED  BY <1>5, <1>6, <1>7 DEF LoopInv

(* A cycle starts.                                                         *)
LEMMA StartStep ==
    ASSUME LoopInv, StartCycle
    PROVE  LoopInv'
<1>1. LoopOK /\ RestOK /\ KeyOK  BY Parts DEF LoopInv
<1>2. /\ loop' = "probing" /\ probe' = [b \in Backends |-> "due"]
      /\ UNCHANGED <<status, breakers, slow, cycles, refresh, server, keyAccepted>>
      /\ UNCHANGED lifted
  BY DEF StartCycle, env
<1>3. RestOK' /\ KeyOK'  BY <1>1, <1>2 DEF RestOK, KeyOK
<1>4. LoopOK'  BY <1>1, <1>2 DEF LoopOK
<1>5. ProbedIsNotOpen' /\ DegradedIsSlow'
  BY <1>2 DEF LoopInv, ProbedIsNotOpen, DegradedIsSlow
<1>6. LoopTypeOK'  BY <1>3, <1>4 DEF LoopTypeOK, LoopOK, RestOK, KeyOK
<1>7. QED  BY <1>5, <1>6 DEF LoopInv

(* Time passes: the breakers age, in the state they are in.                *)
LEMMA LoopTickStep ==
    ASSUME LoopInv, LoopTick
    PROVE  LoopInv'
<1>1. LoopOK /\ RestOK /\ KeyOK  BY Parts DEF LoopInv
<1>2. /\ breakers' = [b \in Backends |-> Aged(breakers[b])]
      /\ loop' = IF loop = "asleep" THEN "awake" ELSE loop
      /\ UNCHANGED <<status, slow, probe, cycles, refresh, server, keyAccepted>>
      /\ UNCHANGED lifted
  BY DEF LoopTick, env
<1>3. \A b \in Backends : breakers'[b] \in Breakers /\ breakers'[b].state = breakers[b].state
  BY <1>1, <1>2, AgedFact DEF LoopOK
<1>4. RestOK' /\ KeyOK'  BY <1>1, <1>2 DEF RestOK, KeyOK
<1>5. LoopOK'  BY <1>1, <1>2, <1>3 DEF LoopOK
<1>6. ProbedIsNotOpen'  BY <1>2, <1>3 DEF LoopInv, ProbedIsNotOpen
<1>7. DegradedIsSlow'  BY <1>2 DEF LoopInv, DegradedIsSlow
<1>8. LoopTypeOK'  BY <1>4, <1>5 DEF LoopTypeOK, LoopOK, RestOK, KeyOK
<1>9. QED  BY <1>6, <1>7, <1>8 DEF LoopInv

(* The steps that touch neither a backend's status nor its breaker.        *)
LEMMA OtherStep ==
    ASSUME LoopInv,
           \/ EndCycle \/ KeyChanges
           \/ \E b \in Backends : ServerChanges(b)
           \/ \E r \in Refreshers : AskProvider(r) \/ Answer(r)
    PROVE  LoopInv'
<1>1. LoopOK /\ RestOK /\ KeyOK  BY Parts DEF LoopInv
<1>2. CASE EndCycle
  <2>1. Loop \in Refreshers /\ cycles \in 0 .. OnCycleInterval - 1
    BY <1>1 DEF Refreshers, RestOK
  <2>2. RestOK'
    BY <1>1, <1>2, <2>1, Intervals DEF EndCycle, RestOK, Results, env
  <2>3. KeyOK'  BY <1>1, <1>2 DEF EndCycle, KeyOK, env
  <2>4. QED  BY <1>2, <2>2, <2>3, QuietStep DEF EndCycle
<1>3. CASE KeyChanges
  <2>1. RestOK'  BY <1>1, <1>3 DEF KeyChanges, RestOK
  <2>2. KeyOK'  BY <1>1, <1>3 DEF KeyChanges, KeyOK
  <2>3. QED  BY <1>3, <2>1, <2>2, QuietStep DEF KeyChanges
<1>4. CASE \E b \in Backends : ServerChanges(b)
  <2>1. PICK b \in Backends : ServerChanges(b)
    BY <1>4
  <2>2. RestOK'  BY <1>1, <2>1 DEF ServerChanges, RestOK
  <2>3. KeyOK'  BY <1>1, <2>1 DEF ServerChanges, KeyOK
  <2>4. QED  BY <2>1, <2>2, <2>3, QuietStep DEF ServerChanges
<1>5. CASE \E r \in Refreshers : AskProvider(r)
  <2>1. PICK r \in Refreshers : AskProvider(r)
    BY <1>5
  <2>2. RestOK'  BY <1>1, <2>1 DEF AskProvider, RestOK, env
  <2>3. KeyOK'  BY <1>1, <2>1 DEF AskProvider, KeyOK, env
  <2>4. QED  BY <2>1, <2>2, <2>3, QuietStep DEF AskProvider
<1>6. CASE \E r \in Refreshers : Answer(r)
  <2>1. PICK r \in Refreshers : Answer(r)
    BY <1>6
  <2>2. RestOK'  BY <1>1, <2>1 DEF Answer, RestOK, Results, env
  <2>3. KeyOK'  BY <1>1, <2>1 DEF Answer, KeyOK, env
  <2>4. QED  BY <2>1, <2>2, <2>3, QuietStep DEF Answer
<1>7. QED  BY <1>2, <1>3, <1>4, <1>5, <1>6

-----------------------------------------------------------------------------
(* The inductive invariant of every behaviour.                             *)
THEOREM LoopInvariance == LoopSpec => []LoopInv
<1>1. LoopInit => LoopInv
  BY InitLoopInv
<1>2. LoopInv /\ [LoopNext]_loopVars => LoopInv'
  <2> SUFFICES ASSUME LoopInv, [LoopNext]_loopVars PROVE LoopInv'
    OBVIOUS
  <2>1. CASE UNCHANGED loopVars
    <3>1. RestOK' /\ KeyOK'
      BY <2>1, Parts DEF loopVars, env, LoopInv, RestOK, KeyOK
    <3>2. QED  BY <2>1, <3>1, QuietStep DEF loopVars
  <2>2. CASE LoopNext
    BY <2>2, StartStep, LoopTickStep, BeginProbeStep, EndProbeStep, AdminStep, ApplyStep, OtherStep DEF LoopNext
  <2>3. QED  BY <2>1, <2>2
<1>3. QED  BY <1>1, <1>2, PTL DEF LoopSpec

(* The loop, its breakers and counts keep their types; in particular no    *)
(* status outside Status is ever set.                                      *)
THEOREM LoopTypeCorrect == LoopSpec => []LoopTypeOK
<1>1. LoopInv => LoopTypeOK  BY DEF LoopInv
<1>2. QED  BY <1>1, LoopInvariance, PTL

(* No probe is under way to a backend whose circuit is open                *)
(* (_probe_backend).                                                       *)
THEOREM ProbeTheorem == LoopSpec => []ProbedIsNotOpen
<1>1. LoopInv => ProbedIsNotOpen  BY DEF LoopInv
<1>2. QED  BY <1>1, LoopInvariance, PTL

(* Degraded is what a backend with too many violations in a row is, and no *)
(* other (_update_backend_status).                                         *)
THEOREM DegradedTheorem == LoopSpec => []DegradedIsSlow
<1>1. LoopInv => DegradedIsSlow  BY DEF LoopInv
<1>2. QED  BY <1>1, LoopInvariance, PTL

=============================================================================
