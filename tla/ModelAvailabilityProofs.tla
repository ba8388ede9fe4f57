----------------------- MODULE ModelAvailabilityProofs -----------------------
(***************************************************************************)
(* Proofs that a model that is gone stays out of routing in every process, *)
(* that no suspension outlasts what earned it, and that providers are      *)
(* suspended on their count of 403s, for any number of processes, models   *)
(* and providers and any TTLs.                                             *)
(*                                                                         *)
(* The properties speak of what a check answers; the inductive invariant   *)
(* speaks of the three places the answer comes from.  Each of them holds   *)
(* at most the time still due (NothingOverstays), and the database has the *)
(* retirement of every model that is gone (GoneInDatabase).                *)
(***************************************************************************)
EXTENDS ModelAvailability, TLAPS

GoneInDatabase == gone \subseteq dbRetired

NothingOverstays ==
    /\ \A p \in Processes, m \in Models : memLeft[p][m] <= due[m]
    /\ \A p \in Processes, v \in Providers : providerLeft[p][v] <= providerDue[v]
    /\ \A m \in Models : dbLeft[m] <= due[m]

IInv == TypeOK /\ GoneInDatabase /\ NothingOverstays /\ ProviderSuspensionIsCounted

-----------------------------------------------------------------------------
(* The TTLs are positive and bounded by the largest (__init__).            *)
LEMMA TtlBounds ==
    /\ MaxTtl \in Nat
    /\ \A s \in Transient : Ttl[s] \in 1 .. MaxTtl
<1>1. /\ Ttl["403"] = Ttl403 /\ Ttl["429"] = Ttl429 /\ Ttl["5xx"] = Ttl5xx
      /\ Ttl403 \in Nat \ {0} /\ Ttl429 \in Nat \ {0} /\ Ttl5xx \in Nat \ {0}
  BY AvailabilityAssumption DEF Ttl, Transient
<1>2. Ttls = {Ttl403, Ttl429, Ttl5xx}
  BY <1>1 DEF Ttls, Transient
<1>3. \E t \in Ttls : \A u \in Ttls : u <= t
  <2>1. CASE Ttl403 >= Ttl429 /\ Ttl403 >= Ttl5xx
    BY <1>1, <1>2, <2>1
  <2>2. CASE Ttl429 >= Ttl403 /\ Ttl429 >= Ttl5xx
    BY <1>1, <1>2, <2>2
  <2>3. CASE Ttl5xx >= Ttl403 /\ Ttl5xx >= Ttl429
    BY <1>1, <1>2, <2>3
  <2>4. QED  BY <1>1, <2>1, <2>2, <2>3
<1>4. MaxTtl \in Ttls /\ \A u \in Ttls : u <= MaxTtl
  BY <1>3 DEF MaxTtl
<1>5. \A s \in Transient : Ttl[s] \in Ttls
  BY DEF Ttls
<1>6. QED  BY <1>1, <1>2, <1>4, <1>5

(* Passing time takes one unit from what is left, keeps an entry an entry, *)
(* and keeps the order of two of them (_is_retired_or_suspended).          *)
LEMMA LessFacts ==
    ASSUME NEW l \in Int, NEW d \in Nat, l >= Absent
    PROVE  /\ Less(l) \in Int
           /\ Less(l) >= Absent
           /\ Less(l) <= l
           /\ Less(l) # Absent <=> l # Absent
           /\ l <= d => Less(l) <= Less(d)
           /\ Less(d) \in Nat
BY DEF Less, Absent

(* The constants of provider-wide suspension are positive numbers.         *)
LEMMA ProviderConstants ==
    /\ ProviderTtl \in Nat \ {0}
    /\ ProviderThreshold \in Nat \ {0}
    /\ \A m \in Models : ProviderOf[m] \in Providers
BY AvailabilityAssumption

-----------------------------------------------------------------------------
(* The invariant holds when the processes start on an empty database.      *)
LEMMA InitIInv == Init => IInv
<1> SUFFICES ASSUME Init PROVE IInv
  OBVIOUS
<1> USE DEF Init
<1>1. TypeOK
  BY TtlBounds, ProviderConstants DEF TypeOK, Left
<1>2. GoneInDatabase
  BY DEF GoneInDatabase
<1>3. NothingOverstays
  BY DEF NothingOverstays, Absent
<1>4. ProviderSuspensionIsCounted
  BY ProviderConstants DEF ProviderSuspensionIsCounted
<1>5. QED  BY <1>1, <1>2, <1>3, <1>4 DEF IInv

(* record_error with 404 or 410 keeps the invariant.                       *)
LEMMA RecordGoneStep ==
    ASSUME IInv, NEW p \in Processes, NEW m \in Models, RecordGone(p, m)
    PROVE  IInv'
<1> USE DEF IInv, RecordGone
<1>1. TypeOK'  BY DEF TypeOK
<1>2. GoneInDatabase'  BY DEF GoneInDatabase
<1>3. NothingOverstays'  BY DEF NothingOverstays
<1>4. ProviderSuspensionIsCounted'  BY DEF ProviderSuspensionIsCounted
<1>5. QED  BY <1>1, <1>2, <1>3, <1>4

(* _track_provider_suspension keeps a provider's count, its suspension and *)
(* the time due to it in step.                                             *)
LEMMA ForbidStep ==
    ASSUME IInv, NEW p \in Processes, NEW v \in Providers, Forbid(p, v)
    PROVE  /\ forbidden' \in [Processes -> [Providers -> 0 .. ProviderThreshold]]
           /\ providerLeft' \in [Processes -> [Providers -> Left(ProviderTtl)]]
           /\ providerDue' \in [Providers -> 0 .. ProviderTtl]
           /\ \A q \in Processes, w \in Providers : providerLeft'[q][w] <= providerDue'[w]
           /\ ProviderSuspensionIsCounted'
<1> USE ProviderConstants
<1> DEFINE count == IF forbidden[p][v] < ProviderThreshold
                    THEN forbidden[p][v] + 1 ELSE ProviderThreshold
<1>1. /\ count \in 1 .. ProviderThreshold
      /\ count = ProviderThreshold <=> count >= ProviderThreshold
      /\ count < ProviderThreshold => forbidden[p][v] # ProviderThreshold
  BY DEF IInv, TypeOK
<1>2. /\ forbidden' = [forbidden EXCEPT ![p][v] = count]
      /\ providerLeft' = [providerLeft EXCEPT
                             ![p][v] = IF count >= ProviderThreshold THEN ProviderTtl ELSE @]
      /\ providerDue' = [providerDue EXCEPT ![v] = ProviderTtl]
  BY DEF Forbid
<1> HIDE DEF count
<1>3. /\ forbidden' \in [Processes -> [Providers -> 0 .. ProviderThreshold]]
      /\ providerLeft' \in [Processes -> [Providers -> Left(ProviderTtl)]]
      /\ providerDue' \in [Providers -> 0 .. ProviderTtl]
  BY <1>1, <1>2 DEF IInv, TypeOK, Left
<1>4. \A q \in Processes, w \in Providers : providerLeft'[q][w] <= providerDue'[w]
  BY <1>1, <1>2 DEF IInv, TypeOK, NothingOverstays, Left, Absent
<1>5. ProviderSuspensionIsCounted'
  BY <1>1, <1>2 DEF IInv, TypeOK, ProviderSuspensionIsCounted, Absent
<1>6. QED  BY <1>3, <1>4, <1>5

(* record_error with a status that suspends keeps the invariant.           *)
LEMMA RecordTransientStep ==
    ASSUME IInv, NEW p \in Processes, NEW m \in Models, NEW s \in Transient,
           RecordTransient(p, m, s)
    PROVE  IInv'
<1>1. Ttl[s] \in 1 .. MaxTtl /\ MaxTtl \in Nat
  BY TtlBounds
<1>2. /\ memLeft' = [memLeft EXCEPT ![p][m] = Ttl[s]]
      /\ dbLeft' = [dbLeft EXCEPT ![m] = Ttl[s]]
      /\ due' = [due EXCEPT ![m] = IF @ < Ttl[s] THEN Ttl[s] ELSE @]
      /\ UNCHANGED <<memRetired, dbRetired, pruning, gone>>
  BY DEF RecordTransient, Renewed
<1>3. \/ Forbid(p, ProviderOf[m])
      \/ UNCHANGED <<forbidden, providerLeft, providerDue>>
  BY DEF RecordTransient
<1>4. /\ forbidden' \in [Processes -> [Providers -> 0 .. ProviderThreshold]]
      /\ providerLeft' \in [Processes -> [Providers -> Left(ProviderTtl)]]
      /\ providerDue' \in [Providers -> 0 .. ProviderTtl]
      /\ \A q \in Processes, w \in Providers : providerLeft'[q][w] <= providerDue'[w]
      /\ ProviderSuspensionIsCounted'
  <2>1. CASE Forbid(p, ProviderOf[m])
    BY <2>1, ForbidStep, ProviderConstants
  <2>2. CASE UNCHANGED <<forbidden, providerLeft, providerDue>>
    BY <2>2 DEF IInv, TypeOK, NothingOverstays, ProviderSuspensionIsCounted
  <2>3. QED  BY <1>3, <2>1, <2>2
<1>5. /\ memLeft' \in [Processes -> [Models -> Left(MaxTtl)]]
      /\ dbLeft' \in [Models -> Left(MaxTtl)]
      /\ due' \in [Models -> 0 .. MaxTtl]
  BY <1>1, <1>2 DEF IInv, TypeOK, Left
<1>6. TypeOK'
  BY <1>2, <1>4, <1>5 DEF IInv, TypeOK
<1>7. GoneInDatabase'
  BY <1>2 DEF IInv, GoneInDatabase
<1>8. \A n \in Models : due'[n] \in Nat /\ due[n] <= due'[n] /\ (n = m => Ttl[s] <= due'[n])
  BY <1>1, <1>2 DEF IInv, TypeOK
<1>9. ASSUME NEW q \in Processes, NEW n \in Models
      PROVE  memLeft'[q][n] <= due'[n] /\ dbLeft'[n] <= due'[n]
  <2>1. /\ memLeft[q][n] \in Int /\ memLeft[q][n] <= due[n]
        /\ dbLeft[n] \in Int /\ dbLeft[n] <= due[n] /\ due[n] \in Int
    BY <1>1 DEF IInv, TypeOK, NothingOverstays, Left, Absent
  <2>2. /\ memLeft'[q][n] = IF q = p /\ n = m THEN Ttl[s] ELSE memLeft[q][n]
        /\ dbLeft'[n] = IF n = m THEN Ttl[s] ELSE dbLeft[n]
    BY <1>2 DEF IInv, TypeOK
  <2>3. QED  BY <1>1, <1>8, <2>1, <2>2
<1>10. QED  BY <1>4, <1>6, <1>7, <1>9 DEF IInv, NothingOverstays

(* A check drops entries that have run out, and nothing else.              *)
LEMMA CheckStep ==
    ASSUME IInv, NEW p \in Processes, NEW m \in Models, Check(p, m)
    PROVE  IInv'
<1> USE ProviderConstants, TtlBounds
<1>1. /\ memLeft' = [memLeft EXCEPT
             ![p][m] = IF m \notin memRetired[p] /\ @ = 0 THEN Absent ELSE @]
      /\ UNCHANGED <<memRetired, dbRetired, dbLeft, history>>
  BY DEF Check
<1>2. pruning' \in [Processes -> SUBSET Models]
  BY DEF IInv, TypeOK, Check
<1>3. \/ ProviderOver(p, ProviderOf[m])
      \/ UNCHANGED <<forbidden, providerLeft>>
  BY DEF Check
<1>4. /\ forbidden' \in [Processes -> [Providers -> 0 .. ProviderThreshold]]
      /\ providerLeft' \in [Processes -> [Providers -> Left(ProviderTtl)]]
      /\ \A q \in Processes, w \in Providers : providerLeft'[q][w] <= providerDue[w]
      /\ ProviderSuspensionIsCounted'
  <2>1. CASE ProviderOver(p, ProviderOf[m])
    BY <2>1 DEF IInv, TypeOK, NothingOverstays, ProviderSuspensionIsCounted, ProviderOver, Left, Absent
  <2>2. CASE UNCHANGED <<forbidden, providerLeft>>
    BY <2>2 DEF IInv, TypeOK, NothingOverstays, ProviderSuspensionIsCounted
  <2>3. QED  BY <1>3, <2>1, <2>2
<1>5. memLeft' \in [Processes -> [Models -> Left(MaxTtl)]]
  BY <1>1 DEF IInv, TypeOK, Left
<1>6. TypeOK'
  BY <1>1, <1>2, <1>4, <1>5 DEF IInv, TypeOK, history
<1>7. GoneInDatabase'
  BY <1>1 DEF IInv, GoneInDatabase, history
<1>8. \A q \in Processes, n \in Models : memLeft'[q][n] <= due[n]
  BY <1>1 DEF IInv, TypeOK, NothingOverstays, Left, Absent
<1>9. NothingOverstays'
  BY <1>1, <1>4, <1>8 DEF IInv, NothingOverstays, history
<1>10. QED  BY <1>4, <1>6, <1>7, <1>9 DEF IInv

(* Deleting a row, even a renewed one, keeps the invariant.                *)
LEMMA PruneStep ==
    ASSUME IInv, NEW p \in Processes, Prune(p)
    PROVE  IInv'
<1> USE DEF IInv, Prune, memory, history
<1>1. TypeOK'  BY DEF TypeOK, Left
<1>2. GoneInDatabase'  BY DEF GoneInDatabase
<1>3. NothingOverstays'  BY DEF TypeOK, NothingOverstays, Absent
<1>4. ProviderSuspensionIsCounted'  BY DEF ProviderSuspensionIsCounted
<1>5. QED  BY <1>1, <1>2, <1>3, <1>4

(* reinstate_model keeps the invariant.                                    *)
LEMMA ReinstateStep ==
    ASSUME IInv, NEW p \in Processes, NEW m \in Models, Reinstate(p, m)
    PROVE  IInv'
<1> USE DEF IInv, Reinstate
<1>1. TypeOK'  BY DEF TypeOK, Left
<1>2. GoneInDatabase'  BY DEF GoneInDatabase
<1>3. NothingOverstays'  BY DEF TypeOK, NothingOverstays, Absent
<1>4. ProviderSuspensionIsCounted'  BY DEF ProviderSuspensionIsCounted
<1>5. QED  BY <1>1, <1>2, <1>3, <1>4

(* A process that starts again knows only what the database has.           *)
LEMMA RestartStep ==
    ASSUME IInv, NEW p \in Processes, Restart(p)
    PROVE  IInv'
<1> USE ProviderConstants DEF IInv, Restart, history
<1>1. TypeOK'  BY DEF TypeOK, Left
<1>2. GoneInDatabase'  BY DEF GoneInDatabase
<1>3. NothingOverstays'  BY DEF TypeOK, NothingOverstays, Absent
<1>4. ProviderSuspensionIsCounted'  BY DEF TypeOK, ProviderSuspensionIsCounted
<1>5. QED  BY <1>1, <1>2, <1>3, <1>4

(* Time runs for the entries and for what is due alike.                    *)
LEMMA TickStep ==
    ASSUME IInv, Tick
    PROVE  IInv'
<1> USE ProviderConstants, TtlBounds
<1>1. TypeOK'
  BY DEF IInv, TypeOK, Tick, Less, Left, Absent
<1>2. GoneInDatabase'
  BY DEF IInv, GoneInDatabase, Tick
<1>3. NothingOverstays'
  <2>1. ASSUME NEW p \in Processes, NEW m \in Models PROVE memLeft'[p][m] <= due'[m]
    <3>1. /\ memLeft[p][m] \in Int /\ memLeft[p][m] >= Absent
          /\ due[m] \in Nat /\ memLeft[p][m] <= due[m]
      BY DEF IInv, TypeOK, NothingOverstays, Left, Absent
    <3>2. memLeft'[p][m] = Less(memLeft[p][m]) /\ due'[m] = Less(due[m])
      BY DEF Tick
    <3>3. QED  BY <3>1, <3>2, LessFacts
  <2>2. ASSUME NEW p \in Processes, NEW v \in Providers
        PROVE  providerLeft'[p][v] <= providerDue'[v]
    <3>1. /\ providerLeft[p][v] \in Int /\ providerLeft[p][v] >= Absent
          /\ providerDue[v] \in Nat /\ providerLeft[p][v] <= providerDue[v]
      BY DEF IInv, TypeOK, NothingOverstays, Left, Absent
    <3>2. providerLeft'[p][v] = Less(providerLeft[p][v]) /\ providerDue'[v] = Less(providerDue[v])
      BY DEF Tick
    <3>3. QED  BY <3>1, <3>2, LessFacts
  <2>3. ASSUME NEW m \in Models PROVE dbLeft'[m] <= due'[m]
    <3>1. /\ dbLeft[m] \in Int /\ dbLeft[m] >= Absent
          /\ due[m] \in Nat /\ dbLeft[m] <= due[m]
      BY DEF IInv, TypeOK, NothingOverstays, Left, Absent
    <3>2. dbLeft'[m] = Less(dbLeft[m]) /\ due'[m] = Less(due[m])
      BY DEF Tick
    <3>3. QED  BY <3>1, <3>2, LessFacts
  <2>4. QED  BY <2>1, <2>2, <2>3 DEF NothingOverstays
<1>4. ProviderSuspensionIsCounted'
  BY DEF IInv, TypeOK, ProviderSuspensionIsCounted, Tick, Less, Left, Absent
<1>5. QED  BY <1>1, <1>2, <1>3, <1>4 DEF IInv

(* Every step of every process keeps the invariant.                        *)
LEMMA NextIInv == IInv /\ [Next]_vars => IInv'
<1> SUFFICES ASSUME IInv, [Next]_vars PROVE IInv'
  OBVIOUS
<1>1. ASSUME NEW p \in Processes, NEW m \in Models, RecordFailure(p, m) PROVE IInv'
  BY <1>1, RecordGoneStep, RecordTransientStep DEF RecordFailure
<1>2. ASSUME NEW p \in Processes, NEW m \in Models, Check(p, m) \/ Reinstate(p, m) PROVE IInv'
  BY <1>2, CheckStep, ReinstateStep
<1>3. ASSUME NEW p \in Processes, Prune(p) \/ Restart(p) PROVE IInv'
  BY <1>3, PruneStep, RestartStep
<1>4. CASE Tick
  BY <1>4, TickStep
<1>5. CASE UNCHANGED vars
  BY <1>5 DEF IInv, TypeOK, GoneInDatabase, NothingOverstays, ProviderSuspensionIsCounted,
              vars, memory, history
<1>6. QED  BY <1>1, <1>2, <1>3, <1>4, <1>5 DEF Next

THEOREM Invariance == Spec => []IInv
BY InitIInv, NextIInv, PTL DEF Spec

-----------------------------------------------------------------------------
(* Every variable keeps its type: no path prolongs an entry past its TTL.  *)
THEOREM TypeCorrect == Spec => []TypeOK
<1>1. IInv => TypeOK  BY DEF IInv
<1>2. QED  BY <1>1, Invariance, PTL

(* From the 404 of one process on, no process takes the model until it is  *)
(* reinstated (record_error, is_retired).                                  *)
THEOREM GoneTheorem == Spec => []GoneStaysOut
<1>1. IInv => GoneStaysOut
  BY DEF IInv, TypeOK, GoneInDatabase, GoneStaysOut, Unavailable
<1>2. QED  BY <1>1, Invariance, PTL

(* No process holds a model out beyond the longest TTL it has earned, or   *)
(* beyond the suspension of its provider (is_retired).                     *)
THEOREM SuspensionTheorem == Spec => []SuspensionIsEarned
<1>1. ASSUME IInv, NEW p \in Processes, NEW m \in Models, Suspended(p, m)
      PROVE  due[m] > 0 \/ providerDue[ProviderOf[m]] > 0
  <2>1. /\ memLeft[p][m] \in Int /\ memLeft[p][m] <= due[m]
        /\ dbLeft[m] \in Int /\ dbLeft[m] <= due[m]
        /\ due[m] \in Nat
    BY <1>1, TtlBounds DEF IInv, TypeOK, NothingOverstays, Left, Absent
  <2>2. /\ providerLeft[p][ProviderOf[m]] \in Int
        /\ providerLeft[p][ProviderOf[m]] <= providerDue[ProviderOf[m]]
        /\ providerDue[ProviderOf[m]] \in Nat
    BY <1>1, ProviderConstants DEF IInv, TypeOK, NothingOverstays, Left, Absent
  <2>3. QED  BY <1>1, <2>1, <2>2 DEF Suspended
<1>2. IInv => SuspensionIsEarned
  BY <1>1 DEF SuspensionIsEarned
<1>3. QED  BY <1>2, Invariance, PTL

(* A provider is suspended exactly while its count of 403s is at the       *)
(* threshold (_track_provider_suspension, _is_retired_or_suspended).       *)
THEOREM CountTheorem == Spec => []ProviderSuspensionIsCounted
<1>1. IInv => ProviderSuspensionIsCounted  BY DEF IInv
<1>2. QED  BY <1>1, Invariance, PTL

-----------------------------------------------------------------------------
(* The view of one process is what AvailabilityPromise says, step by step. *)
(* Only a failure adds to either set: everything else drops what has run   *)
(* out, which the view does not show, or lets it run out.                  *)

GoneFor(p) == memRetired[p] \cup dbRetired
SuspendedFor(p) == {m \in Models : Suspended(p, m)}

LEMMA Views ==
    ASSUME NEW p \in Processes
    PROVE  /\ View(p)!Init <=> GoneFor(p) = {} /\ SuspendedFor(p) = {}
           /\ View(p)!vars = <<GoneFor(p), SuspendedFor(p)>>
           /\ View(p)!StartAgain <=>
                 GoneFor(p)' \subseteq GoneFor(p) /\ SuspendedFor(p)' \subseteq SuspendedFor(p)
  BY DEF View!Init, View!vars, View!StartAgain, GoneFor, SuspendedFor

Recovers(p) == \E over \in SUBSET Models : View(p)!Recover(over)

\* What is enough for each action of the promise.
LEMMA ViewSteps ==
    ASSUME NEW p \in Processes
    PROVE  /\ \A m \in Models :
                 /\ GoneFor(p)' = GoneFor(p) \cup {m} /\ SuspendedFor(p)' = SuspendedFor(p)
                 => View(p)!Fail(m)
           /\ \A m \in Models :
                 /\ GoneFor(p)' = GoneFor(p) \ {m} \/ GoneFor(p)' = GoneFor(p)
                 /\ SuspendedFor(p)' = SuspendedFor(p) \/ SuspendedFor(p)' = SuspendedFor(p) \ {m}
                 => View(p)!Reinstate(m) \/ Recovers(p)
           /\ \A m \in Models :
                 /\ GoneFor(p)' = GoneFor(p)
                 /\ m \in SuspendedFor(p)' /\ SuspendedFor(p) \subseteq SuspendedFor(p)'
                 /\ \A n \in SuspendedFor(p)' \ SuspendedFor(p) : ProviderOf[n] = ProviderOf[m]
                 => View(p)!Fail(m)
           /\ GoneFor(p)' = GoneFor(p) /\ SuspendedFor(p)' \subseteq SuspendedFor(p)
                 => Recovers(p)
<1>1. SuspendedFor(p) \subseteq Models /\ SuspendedFor(p)' \subseteq Models
  BY DEF SuspendedFor
<1> DEFINE G == GoneFor(p)
           S == SuspendedFor(p)
<1>2. ASSUME NEW m \in Models, G' = G \cup {m}, S' = S PROVE View(p)!Fail(m)
  BY <1>2 DEF View!Fail, View!Retire, GoneFor, SuspendedFor
<1>3. ASSUME G' = G, S' \subseteq S PROVE Recovers(p)
  <2>1. PICK over : over = S \ S'
    OBVIOUS
  <2>2. over \in SUBSET Models /\ S' = S \ over
    BY <1>1, <1>3, <2>1
  <2>3. View(p)!Recover(over)
    BY <1>3, <2>2 DEF View!Recover, GoneFor, SuspendedFor
  <2> QED  BY <2>2, <2>3 DEF Recovers
<1>4. ASSUME NEW m \in Models, G' = G \ {m} \/ G' = G, S' = S \/ S' = S \ {m}
      PROVE  View(p)!Reinstate(m) \/ Recovers(p)
  <2>1. CASE G' = G
    BY <1>3, <1>4, <2>1
  <2>2. CASE G' = G \ {m}
    BY <1>4, <2>2 DEF View!Reinstate, GoneFor, SuspendedFor
  <2> QED  BY <1>4, <2>1, <2>2
<1>5. ASSUME NEW m \in Models, G' = G, m \in S', S \subseteq S',
             \A n \in S' \ S : ProviderOf[n] = ProviderOf[m]
      PROVE  View(p)!Fail(m)
  <2>1. PICK others : others = S' \ S
    OBVIOUS
  <2>2. others \in SUBSET View(p)!Siblings(m) /\ S' = S \cup {m} \cup others
    BY <1>1, <1>5, <2>1 DEF View!Siblings
  <2>3. View(p)!Suspend(m, others)
    BY <1>5, <2>2 DEF View!Suspend, GoneFor, SuspendedFor
  <2> QED  BY <2>2, <2>3 DEF View!Fail
<1> QED  BY <1>2, <1>3, <1>4, <1>5

\* What the sets are after a step, model by model.
LEMMA SuspendedNext ==
    ASSUME NEW p \in Processes, NEW m \in Models
    PROVE  /\ m \in SuspendedFor(p) <=>
                 memLeft[p][m] > 0 \/ providerLeft[p][ProviderOf[m]] > 0 \/ dbLeft[m] > 0
           /\ m \in SuspendedFor(p)' <=>
                 memLeft'[p][m] > 0 \/ providerLeft'[p][ProviderOf[m]] > 0 \/ dbLeft'[m] > 0
  BY DEF SuspendedFor, Suspended

LEMMA OnlyModels ==
    ASSUME NEW p \in Processes
    PROVE  SuspendedFor(p) \subseteq Models /\ SuspendedFor(p)' \subseteq Models
  BY DEF SuspendedFor

LEMMA GoneView ==
    ASSUME IInv, NEW p \in Processes, NEW q \in Processes, NEW m \in Models, RecordGone(q, m)
    PROVE  View(p)!Fail(m)
<1>1. GoneFor(p)' = GoneFor(p) \cup {m}
  BY DEF IInv, TypeOK, RecordGone, GoneFor
<1>2. SuspendedFor(p)' = SuspendedFor(p)
  BY DEF RecordGone, SuspendedFor, Suspended
<1> QED  BY <1>1, <1>2, ViewSteps

LEMMA ForbidOne ==
    ASSUME IInv, NEW p \in Processes, NEW q \in Processes, NEW w \in Providers, Forbid(q, w),
           NEW v \in Providers
    PROVE  /\ v # w => providerLeft'[p][v] = providerLeft[p][v]
           /\ providerLeft[p][v] > 0 => providerLeft'[p][v] > 0
<1>1. providerLeft \in [Processes -> [Providers -> Left(ProviderTtl)]]
  BY DEF IInv, TypeOK
<1>2. \/ providerLeft' = [providerLeft EXCEPT ![q][w] = ProviderTtl]
      \/ providerLeft' = [providerLeft EXCEPT ![q][w] = @]
  BY DEF Forbid
<1> QED  BY <1>1, <1>2, ProviderConstants

LEMMA TransientView ==
    ASSUME IInv, NEW p \in Processes, NEW q \in Processes, NEW m \in Models,
           NEW s \in Transient, RecordTransient(q, m, s)
    PROVE  View(p)!Fail(m)
<1>1. Ttl[s] > 0 /\ Ttl[s] \in Nat
  BY TtlBounds
<1>2. /\ memLeft' = [memLeft EXCEPT ![q][m] = Ttl[s]]
      /\ dbLeft' = [dbLeft EXCEPT ![m] = Ttl[s]]
      /\ UNCHANGED <<memRetired, dbRetired>>
  BY DEF RecordTransient, Renewed
<1>3. GoneFor(p)' = GoneFor(p)
  BY <1>2 DEF GoneFor
<1>4. ASSUME NEW v \in Providers
      PROVE  /\ v # ProviderOf[m] => providerLeft'[p][v] = providerLeft[p][v]
             /\ providerLeft[p][v] > 0 => providerLeft'[p][v] > 0
  <2>1. CASE Forbid(q, ProviderOf[m])
    BY <2>1, ForbidOne, ProviderConstants
  <2>2. CASE UNCHANGED providerLeft
    BY <2>2
  <2> QED  BY <2>1, <2>2 DEF RecordTransient
<1>6. ASSUME NEW n \in Models
      PROVE  /\ memLeft'[p][n] = IF p = q /\ n = m THEN Ttl[s] ELSE memLeft[p][n]
             /\ dbLeft'[n] = IF n = m THEN Ttl[s] ELSE dbLeft[n]
  BY <1>2 DEF IInv, TypeOK
<1>7. m \in SuspendedFor(p)'
  BY <1>1, <1>6, SuspendedNext
<1>8. ASSUME NEW n \in SuspendedFor(p) PROVE n \in SuspendedFor(p)'
  <2>1. n \in Models /\ ProviderOf[n] \in Providers
    BY OnlyModels, ProviderConstants
  <2> QED  BY <1>1, <1>4, <1>6, <2>1, SuspendedNext
<1>9. ASSUME NEW n \in SuspendedFor(p)' \ SuspendedFor(p) PROVE ProviderOf[n] = ProviderOf[m]
  <2>1. n \in Models /\ ProviderOf[n] \in Providers
    BY OnlyModels, ProviderConstants
  <2> QED  BY <1>4, <1>6, <2>1, SuspendedNext
<1> QED  BY <1>3, <1>7, <1>8, <1>9, ViewSteps

LEMMA CheckView ==
    ASSUME IInv, NEW p \in Processes, NEW q \in Processes, NEW m \in Models, Check(q, m)
    PROVE  Recovers(p)
<1>1. GoneFor(p)' = GoneFor(p)
  BY DEF Check, GoneFor
<1>2. ASSUME NEW n \in SuspendedFor(p)' PROVE n \in SuspendedFor(p)
  <2>1. n \in Models /\ ProviderOf[n] \in Providers
    BY OnlyModels, ProviderConstants
  <2>2. memLeft'[p][n] > 0 => memLeft[p][n] > 0
    BY <2>1 DEF IInv, TypeOK, Check, Absent
  <2>3. providerLeft'[p][ProviderOf[n]] > 0 => providerLeft[p][ProviderOf[n]] > 0
    BY <2>1, ProviderConstants DEF IInv, TypeOK, Check, ProviderOver, Absent
  <2> QED  BY <2>1, <2>2, <2>3, SuspendedNext DEF Check
<1> QED  BY <1>1, <1>2, ViewSteps

LEMMA PruneView ==
    ASSUME IInv, NEW p \in Processes, NEW q \in Processes, Prune(q)
    PROVE  Recovers(p)
<1>1. GoneFor(p)' = GoneFor(p)
  BY DEF Prune, memory, GoneFor
<1>2. ASSUME NEW n \in SuspendedFor(p)' PROVE n \in SuspendedFor(p)
  <2>1. n \in Models
    BY OnlyModels
  <2>2. dbLeft'[n] > 0 => dbLeft[n] > 0
    BY <2>1 DEF Prune, Absent
  <2> QED  BY <2>1, <2>2, SuspendedNext DEF Prune, memory
<1> QED  BY <1>1, <1>2, ViewSteps

LEMMA ReinstateView ==
    ASSUME IInv, NEW p \in Processes, NEW q \in Processes, NEW m \in Models, Reinstate(q, m)
    PROVE  View(p)!Reinstate(m) \/ Recovers(p)
<1>1. GoneFor(p)' = GoneFor(p) \ {m} \/ GoneFor(p)' = GoneFor(p)
  <2>1. dbRetired' = dbRetired \ {m}
    BY DEF Reinstate
  <2>2. memRetired'[p] = memRetired[p] \/ memRetired'[p] = memRetired[p] \ {m}
    BY DEF IInv, TypeOK, Reinstate
  <2> QED  BY <2>1, <2>2 DEF GoneFor
<1>2. ASSUME NEW n \in Models, n # m PROVE n \in SuspendedFor(p)' <=> n \in SuspendedFor(p)
  <2>1. memLeft'[p][n] = memLeft[p][n]
    BY <1>2 DEF IInv, TypeOK, Reinstate
  <2> QED  BY <2>1, SuspendedNext DEF Reinstate
<1>3. m \in SuspendedFor(p)' => m \in SuspendedFor(p)
  <2>1. memLeft'[p][m] > 0 => memLeft[p][m] > 0
    BY DEF IInv, TypeOK, Reinstate, Absent
  <2> QED  BY <2>1, SuspendedNext DEF Reinstate
<1>4. SuspendedFor(p)' = SuspendedFor(p) \/ SuspendedFor(p)' = SuspendedFor(p) \ {m}
  BY <1>2, <1>3, OnlyModels
<1> QED  BY <1>1, <1>4, ViewSteps

LEMMA RestartView ==
    ASSUME IInv, NEW p \in Processes, NEW q \in Processes, Restart(q)
    PROVE  /\ p = q => View(p)!StartAgain
           /\ p # q => Recovers(p)
<1>1. UNCHANGED <<dbRetired, dbLeft>>
  BY DEF Restart
<1>2. CASE p = q
  <2>1. GoneFor(p)' \subseteq GoneFor(p)
    BY <1>1, <1>2 DEF IInv, TypeOK, Restart, GoneFor
  <2>2. ASSUME NEW n \in SuspendedFor(p)' PROVE n \in SuspendedFor(p)
    <3>1. n \in Models /\ ProviderOf[n] \in Providers
      BY OnlyModels, ProviderConstants
    <3>2. ~(memLeft'[p][n] > 0) /\ ~(providerLeft'[p][ProviderOf[n]] > 0)
      BY <1>2, <3>1 DEF IInv, TypeOK, Restart, Absent
    <3> QED  BY <1>1, <3>1, <3>2, SuspendedNext
  <2> QED  BY <1>2, <2>1, <2>2, Views
<1>3. CASE p # q
  <2>1. memRetired'[p] = memRetired[p] /\ memLeft'[p] = memLeft[p]
        /\ providerLeft'[p] = providerLeft[p]
    BY <1>3 DEF IInv, TypeOK, Restart
  <2>2. GoneFor(p)' = GoneFor(p) /\ SuspendedFor(p)' = SuspendedFor(p)
    BY <1>1, <2>1 DEF GoneFor, SuspendedFor, Suspended
  <2> QED  BY <1>3, <2>2, ViewSteps
<1> QED  BY <1>2, <1>3

LEMMA TickView ==
    ASSUME IInv, NEW p \in Processes, Tick
    PROVE  Recovers(p)
<1>1. GoneFor(p)' = GoneFor(p)
  BY DEF Tick, GoneFor
<1>2. ASSUME NEW n \in SuspendedFor(p)' PROVE n \in SuspendedFor(p)
  <2>1. n \in Models /\ ProviderOf[n] \in Providers
    BY OnlyModels, ProviderConstants
  <2>2. /\ memLeft'[p][n] = Less(memLeft[p][n])
        /\ providerLeft'[p][ProviderOf[n]] = Less(providerLeft[p][ProviderOf[n]])
        /\ dbLeft'[n] = Less(dbLeft[n])
    BY <2>1 DEF Tick
  <2>3. /\ memLeft[p][n] \in Int /\ providerLeft[p][ProviderOf[n]] \in Int
        /\ dbLeft[n] \in Int
    BY <2>1, TtlBounds, ProviderConstants DEF IInv, TypeOK, Left, Absent
  <2>4. \A l \in Int : Less(l) > 0 => l > 0
    BY DEF Less
  <2> QED  BY <2>1, <2>2, <2>3, <2>4, SuspendedNext
<1> QED  BY <1>1, <1>2, ViewSteps

\* The step that KeepsAvailability allows to process p.
Allowed(p) ==
    \/ Restart(p) /\ View(p)!StartAgain
    \/ \E q \in Processes, m \in Models :
          \/ RecordFailure(q, m) /\ View(p)!Fail(m)
          \/ Reinstate(q, m) /\ View(p)!Reinstate(m)
    \/ Recovers(p)

LEMMA StepView ==
    ASSUME IInv, [Next]_vars, NEW p \in Processes
    PROVE  Allowed(p)
<1>1. CASE UNCHANGED vars
  <2>1. GoneFor(p)' = GoneFor(p) /\ SuspendedFor(p)' = SuspendedFor(p)
    BY <1>1 DEF vars, memory, GoneFor, SuspendedFor, Suspended
  <2> QED  BY <2>1, ViewSteps DEF Allowed
<1>2. ASSUME NEW q \in Processes, NEW m \in Models, RecordFailure(q, m) PROVE View(p)!Fail(m)
  BY <1>2, GoneView, TransientView DEF RecordFailure
<1>3. ASSUME NEW q \in Processes, NEW m \in Models, Check(q, m) PROVE Recovers(p)
  BY <1>3, CheckView
<1>4. ASSUME NEW q \in Processes, NEW m \in Models, Reinstate(q, m)
      PROVE  View(p)!Reinstate(m) \/ Recovers(p)
  BY <1>4, ReinstateView
<1>5. ASSUME NEW q \in Processes, Prune(q) PROVE Recovers(p)
  BY <1>5, PruneView
<1>6. ASSUME NEW q \in Processes, Restart(q) PROVE Allowed(p)
  BY <1>6, RestartView DEF Allowed
<1>7. Tick => Recovers(p)
  BY TickView
<1> QED  BY <1>1, <1>2, <1>3, <1>4, <1>5, <1>6, <1>7 DEF Next, Allowed

\* Each step that is allowed is one of the promise.
LEMMA AllowedSteps ==
    ASSUME NEW p \in Processes, Allowed(p)
    PROVE  View(p)!Next \/ View(p)!StartAgain
  BY DEF Allowed, Recovers, View!Next

\* To every process, from one start to the next, is_retired is the two sets of the promise:
\* for any number of processes that share the database and whatever they do in between.
THEOREM AvailabilityTheorem == Spec => KeepsAvailability
<1>1. Init => \A p \in Processes : View(p)!Init
  <2> SUFFICES ASSUME Init, NEW p \in Processes PROVE View(p)!Init
    OBVIOUS
  <2>1. GoneFor(p) = {}
    BY DEF Init, GoneFor
  <2>2. SuspendedFor(p) = {}
    BY ProviderConstants DEF Init, SuspendedFor, Suspended, Absent
  <2> QED  BY <2>1, <2>2, Views
<1>2. ASSUME IInv, [Next]_vars
      PROVE  [\A p \in Processes :
                 \/ Restart(p) /\ View(p)!StartAgain
                 \/ \E q \in Processes, m \in Models :
                       \/ RecordFailure(q, m) /\ View(p)!Fail(m)
                       \/ Reinstate(q, m) /\ View(p)!Reinstate(m)
                 \/ \E over \in SUBSET Models : View(p)!Recover(over)]_vars
  BY <1>2, StepView DEF Allowed, Recovers
<1> QED  BY <1>1, <1>2, Invariance, PTL DEF Spec, KeepsAvailability

\* So each of them sees an implementation of AvailabilityPromise.
THEOREM ViewTheorem == ASSUME NEW p \in Processes PROVE Spec => View(p)!Spec
<1>1. Init => View(p)!Init
  <2> SUFFICES ASSUME Init PROVE View(p)!Init
    OBVIOUS
  <2>1. GoneFor(p) = {}
    BY DEF Init, GoneFor
  <2>2. SuspendedFor(p) = {}
    BY ProviderConstants DEF Init, SuspendedFor, Suspended, Absent
  <2> QED  BY <2>1, <2>2, Views
<1>2. ASSUME IInv, [Next]_vars PROVE [View(p)!Next \/ View(p)!StartAgain]_(View(p)!vars)
  BY <1>2, StepView, AllowedSteps
<1> QED  BY <1>1, <1>2, Invariance, PTL DEF Spec, View!Spec
=============================================================================
