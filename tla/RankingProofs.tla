---------------------------- MODULE RankingProofs ----------------------------
(***************************************************************************)
(* Proofs about how candidates are ranked: the role matrix of              *)
(* MatrixLifecycle, the intents and profiles of IntentRouting, and the     *)
(* stages of CandidateSelection.                                           *)
(***************************************************************************)
EXTENDS MatrixLifecycle, IntentRouting, CandidateSelection, FiniteSetTheorems,
        SequenceTheorems, TLAPS

-----------------------------------------------------------------------------
(* MatrixLifecycle: its type invariant, and that no model of the catalog   *)
(* has a miss against it when the decay begins.  The second needs to know  *)
(* where the router may be going: only a refresh goes on to the decay, and *)
(* only by way of the save of the lifecycle, which has just cleared the    *)
(* counts of the catalog that is still there.                              *)


\* Ranks come from ranks: each computation of the code yields natural numbers.
LEMMA NothingType == Nothing \in Ranks
  BY DEF Nothing, Ranks

LEMMA ViewType == ASSUME NEW ranks \in Ranks PROVE View(ranks) \in Ranks
  BY DEF View, Lowest, Ranks

LEMMA SeededType ==
    ASSUME NEW ranks \in Ranks, NEW new \in SUBSET Models
    PROVE  Seeded(ranks, new) \in Ranks
  BY LifecycleAssumption DEF Seeded, Ranks

LEMMA HalfType == \A x \in Nat : x \div 2 \in Nat
  OBVIOUS

LEMMA DecayedType ==
    ASSUME NEW ranks \in Ranks, NEW deprecated \in SUBSET Models
    PROVE  Decayed(ranks, deprecated) \in Ranks
<1>1. ASSUME NEW r \in Roles, NEW m \in Models
      PROVE  {x \div 2 : x \in {y \in ranks[r][m] : y \div 2 >= 10}} \in SUBSET Nat
  <2>1. ranks[r][m] \in SUBSET Nat
    BY DEF Ranks
  <2> QED  BY <2>1, HalfType
<1>2. ASSUME NEW r \in Roles, NEW m \in Models PROVE ranks[r][m] \in SUBSET Nat
  BY DEF Ranks
<1> QED  BY <1>1, <1>2 DEF Decayed, Ranks

LEMMA RoundedType == \A t \in Nat : Rounded(t) \in Nat
  BY DEF Rounded

LEMMA ClampedType == \A x \in Nat : Clamped(x) \in Nat
  BY DEF Clamped

LEMMA BlendedType == ASSUME NEW ranks \in Ranks PROVE Blended(ranks) \in Ranks
<1>1. ASSUME NEW r \in Roles, NEW m \in Models
      PROVE  /\ Profile[r][m] \in SUBSET Nat
             /\ ranks[r][m] \in SUBSET Nat
  BY LifecycleAssumption DEF Ranks
<1>2. ASSUME NEW r \in Roles, NEW m \in Models, NEW e \in Profile[r][m], NEW x \in ranks[r][m]
      PROVE  Clamped(Rounded(7 * e + 3 * x)) \in Nat
  <2>1. e \in Nat /\ x \in Nat
    BY <1>1
  <2>2. 7 * e + 3 * x \in Nat
    BY <2>1
  <2> QED  BY <2>2, RoundedType, ClampedType
<1>3. ASSUME NEW r \in Roles, NEW m \in Models
      PROVE  {Clamped(Rounded(7 * e + 3 * x)) : e \in Profile[r][m], x \in ranks[r][m]}
                \in SUBSET Nat
  BY <1>2
<1> QED  BY <1>1, <1>3 DEF Blended, Ranks

LEMMA CountedType ==
    ASSUME TypeOK
    PROVE  /\ Counted \in [Models -> Nat]
           /\ \A m \in catalog : Counted[m] = 0
  BY DEF TypeOK, Counted

----------------------------------------------------------------------------
\* Only a refresh has the decay ahead of it: what the router goes on to is
\* something else when it is at rest, stopped, or has come to the decay.
DecayIsAhead == at \in {"idle", "down", "decay", "saveDecay"} => next # "decay"

IInv == TypeOK /\ DecayIsAhead /\ CataloguedIsNotMissed

LEMMA InitInv == Init => IInv
<1> SUFFICES ASSUME Init PROVE IInv
  OBVIOUS
<1>1. TypeOK
  <2>1. /\ faults \in 0 .. MaxFaults
        /\ updates \in 0 .. MaxUpdates
    BY LifecycleAssumption DEF Init
  <2>2. /\ catalog \subseteq Models
        /\ misses \in [Models -> Nat]
        /\ known \subseteq Models
    BY DEF Init
  <2>3. {torn, changed} \subseteq BOOLEAN
    BY DEF Init
  <2>4. command \in [at : {"idle", "read", "open"}, ranks : Ranks, linked : BOOLEAN]
    BY NothingType DEF Init
  <2> QED  BY <2>1, <2>2, <2>3, <2>4, NothingType DEF Init, TypeOK
<1>2. DecayIsAhead /\ CataloguedIsNotMissed
  BY DEF Init, DecayIsAhead, CataloguedIsNotMissed, BeforeDecay
<1> QED  BY <1>1, <1>2 DEF IInv

LEMMA LoadStep == IInv /\ Load => IInv'
<1> SUFFICES ASSUME IInv, Load PROVE IInv'
  OBVIOUS
<1>1. View(matrix) \in Ranks
  BY ViewType DEF IInv, TypeOK
<1>2. TypeOK'
  BY <1>1, NothingType DEF IInv, TypeOK, Load, Resume, files
<1>3. DecayIsAhead'
  BY DEF IInv, TypeOK, DecayIsAhead, Load, Resume, files
<1>4. CataloguedIsNotMissed'
  BY DEF IInv, TypeOK, DecayIsAhead, CataloguedIsNotMissed, BeforeDecay, Load, Resume, files
<1> QED  BY <1>2, <1>3, <1>4 DEF IInv

LEMMA StampStep == IInv /\ Stamp => IInv'
<1> SUFFICES ASSUME IInv, Stamp PROVE IInv'
  OBVIOUS
<1>1. TypeOK'
  BY NothingType DEF IInv, TypeOK, Stamp, Resume, files
<1>2. DecayIsAhead'
  BY DEF IInv, TypeOK, DecayIsAhead, Stamp, Resume, files
<1>3. CataloguedIsNotMissed'
  BY DEF IInv, TypeOK, DecayIsAhead, CataloguedIsNotMissed, BeforeDecay, Stamp, Resume, files
<1> QED  BY <1>1, <1>2, <1>3 DEF IInv

LEMMA SelectStep == IInv /\ Select => IInv'
<1> SUFFICES ASSUME IInv, Select PROVE IInv'
  OBVIOUS
<1>1. TypeOK'
  BY DEF IInv, TypeOK, Select, files, ram
<1>2. DecayIsAhead'
  BY DEF IInv, TypeOK, DecayIsAhead, Select, files, ram
<1>3. CataloguedIsNotMissed'
  BY DEF IInv, TypeOK, DecayIsAhead, CataloguedIsNotMissed, BeforeDecay, Select, files, ram
<1> QED  BY <1>1, <1>2, <1>3 DEF IInv

LEMMA BootStep == IInv /\ Boot => IInv'
<1> SUFFICES ASSUME IInv, Boot PROVE IInv'
  OBVIOUS
<1>1. TypeOK'
  BY DEF IInv, TypeOK, Boot, files, ram
<1>2. DecayIsAhead'
  BY DEF IInv, TypeOK, DecayIsAhead, Boot, files, ram
<1>3. CataloguedIsNotMissed'
  BY DEF IInv, TypeOK, DecayIsAhead, CataloguedIsNotMissed, BeforeDecay, Boot, files, ram
<1> QED  BY <1>1, <1>2, <1>3 DEF IInv

LEMMA RefreshStep == IInv /\ RefreshSome => IInv'
<1> SUFFICES ASSUME IInv, RefreshSome PROVE IInv'
  OBVIOUS
<1>1. TypeOK'
  BY DEF IInv, TypeOK, RefreshSome, Refresh, ram
<1>2. DecayIsAhead'
  BY DEF IInv, TypeOK, DecayIsAhead, RefreshSome, Refresh, ram
<1>3. CataloguedIsNotMissed'
  BY DEF IInv, TypeOK, DecayIsAhead, CataloguedIsNotMissed, BeforeDecay, RefreshSome, Refresh, ram
<1> QED  BY <1>1, <1>2, <1>3 DEF IInv

LEMMA AdminStep == IInv /\ (\E found \in SUBSET Models : AdminRefresh(found)) => IInv'
<1> SUFFICES ASSUME IInv, \E found \in SUBSET Models : AdminRefresh(found) PROVE IInv'
  OBVIOUS
<1>1. TypeOK'
  BY DEF IInv, TypeOK, AdminRefresh, ram, work
<1>2. DecayIsAhead'
  BY DEF IInv, TypeOK, DecayIsAhead, AdminRefresh, ram, work
<1>3. CataloguedIsNotMissed'
  BY DEF IInv, TypeOK, DecayIsAhead, CataloguedIsNotMissed, BeforeDecay, AdminRefresh, ram, work
<1> QED  BY <1>1, <1>2, <1>3 DEF IInv

LEMMA DiffStep == IInv /\ Diff => IInv'
<1> SUFFICES ASSUME IInv, Diff PROVE IInv'
  OBVIOUS
<1>1. Listed(matrix) \subseteq Models
  BY DEF Listed
<1>2. TypeOK'
  BY <1>1 DEF IInv, TypeOK, Diff, files, ram
<1>3. DecayIsAhead'
  BY DEF IInv, TypeOK, DecayIsAhead, Diff, files, ram
<1>4. CataloguedIsNotMissed'
  BY DEF IInv, TypeOK, DecayIsAhead, CataloguedIsNotMissed, BeforeDecay, Diff, files, ram
<1> QED  BY <1>2, <1>3, <1>4 DEF IInv

LEMMA MergeStep == IInv /\ Merge => IInv'
<1> SUFFICES ASSUME IInv, Merge PROVE IInv'
  OBVIOUS
<1>1. Seeded(matrix, fresh) \in Ranks
  BY SeededType DEF IInv, TypeOK
<1>2. TypeOK'
  BY <1>1 DEF IInv, TypeOK, Merge, files, ram
<1>3. DecayIsAhead'
  BY DEF IInv, TypeOK, DecayIsAhead, Merge, files, ram
<1>4. CataloguedIsNotMissed'
  BY DEF IInv, TypeOK, DecayIsAhead, CataloguedIsNotMissed, BeforeDecay, Merge, files, ram
<1> QED  BY <1>2, <1>3, <1>4 DEF IInv

LEMMA SaveRanksStep == IInv /\ SaveRanks => IInv'
<1> SUFFICES ASSUME IInv, SaveRanks PROVE IInv'
  OBVIOUS
<1>1. TypeOK'
  BY NothingType DEF IInv, TypeOK, SaveRanks, WriteRanks
<1>2. DecayIsAhead'
  BY DEF IInv, TypeOK, DecayIsAhead, SaveRanks, WriteRanks
<1>3. CataloguedIsNotMissed'
  BY DEF IInv, TypeOK, DecayIsAhead, CataloguedIsNotMissed, BeforeDecay, SaveRanks, WriteRanks
<1> QED  BY <1>1, <1>2, <1>3 DEF IInv

LEMMA SaveLifecycleStep == IInv /\ SaveLifecycle => IInv'
<1> SUFFICES ASSUME IInv, SaveLifecycle PROVE IInv'
  OBVIOUS
<1>1. TypeOK'
  BY CountedType DEF IInv, TypeOK, SaveLifecycle, Resume, ram
<1>2. DecayIsAhead'
  BY DEF IInv, TypeOK, DecayIsAhead, SaveLifecycle, Resume, ram
<1>3. CataloguedIsNotMissed'
  BY CountedType DEF IInv, TypeOK, DecayIsAhead, CataloguedIsNotMissed, BeforeDecay, SaveLifecycle, Resume, ram
<1> QED  BY <1>1, <1>2, <1>3 DEF IInv

LEMMA DecayStep == IInv /\ Decay => IInv'
<1> SUFFICES ASSUME IInv, Decay PROVE IInv'
  OBVIOUS
<1>1. /\ Deprecated \in SUBSET Models
     /\ Decayed(matrix, Deprecated) \in Ranks
  BY DecayedType DEF IInv, TypeOK, Deprecated
<1>2. TypeOK'
  BY <1>1 DEF IInv, TypeOK, Decay, files, ram
<1>3. DecayIsAhead'
  BY DEF IInv, TypeOK, DecayIsAhead, Decay, files, ram
<1>4. CataloguedIsNotMissed'
  BY DEF IInv, TypeOK, DecayIsAhead, CataloguedIsNotMissed, BeforeDecay, Decay, files, ram
<1> QED  BY <1>2, <1>3, <1>4 DEF IInv

LEMMA SaveDecayStep == IInv /\ SaveDecay => IInv'
<1> SUFFICES ASSUME IInv, SaveDecay PROVE IInv'
  OBVIOUS
<1>1. TypeOK'
  BY NothingType DEF IInv, TypeOK, SaveDecay, WriteRanks
<1>2. DecayIsAhead'
  BY DEF IInv, TypeOK, DecayIsAhead, SaveDecay, WriteRanks
<1>3. CataloguedIsNotMissed'
  BY DEF IInv, TypeOK, DecayIsAhead, CataloguedIsNotMissed, BeforeDecay, SaveDecay, WriteRanks
<1> QED  BY <1>1, <1>2, <1>3 DEF IInv

LEMMA SaveFailsStep == IInv /\ SaveFails => IInv'
<1> SUFFICES ASSUME IInv, SaveFails PROVE IInv'
  OBVIOUS
<1>1. TypeOK'
  BY NothingType, LifecycleAssumption DEF IInv, TypeOK, SaveFails, files, ram
<1>2. DecayIsAhead'
  BY DEF IInv, TypeOK, DecayIsAhead, SaveFails, files, ram
<1>3. CataloguedIsNotMissed'
  BY DEF IInv, TypeOK, DecayIsAhead, CataloguedIsNotMissed, BeforeDecay, SaveFails, files, ram
<1> QED  BY <1>1, <1>2, <1>3 DEF IInv

LEMMA CrashStep == IInv /\ Crash => IInv'
<1> SUFFICES ASSUME IInv, Crash PROVE IInv'
  OBVIOUS
<1>1. TypeOK'
  BY NothingType, LifecycleAssumption DEF IInv, TypeOK, Crash, files
<1>2. DecayIsAhead'
  BY DEF IInv, TypeOK, DecayIsAhead, Crash, files
<1>3. CataloguedIsNotMissed'
  BY DEF IInv, TypeOK, DecayIsAhead, CataloguedIsNotMissed, BeforeDecay, Crash, files
<1> QED  BY <1>1, <1>2, <1>3 DEF IInv

LEMMA UpdateReadsStep == IInv /\ UpdateReads => IInv'
<1> SUFFICES ASSUME IInv, UpdateReads PROVE IInv'
  OBVIOUS
<1>1. Blended(View(matrix)) \in Ranks
  BY ViewType, BlendedType DEF IInv, TypeOK
<1>2. TypeOK'
  BY <1>1, LifecycleAssumption DEF IInv, TypeOK, UpdateReads, files, ram, work
<1>3. DecayIsAhead'
  BY DEF IInv, TypeOK, DecayIsAhead, UpdateReads, files, ram, work
<1>4. CataloguedIsNotMissed'
  BY DEF IInv, TypeOK, DecayIsAhead, CataloguedIsNotMissed, BeforeDecay, UpdateReads, files, ram, work
<1> QED  BY <1>2, <1>3, <1>4 DEF IInv

LEMMA UpdateOpensStep == IInv /\ UpdateOpens => IInv'
<1> SUFFICES ASSUME IInv, UpdateOpens PROVE IInv'
  OBVIOUS
<1>1. TypeOK'
  BY NothingType DEF IInv, TypeOK, UpdateOpens, work
<1>2. DecayIsAhead'
  BY DEF IInv, TypeOK, DecayIsAhead, UpdateOpens, work
<1>3. CataloguedIsNotMissed'
  BY DEF IInv, TypeOK, DecayIsAhead, CataloguedIsNotMissed, BeforeDecay, UpdateOpens, work
<1> QED  BY <1>1, <1>2, <1>3 DEF IInv

LEMMA UpdateWritesStep == IInv /\ UpdateWrites => IInv'
<1> SUFFICES ASSUME IInv, UpdateWrites PROVE IInv'
  OBVIOUS
<1>1. TypeOK'
  BY NothingType DEF IInv, TypeOK, UpdateWrites, work
<1>2. DecayIsAhead'
  BY DEF IInv, TypeOK, DecayIsAhead, UpdateWrites, work
<1>3. CataloguedIsNotMissed'
  BY DEF IInv, TypeOK, DecayIsAhead, CataloguedIsNotMissed, BeforeDecay, UpdateWrites, work
<1> QED  BY <1>1, <1>2, <1>3 DEF IInv

LEMMA UpdateDiesStep == IInv /\ UpdateDies => IInv'
<1> SUFFICES ASSUME IInv, UpdateDies PROVE IInv'
  OBVIOUS
<1>1. TypeOK'
  BY NothingType, LifecycleAssumption DEF IInv, TypeOK, UpdateDies, files, ram, work
<1>2. DecayIsAhead'
  BY DEF IInv, TypeOK, DecayIsAhead, UpdateDies, files, ram, work
<1>3. CataloguedIsNotMissed'
  BY DEF IInv, TypeOK, DecayIsAhead, CataloguedIsNotMissed, BeforeDecay, UpdateDies, files, ram, work
<1> QED  BY <1>1, <1>2, <1>3 DEF IInv

LEMMA StutterStep == IInv /\ (UNCHANGED vars) => IInv'
<1> SUFFICES ASSUME IInv, UNCHANGED vars PROVE IInv'
  OBVIOUS
<1>1. TypeOK'
  BY DEF IInv, TypeOK, vars, files, ram, work
<1>2. DecayIsAhead'
  BY DEF IInv, TypeOK, DecayIsAhead, vars, files, ram, work
<1>3. CataloguedIsNotMissed'
  BY DEF IInv, TypeOK, DecayIsAhead, CataloguedIsNotMissed, BeforeDecay, vars, files, ram, work
<1> QED  BY <1>1, <1>2, <1>3 DEF IInv

LEMMA StepInv == IInv /\ [Next]_vars => IInv'
  BY LoadStep, StampStep, SelectStep, BootStep, RefreshStep, AdminStep, DiffStep, MergeStep, SaveRanksStep, SaveLifecycleStep, DecayStep, SaveDecayStep, SaveFailsStep, CrashStep, UpdateReadsStep, UpdateOpensStep, UpdateWritesStep, UpdateDiesStep, StutterStep
     DEF Next, Reload, Synchronise, Update

THEOREM Invariance == Spec => []IInv
  BY InitInv, StepInv, PTL DEF Spec

\* The types of the two files, the copy in memory and the work in progress hold
\* in every behaviour (roles/lifecycle.py, roles/matrix.py).
THEOREM TypeCorrect == Spec => []TypeOK
  BY Invariance, PTL DEF IInv

\* auto_seed_new_models before decay_deprecated_models, in one synchronisation
\* that ends with the first exception: no model of the catalog is decayed for
\* misses it had before, whatever crashes and saves fail (router.py:1308).
THEOREM NotMissedTheorem == Spec => []CataloguedIsNotMissed
  BY Invariance, PTL DEF IInv

-----------------------------------------------------------------------------
(* IntentRouting.  The cache has one entry of a message, and every entry   *)
(* and every intent answers the message it is kept for.  A rating adds one *)
(* sample at a time, in the order of the tables, so what is left of the    *)
(* rating in progress tells which table is one ahead; a restart may leave  *)
(* it so for good.                                                         *)

\* The types.
DimScores == [score : 0..Unit, conf : 0..Full, n : Nat]
Answers == [of : Message, dims : Dims, sure : BOOLEAN]
Entries == [msg : Message, intent : Answers, age : 0..(Ttl + 1)]
Halves == [model : Model, dims : Seq(Dim), rating : 1..5, op : [Dim -> DimScores]]

IntentTypes ==
    /\ file \in [content : Contents \cup {NoProfiles}, mtime : 1..(MaxWrites + 1)]
    /\ filling \in {<<>>} \cup {<<c>> : c \in Contents}
    /\ filling # <<>> => file.mtime <= MaxWrites
    /\ seen \in 0..file.mtime
    /\ ProfilesOK(loaded) /\ ProfilesOK(text)
    /\ learned \in [Model -> [Dim -> DimScores]]
    /\ halfway \in {<<>>} \cup {<<h>> : h \in Halves}
    /\ pc \in [Request -> Places]
    /\ loop \in Request \cup {Free}
    /\ message \in [Request -> Message]
    /\ intent \in [Request -> Answers \cup {NoIntent}]
    /\ rated \in Nat /\ crashes \in Nat

\* A message has one entry, and every entry answers its own message.
Distinct(entries) ==
    \A j, k \in 1..Len(entries) : entries[j].msg = entries[k].msg => j = k
Matching(entries) == \A k \in 1..Len(entries) : entries[k].intent.of = entries[k].msg

CacheInv ==
    /\ cache \in Seq(Entries) /\ Len(cache) <= MaxEntries
    /\ Distinct(cache) /\ Matching(cache)

\* What a request is scored for answers the message of this request.
Answered == \A r \in Request : intent[r] # NoIntent => intent[r].of = message[r]

\* The dimensions a rating has still to commit end with those of the last tables.
Order == <<"task", "domain", "qs">>
InTurn(dims) ==
    /\ Len(dims) \in 1..3
    /\ \A k \in 1..Len(dims) : Table[dims[k]] = Order[3 - Len(dims) + k]
\* How many dimensions the rating in progress has left of a model, and the table that
\* is therefore one ahead.
Left(m) == IF halfway # <<>> /\ halfway[1].model = m THEN Len(halfway[1].dims) ELSE 0
RatingsOf(m) ==
    /\ Samples(m, "task") >= Samples(m, "domain") + (IF Left(m) = 2 THEN 1 ELSE 0)
    /\ Samples(m, "domain") >= Samples(m, "qs") + (IF Left(m) = 1 THEN 1 ELSE 0)
    /\ Samples(m, "task") <= Samples(m, "qs") + crashes
                             + (IF Left(m) \in 1..2 THEN 1 ELSE 0)
RatingsInv ==
    /\ halfway # <<>> => InTurn(halfway[1].dims)
    /\ \A m \in Model : RatingsOf(m)

IntentInv == IntentTypes /\ CacheInv /\ Answered /\ RatingsInv

-----------------------------------------------------------------------------
(* Scores *)

LEMMA MaxOfTwo ==
    ASSUME NEW a \in Int, NEW b \in Int
    PROVE  Max({a, b}) = IF a >= b THEN a ELSE b
<1>1. \E x \in {a, b} : \A y \in {a, b} : x >= y
  <2>1. CASE a >= b  BY <2>1
  <2>2. CASE b >= a  BY <2>2
  <2> QED  BY <2>1, <2>2
<1>2. Max({a, b}) \in {a, b} /\ \A y \in {a, b} : Max({a, b}) >= y
  BY <1>1 DEF Max
<1> QED  BY <1>2

LEMMA MinOfTwo ==
    ASSUME NEW a \in Int, NEW b \in Int
    PROVE  Min({a, b}) = IF a <= b THEN a ELSE b
<1>1. \E x \in {a, b} : \A y \in {a, b} : x <= y
  <2>1. CASE a >= b  BY <2>1
  <2>2. CASE b >= a  BY <2>2
  <2> QED  BY <2>1, <2>2
<1>2. Min({a, b}) \in {a, b} /\ \A y \in {a, b} : Min({a, b}) <= y
  BY <1>1 DEF Min
<1> QED  BY <1>2

LEMMA NeutralType == Neutral \in DimScores
  BY IntentAssumption DEF Neutral, DimScores

LEMMA NoProfilesType == ProfilesOK(NoProfiles)
  BY DEF NoProfiles, ProfilesOK

LEMMA ParsedType ==
    ASSUME NEW c \in Contents \cup {NoProfiles}, c # Broken PROVE ProfilesOK(Parsed(c))
<1>1. DOMAIN c \subseteq Model
  BY IntentAssumption DEF NoProfiles
<1>2. ASSUME NEW m \in DOMAIN c, NEW d \in Dim \cap DOMAIN c[m]
      PROVE  c[m][d] \in 0..Unit
  BY <1>2, IntentAssumption DEF NoProfiles
<1>3. Full \in Nat
  BY IntentAssumption
<1> QED  BY <1>1, <1>2, <1>3, NeutralType DEF ProfilesOK, Parsed, DimScores

\* What a rating makes of a score is a score.
LEMMA UpdatedType ==
    ASSUME NEW old \in DimScores, NEW rating \in 1..5, NEW op \in [Dim -> DimScores],
           NEW d \in Dim
    PROVE  /\ Updated(old, (rating * Unit) \div 5, FloorFor(op, d)) \in DimScores
           /\ Updated(old, (rating * Unit) \div 5, FloorFor(op, d)).n = old.n + 1
<1> DEFINE observation == (rating * Unit) \div 5
           floor == FloorFor(op, d)
           score == IF old.n = 0 THEN observation ELSE (observation + 9 * old.score) \div 10
<1>0. Unit \in Nat /\ Full \in Nat
  BY IntentAssumption
<1>1. old.score \in 0..Unit /\ old.n \in Nat /\ op[d].score \in 0..Unit
  BY DEF DimScores
<1>2. observation \in 0..Unit
  <2>1. rating \in {1, 2, 3, 4, 5}
    OBVIOUS
  <2> QED  BY <1>0, <2>1
<1>3. floor \in 0..Unit
  BY <1>0, <1>1 DEF FloorFor
<1> HIDE DEF observation, floor
<1>4. score \in 0..Unit
  BY <1>0, <1>1, <1>2
<1> HIDE DEF score
<1>5. Max({score, floor}) \in 0..Unit
  BY <1>0, <1>3, <1>4, MaxOfTwo
<1>6. Min({old.n + 1, Full}) \in 0..Full
  BY <1>0, <1>1, MinOfTwo
<1>7. Updated(old, observation, floor)
      = [score |-> Max({score, floor}), conf |-> Min({old.n + 1, Full}), n |-> old.n + 1]
  BY DEF Updated, score
<1>8. Updated(old, observation, floor) \in DimScores
      /\ Updated(old, observation, floor).n = old.n + 1
  BY <1>1, <1>5, <1>6, <1>7 DEF DimScores
<1> QED  BY <1>8 DEF observation, floor

-----------------------------------------------------------------------------
(* The cache *)

\* A key is forgotten without disturbing the others.
LEMMA WithoutMessage ==
    ASSUME NEW entries \in Seq(Entries), Distinct(entries), Matching(entries), NEW msg
    PROVE  /\ Without(entries, msg) \in Seq(Entries)
           /\ Len(Without(entries, msg)) \in 0..Len(entries)
           /\ (\E k \in 1..Len(entries) : entries[k].msg = msg)
                 => Len(Without(entries, msg)) < Len(entries)
           /\ Distinct(Without(entries, msg)) /\ Matching(Without(entries, msg))
           /\ \A k \in 1..Len(Without(entries, msg)) : Without(entries, msg)[k].msg # msg
<1> DEFINE n == Len(entries)
           places == {k \in 1..n : entries[k].msg = msg}
<1>0. n \in Nat
  BY LenProperties
<1>1. CASE places = {}
  <2>1. Without(entries, msg) = entries
    BY <1>1 DEF Without
  <2> QED  BY <1>0, <1>1, <2>1
<1>2. CASE places # {}
  <2> DEFINE p == CHOOSE k \in places : TRUE
             rest == RemoveAt(entries, p)
             From(k) == IF k < p THEN k ELSE k + 1
  <2>1. p \in 1..n /\ entries[p].msg = msg
    BY <1>2
  <2>2. Without(entries, msg) = rest
    BY <1>2 DEF Without
  <2> HIDE DEF p
  <2> DEFINE front == SubSeq(entries, 1, p - 1)
             back == SubSeq(entries, p + 1, n)
  <2>3. front \in Seq(Entries) /\ Len(front) = p - 1
        /\ \A k \in 1..(p - 1) : front[k] = entries[k]
    BY <2>1, <1>0, SubSeqProperties
  <2>4. back \in Seq(Entries) /\ Len(back) = n - p
        /\ \A k \in 1..(n - p) : back[k] = entries[p + k]
    BY <2>1, <1>0, SubSeqProperties
  <2>5. rest = front \o back
    BY DEF RemoveAt
  <2> HIDE DEF front, back
  <2>6. rest \in Seq(Entries) /\ Len(rest) = n - 1
    BY <2>1, <2>3, <2>4, <2>5, <1>0, ConcatProperties
  <2>7. ASSUME NEW k \in 1..(n - 1)
        PROVE  From(k) \in 1..n /\ From(k) # p /\ rest[k] = entries[From(k)]
    <3>1. CASE k < p
      BY <1>0, <2>1, <2>3, <2>4, <2>5, <3>1, ConcatProperties
    <3>2. CASE ~(k < p)
      <4>1. rest[k] = back[k - (p - 1)]
        BY <1>0, <2>1, <2>3, <2>4, <2>5, <3>2, ConcatProperties
      <4> QED  BY <1>0, <2>1, <2>4, <3>2, <4>1
    <3> QED  BY <3>1, <3>2
  <2> HIDE DEF rest
  <2>8. \A j, k \in 1..(n - 1) : From(j) = From(k) => j = k
    BY <2>1, <1>0
  <2>9. Distinct(rest)
    BY <2>6, <2>7, <2>8 DEF Distinct
  <2>10. Matching(rest)
    BY <2>6, <2>7 DEF Matching
  <2>11. \A k \in 1..(n - 1) : rest[k].msg # msg
    BY <2>1, <2>7 DEF Distinct
  <2> QED  BY <1>0, <2>1, <2>2, <2>6, <2>9, <2>10, <2>11
<1> QED  BY <1>1, <1>2

\* A new key goes to the end.
LEMMA WithEntry ==
    ASSUME NEW entries \in Seq(Entries), Distinct(entries), Matching(entries),
           NEW e \in Entries, e.intent.of = e.msg,
           \A k \in 1..Len(entries) : entries[k].msg # e.msg
    PROVE  LET all == Append(entries, e)
           IN  /\ all \in Seq(Entries) /\ Len(all) = Len(entries) + 1
               /\ Distinct(all) /\ Matching(all)
<1> DEFINE all == Append(entries, e)
<1>1. all \in Seq(Entries) /\ Len(all) = Len(entries) + 1 /\ Len(entries) \in Nat
      /\ (\A k \in 1..Len(entries) : all[k] = entries[k]) /\ all[Len(entries) + 1] = e
  BY AppendProperties, LenProperties
<1> HIDE DEF all
<1>2. Distinct(all)
  BY <1>1 DEF Distinct
<1>3. Matching(all)
  BY <1>1 DEF Matching
<1> QED  BY <1>1, <1>2, <1>3 DEF all

\* The first key is evicted.
LEMMA OldestGone ==
    ASSUME NEW entries \in Seq(Entries), Distinct(entries), Matching(entries),
           entries # <<>>
    PROVE  /\ Tail(entries) \in Seq(Entries) /\ Len(Tail(entries)) = Len(entries) - 1
           /\ Distinct(Tail(entries)) /\ Matching(Tail(entries))
<1> DEFINE rest == Tail(entries)
<1>1. rest \in Seq(Entries) /\ Len(rest) = Len(entries) - 1 /\ Len(entries) \in Nat
      /\ \A k \in 1..Len(rest) : rest[k] = entries[k + 1]
  BY HeadTailProperties, LenProperties
<1> HIDE DEF rest
<1>2. Distinct(rest)
  BY <1>1 DEF Distinct
<1>3. Matching(rest)
  BY <1>1 DEF Matching
<1> QED  BY <1>1, <1>2, <1>3 DEF rest

\* put keeps the cache within its limit, its keys apart and its entries true.
LEMMA PutKeeps ==
    ASSUME CacheInv, NEW msg \in Message, NEW i \in Answers, i.of = msg
    PROVE  LET entries == Put(cache, msg, i)
           IN  /\ entries \in Seq(Entries) /\ Len(entries) <= MaxEntries
               /\ Distinct(entries) /\ Matching(entries)
<1> DEFINE rest == Without(cache, msg)
           all == Append(rest, Entry(msg, i))
<1>0. MaxEntries \in Nat \ {0} /\ Ttl \in Nat
  BY IntentAssumption
<1>1. Entry(msg, i) \in Entries /\ Entry(msg, i).intent.of = Entry(msg, i).msg
      /\ Entry(msg, i).msg = msg
  BY <1>0 DEF Entry, Entries
<1>2. /\ rest \in Seq(Entries) /\ Len(rest) \in 0..Len(cache)
      /\ Distinct(rest) /\ Matching(rest)
      /\ \A k \in 1..Len(rest) : rest[k].msg # msg
  BY WithoutMessage DEF CacheInv
<1> HIDE DEF rest
<1>3. /\ all \in Seq(Entries) /\ Len(all) = Len(rest) + 1
      /\ Distinct(all) /\ Matching(all)
  BY <1>1, <1>2, WithEntry
<1>4. Len(all) <= MaxEntries + 1 /\ Len(all) \in Nat /\ all # <<>>
  BY <1>0, <1>2, <1>3, LenProperties DEF CacheInv
<1>5. Put(cache, msg, i) = IF Len(all) > MaxEntries THEN Tail(all) ELSE all
  BY DEF Put, rest
<1> HIDE DEF all
<1>6. CASE Len(all) > MaxEntries
  BY <1>0, <1>3, <1>4, <1>5, <1>6, OldestGone
<1>7. CASE ~(Len(all) > MaxEntries)
  BY <1>0, <1>3, <1>4, <1>5, <1>7
<1> QED  BY <1>6, <1>7

-----------------------------------------------------------------------------
(* The samples of a table *)

\* Sampled of any scores: those before a step and those after it.
SampledIn(scores, m, table) ==
    UNION {{d} \X (1..scores[m][d].n) : d \in {x \in Dim : Table[x] = table}}

LEMMA SamplesNow == \A m, table : Samples(m, table) = Cardinality(SampledIn(learned, m, table))
  BY DEF Samples, Sampled, SampledIn

LEMMA SamplesThen ==
    \A m, table : Samples(m, table)' = Cardinality(SampledIn(learned', m, table))
  BY DEF Samples, Sampled, SampledIn

LEMMA SampledFinite ==
    ASSUME NEW scores \in [Model -> [Dim -> DimScores]], NEW m \in Model, NEW table
    PROVE  /\ IsFiniteSet(SampledIn(scores, m, table))
           /\ Cardinality(SampledIn(scores, m, table)) \in Nat
<1> DEFINE D == {x \in Dim : Table[x] = table}
           Of(d) == {d} \X (1..scores[m][d].n)
           all == {Of(d) : d \in D}
<1>1. IsFiniteSet(D)
  BY IntentAssumption, FS_Subset
<1>2. IsFiniteSet(all)
  <2> DEFINE f == [d \in D |-> Of(d)]
  <2>1. f \in Surjection(D, all)
    BY DEF Surjection
  <2> QED  BY <1>1, <2>1, FS_Surjection
<1>3. ASSUME NEW d \in D PROVE IsFiniteSet(Of(d))
  <2>1. scores[m][d].n \in Nat
    BY DEF DimScores
  <2>2. IsFiniteSet(1..scores[m][d].n)
    <3>1. 1 \in Int /\ scores[m][d].n \in Int
      BY <2>1
    <3> QED  BY <3>1, FS_Interval
  <2>3. IsFiniteSet({d})
    BY FS_Singleton
  <2> QED  BY <2>2, <2>3, FS_Product
<1>4. IsFiniteSet(UNION all)
  <2>1. \A X \in all : IsFiniteSet(X)
    BY <1>3
  <2> HIDE DEF all
  <2> QED  BY <1>2, <2>1, FS_UNION
<1>5. SampledIn(scores, m, table) = UNION all
  BY DEF SampledIn
<1> QED  BY <1>4, <1>5, FS_CardinalityType

\* One dimension of one model has one sample more.
Grown(before, after, x, m, d) ==
    \A e \in Dim : after[x][e].n = before[x][e].n + (IF x = m /\ e = d THEN 1 ELSE 0)

\* One dimension committed is one sample of its table, and of no other.
LEMMA CommitSamples ==
    ASSUME NEW before \in [Model -> [Dim -> DimScores]], NEW after,
           NEW m \in Model, NEW d \in Dim, NEW x \in Model, NEW table,
           Grown(before, after, x, m, d)
    PROVE  Cardinality(SampledIn(after, x, table))
           = Cardinality(SampledIn(before, x, table))
             + (IF x = m /\ Table[d] = table THEN 1 ELSE 0)
<1> DEFINE extra == <<d, before[m][d].n + 1>>
<1>1. \A e \in Dim : before[x][e].n \in Nat
  BY DEF DimScores
<1>2. \A e \in Dim : after[x][e].n
                     = IF x = m /\ e = d THEN before[m][d].n + 1 ELSE before[x][e].n
  BY <1>1 DEF Grown
<1>3. \A e \in Dim, k \in Nat : <<e, k>> \in SampledIn(before, x, table)
                        <=> Table[e] = table /\ k \in 1..before[x][e].n
  BY DEF SampledIn
<1>4. \A e \in Dim, k \in Nat : <<e, k>> \in SampledIn(after, x, table)
                        <=> Table[e] = table /\ k \in 1..after[x][e].n
  BY DEF SampledIn
<1>5. /\ \A p \in SampledIn(before, x, table) : \E e \in Dim, k \in Nat : p = <<e, k>>
      /\ \A p \in SampledIn(after, x, table) : \E e \in Dim, k \in Nat : p = <<e, k>>
  BY DEF SampledIn
<1>6. CASE x = m /\ Table[d] = table
  <2>1. extra \notin SampledIn(before, x, table)
    BY <1>1, <1>3, <1>6
  <2>2. SampledIn(after, x, table) = SampledIn(before, x, table) \cup {extra}
    <3>1. ASSUME NEW e \in Dim, NEW k \in Nat
          PROVE  <<e, k>> \in SampledIn(after, x, table)
                 <=> <<e, k>> \in SampledIn(before, x, table) \/ <<e, k>> = extra
      <4>1. CASE e = d
        <5>1. <<d, k>> \in SampledIn(after, x, table) <=> k \in 1..(before[m][d].n + 1)
          BY <1>2, <1>4, <1>6
        <5>2. <<d, k>> \in SampledIn(before, x, table) <=> k \in 1..before[m][d].n
          BY <1>3, <1>6
        <5>3. <<d, k>> = extra <=> k = before[m][d].n + 1
          OBVIOUS
        <5>4. k \in 1..(before[m][d].n + 1)
              <=> k \in 1..before[m][d].n \/ k = before[m][d].n + 1
          <6>1. \A n \in Nat : k \in 1..(n + 1) <=> k \in 1..n \/ k = n + 1
            OBVIOUS
          <6>2. before[m][d].n \in Nat
            BY <1>1, <1>6
          <6> QED  BY <6>1, <6>2
        <5> HIDE DEF extra
        <5> QED  BY <4>1, <5>1, <5>2, <5>3, <5>4
      <4>2. CASE e # d
        BY <1>1, <1>2, <1>3, <1>4, <1>6, <4>2
      <4> QED  BY <4>1, <4>2
    <3>2. extra \in SampledIn(after, x, table)
      BY <1>1, <1>2, <1>4, <1>6
    <3> QED  BY <1>5, <3>1, <3>2
  <2>3. IsFiniteSet(SampledIn(before, x, table)) /\ Cardinality(SampledIn(before, x, table)) \in Nat
    BY SampledFinite
  <2>4. Cardinality(SampledIn(after, x, table)) = Cardinality(SampledIn(before, x, table)) + 1
    BY <2>1, <2>2, <2>3, FS_AddElement
  <2> QED  BY <1>6, <2>4
<1>7. CASE ~(x = m /\ Table[d] = table)
  <2>1. ASSUME NEW e \in Dim, NEW k \in Nat
        PROVE  <<e, k>> \in SampledIn(after, x, table) <=> <<e, k>> \in SampledIn(before, x, table)
    BY <1>2, <1>3, <1>4, <1>7
  <2>2. SampledIn(after, x, table) = SampledIn(before, x, table)
    <3>1. \A p \in SampledIn(after, x, table) : p \in SampledIn(before, x, table)
      BY <1>5, <2>1
    <3>2. \A p \in SampledIn(before, x, table) : p \in SampledIn(after, x, table)
      BY <1>5, <2>1
    <3> QED  BY <3>1, <3>2
  <2>3. Cardinality(SampledIn(before, x, table)) \in Nat
    BY SampledFinite
  <2> QED  BY <1>7, <2>2, <2>3
<1> QED  BY <1>6, <1>7

-----------------------------------------------------------------------------
(* Steps *)

LEMMA RatingsFrame ==
    ASSUME RatingsInv, UNCHANGED <<learned, halfway, crashes>> PROVE RatingsInv'
<1>1. \A m, table : Samples(m, table)' = Samples(m, table)
  BY DEF Samples, Sampled
<1>2. \A m : Left(m)' = Left(m)
  BY DEF Left
<1> QED  BY <1>1, <1>2 DEF RatingsInv, RatingsOf

LEMMA CacheFrame == ASSUME CacheInv, UNCHANGED cache PROVE CacheInv'
  BY DEF CacheInv

LEMMA IntentInitInv == ASSUME IntentInit PROVE IntentInv
<1>0. /\ Unit \in Nat /\ Full \in Nat /\ MaxWrites \in Nat /\ MaxEntries \in Nat \ {0}
      /\ Message # {}
  BY IntentAssumption
<1>1. PICK c \in Contents \ {Broken} :
          file = [content |-> c, mtime |-> 1] /\ loaded = Parsed(c)
  BY DEF IntentInit
<1>2. IntentTypes
  <2>1. ProfilesOK(loaded)
    BY <1>1, ParsedType
  <2>2. learned \in [Model -> [Dim -> DimScores]]
    BY <1>0 DEF IntentInit, DimScores
  <2>3. message \in [Request -> Message]
    BY <1>0 DEF IntentInit
  <2> QED  BY <1>0, <1>1, <2>1, <2>2, <2>3, NoProfilesType
           DEF IntentInit, IntentTypes, Places, Ended
<1>3. CacheInv
  BY <1>0, EmptySeq DEF IntentInit, CacheInv, Distinct, Matching
<1>4. Answered
  BY DEF IntentInit, Answered
<1>5. RatingsInv
  <2>1. ASSUME NEW m \in Model, NEW table PROVE Samples(m, table) = 0
    <3>1. Sampled(m, table) = {}
      <4>1. \A d \in Dim : learned[m][d].n = 0
        BY DEF IntentInit
      <4>2. 1..0 = {}
        OBVIOUS
      <4> QED  BY <4>1, <4>2 DEF Sampled
    <3> QED  BY <3>1, FS_EmptySet DEF Samples
  <2> QED  BY <2>1 DEF IntentInit, RatingsInv, RatingsOf, Left
<1> QED  BY <1>2, <1>3, <1>4, <1>5 DEF IntentInv

LEMMA BeginWriteStep ==
    ASSUME IntentInv, NEW c \in Contents, BeginWrite(c) PROVE IntentInv'
<1>0. MaxWrites \in Nat
  BY IntentAssumption
<1>1. IntentTypes'
  <2>1. PICK tick \in {0, 1} : file' = [content |-> NoProfiles, mtime |-> file.mtime + tick]
    BY DEF BeginWrite
  <2>2. file.mtime \in 1..(MaxWrites + 1) /\ file.mtime < MaxWrites /\ seen \in 0..file.mtime
    BY DEF BeginWrite, IntentInv, IntentTypes
  <2>3. file'.mtime \in 1..MaxWrites /\ file'.mtime >= file.mtime
    BY <1>0, <2>1, <2>2
  <2>4. file' \in [content : Contents \cup {NoProfiles}, mtime : 1..(MaxWrites + 1)]
    BY <1>0, <2>1, <2>3
  <2>5. seen' \in 0..file'.mtime
    BY <2>2, <2>3 DEF BeginWrite, loaderVars
  <2>6. filling' \in {<<>>} \cup {<<x>> : x \in Contents}
    BY DEF BeginWrite
  <2> QED  BY <1>0, <2>3, <2>4, <2>5, <2>6
           DEF IntentInv, IntentTypes, BeginWrite, loaderVars, feedbackVars, requestVars
<1>2. CacheInv' /\ Answered' /\ RatingsInv'
  BY CacheFrame, RatingsFrame
     DEF IntentInv, BeginWrite, feedbackVars, requestVars, Answered
<1> QED  BY <1>1, <1>2 DEF IntentInv

LEMMA EndWriteStep == ASSUME IntentInv, EndWrite PROVE IntentInv'
<1>0. MaxWrites \in Nat
  BY IntentAssumption
<1>1. IntentTypes'
  <2>1. PICK tick \in {0, 1} : file' = [content |-> filling[1], mtime |-> file.mtime + tick]
    BY DEF EndWrite
  <2>2. /\ file.mtime \in 1..(MaxWrites + 1) /\ file.mtime <= MaxWrites
        /\ seen \in 0..file.mtime /\ filling[1] \in Contents
    BY DEF EndWrite, IntentInv, IntentTypes
  <2>3. file'.mtime \in 1..(MaxWrites + 1) /\ file'.mtime >= file.mtime
    BY <1>0, <2>1, <2>2
  <2>4. file' \in [content : Contents \cup {NoProfiles}, mtime : 1..(MaxWrites + 1)]
    BY <1>0, <2>1, <2>2, <2>3
  <2>5. seen' \in 0..file'.mtime
    BY <2>2, <2>3 DEF EndWrite, loaderVars
  <2>6. filling' = <<>>
    BY DEF EndWrite
  <2> QED  BY <2>4, <2>5, <2>6
           DEF IntentInv, IntentTypes, EndWrite, loaderVars, feedbackVars, requestVars
<1>2. CacheInv' /\ Answered' /\ RatingsInv'
  BY CacheFrame, RatingsFrame
     DEF IntentInv, EndWrite, feedbackVars, requestVars, Answered
<1> QED  BY <1>1, <1>2 DEF IntentInv

LEMMA IntentTickStep == ASSUME IntentInv, Tick PROVE IntentInv'
<1>0. Ttl \in Nat
  BY IntentAssumption
<1>1. IntentTypes'
  BY DEF IntentInv, IntentTypes, Tick, fileVars, loaderVars, feedbackVars, requestVars
<1>2. CacheInv'
  <2> DEFINE n == Len(cache)
             Older(e) == [e EXCEPT !.age = Min({e.age + 1, Ttl + 1})]
  <2>1. n \in Nat /\ \A k \in 1..n : cache[k] \in Entries
    BY LenProperties DEF IntentInv, CacheInv
  <2>2. ASSUME NEW e \in Entries
        PROVE  Older(e) \in Entries /\ Older(e).msg = e.msg /\ Older(e).intent = e.intent
    <3>1. e.age \in 0..(Ttl + 1)
      BY DEF Entries
    <3>2. Min({e.age + 1, Ttl + 1}) \in 0..(Ttl + 1)
      BY <1>0, <3>1, MinOfTwo
    <3> QED  BY <3>2 DEF Entries
  <2>3. cache' = [k \in 1..n |-> Older(cache[k])]
    BY DEF Tick
  <2> HIDE DEF Older
  <2>4. cache' \in Seq(Entries) /\ Len(cache') = n
    BY <2>1, <2>2, <2>3
  <2>5. \A k \in 1..n : cache'[k].msg = cache[k].msg /\ cache'[k].intent = cache[k].intent
    BY <2>1, <2>2, <2>3
  <2>6. Distinct(cache') /\ Matching(cache')
    BY <2>4, <2>5 DEF IntentInv, CacheInv, Distinct, Matching
  <2> QED  BY <2>4, <2>6 DEF IntentInv, CacheInv
<1>3. Answered' /\ RatingsInv'
  BY RatingsFrame DEF IntentInv, Tick, feedbackVars, requestVars, Answered
<1> QED  BY <1>1, <1>2, <1>3 DEF IntentInv

\* A hit moves its entry to the end, a miss forgets the one that is too old.
LEMMA ArriveStep ==
    ASSUME IntentInv, NEW r \in Request, NEW msg \in Message, Arrive(r, msg)
    PROVE  IntentInv'
<1> DEFINE rest == Without(cache, msg)
           hits == {k \in Position(msg) : cache[k].age <= Ttl}
<1>1. /\ rest \in Seq(Entries) /\ Len(rest) \in 0..Len(cache)
      /\ (\E k \in 1..Len(cache) : cache[k].msg = msg) => Len(rest) < Len(cache)
      /\ Distinct(rest) /\ Matching(rest)
      /\ \A k \in 1..Len(rest) : rest[k].msg # msg
  BY WithoutMessage DEF IntentInv, CacheInv
<1>2. Len(cache) \in Nat /\ Len(cache) <= MaxEntries /\ MaxEntries \in Nat
  BY IntentAssumption, LenProperties DEF IntentInv, CacheInv
<1>3. /\ message' = [message EXCEPT ![r] = msg] /\ pc' = [pc EXCEPT ![r] = "check"]
      /\ loop' = r /\ UNCHANGED <<fileVars, loaderVars, feedbackVars, crashes>>
      /\ \/ \E k \in hits : /\ intent' = [intent EXCEPT ![r] = cache[k].intent]
                            /\ cache' = Append(rest, cache[k])
         \/ /\ hits = {} /\ cache' = rest /\ intent' = [intent EXCEPT ![r] = NoIntent]
  BY DEF Arrive
<1> HIDE DEF rest
<1>4. PICK i \in Answers \cup {NoIntent} :
         intent' = [intent EXCEPT ![r] = i] /\ (i # NoIntent => i.of = msg) /\ CacheInv'
  <2>1. CASE \E k \in hits : /\ intent' = [intent EXCEPT ![r] = cache[k].intent]
                             /\ cache' = Append(rest, cache[k])
    <3>1. PICK k \in hits : /\ intent' = [intent EXCEPT ![r] = cache[k].intent]
                            /\ cache' = Append(rest, cache[k])
      BY <2>1
    <3>2. k \in 1..Len(cache) /\ cache[k].msg = msg
      BY DEF Position
    <3>3. cache[k] \in Entries /\ cache[k].intent.of = msg
      BY <3>2 DEF IntentInv, CacheInv, Matching
    <3>4. /\ Append(rest, cache[k]) \in Seq(Entries)
          /\ Len(Append(rest, cache[k])) = Len(rest) + 1
          /\ Distinct(Append(rest, cache[k])) /\ Matching(Append(rest, cache[k]))
      BY <1>1, <3>2, <3>3, WithEntry
    <3>5. CacheInv'
      BY <1>1, <1>2, <3>1, <3>2, <3>4 DEF CacheInv
    <3>6. cache[k].intent \in Answers
      BY <3>3 DEF Entries
    <3> QED  BY <3>1, <3>3, <3>5, <3>6
  <2>2. CASE hits = {} /\ cache' = rest /\ intent' = [intent EXCEPT ![r] = NoIntent]
    <3>1. CacheInv'
      BY <1>1, <1>2, <2>2 DEF CacheInv
    <3> QED  BY <2>2, <3>1
  <2> QED  BY <1>3, <2>1, <2>2
<1>5. IntentTypes'
  BY <1>3, <1>4
     DEF IntentInv, IntentTypes, fileVars, loaderVars, feedbackVars, Places
<1>6. Answered'
  BY <1>3, <1>4 DEF IntentInv, IntentTypes, Answered
<1>7. RatingsInv'
  BY <1>3, RatingsFrame DEF IntentInv, feedbackVars
<1> QED  BY <1>4, <1>5, <1>6, <1>7 DEF IntentInv

LEMMA ReloadedType ==
    ASSUME IntentTypes, NEW r \in Request, Reloaded(r)
    PROVE  pc' \in [Request -> Places] /\ loop' \in Request \cup {Free}
  BY DEF IntentTypes, Reloaded, Places

\* The reload of a request touches the loaded profiles only.
LEMMA ReloadFrame ==
    ASSUME IntentInv, UNCHANGED <<feedbackVars, message, intent, cache, crashes>>
    PROVE  CacheInv' /\ Answered' /\ RatingsInv'
  BY CacheFrame, RatingsFrame DEF IntentInv, feedbackVars, Answered

LEMMA CheckStep == ASSUME IntentInv, NEW r \in Request, Check(r) PROVE IntentInv'
<1>1. pc' \in [Request -> Places] /\ loop' \in Request \cup {Free}
  <2>1. CASE pc' = [pc EXCEPT ![r] = "read"] /\ UNCHANGED loop
    BY <2>1 DEF IntentInv, IntentTypes, Places
  <2>2. CASE Reloaded(r)
    BY <2>2, ReloadedType DEF IntentInv
  <2> QED  BY <2>1, <2>2 DEF Check
<1>2. IntentTypes'
  BY <1>1 DEF IntentInv, IntentTypes, Check, fileVars, loaderVars, feedbackVars
<1> QED  BY <1>2, ReloadFrame DEF IntentInv, Check

LEMMA ReadStep == ASSUME IntentInv, NEW r \in Request, Read(r) PROVE IntentInv'
<1>1. /\ pc' \in [Request -> Places] /\ loop' \in Request \cup {Free}
      /\ ProfilesOK(loaded') /\ ProfilesOK(text')
  <2>1. CASE loaded' = NoProfiles /\ UNCHANGED text /\ Reloaded(r)
    BY <2>1, ReloadedType, NoProfilesType DEF IntentInv, IntentTypes
  <2>2. CASE /\ file.content # Broken /\ text' = Parsed(file.content)
             /\ UNCHANGED <<loaded, loop>> /\ pc' = [pc EXCEPT ![r] = "stat"]
    <3>1. ProfilesOK(Parsed(file.content))
      BY <2>2, ParsedType DEF IntentInv, IntentTypes
    <3> QED  BY <2>2, <3>1 DEF IntentInv, IntentTypes, Places
  <2> QED  BY <2>1, <2>2 DEF Read
<1>2. IntentTypes'
  BY <1>1 DEF IntentInv, IntentTypes, Read, fileVars, feedbackVars
<1> QED  BY <1>2, ReloadFrame DEF IntentInv, Read

LEMMA StatStep == ASSUME IntentInv, NEW r \in Request, Stat(r) PROVE IntentInv'
<1>1. pc' \in [Request -> Places] /\ loop' \in Request \cup {Free}
  BY ReloadedType DEF IntentInv, Stat
<1>2. seen' \in 0..file'.mtime
  <2>1. file.mtime \in 1..(MaxWrites + 1) /\ MaxWrites \in Nat
    BY IntentAssumption DEF IntentInv, IntentTypes
  <2> QED  BY <2>1 DEF Stat, fileVars
<1>3. IntentTypes'
  BY <1>1, <1>2, NoProfilesType DEF IntentInv, IntentTypes, Stat, fileVars, feedbackVars
<1> QED  BY <1>3, ReloadFrame DEF IntentInv, Stat

LEMMA SaidType ==
    ASSUME NEW j \in Intents, NEW msg \in Message
    PROVE  Said(j, msg) \in Answers /\ Said(j, msg).of = msg
  BY IntentAssumption DEF Said, Answers

LEMMA AnswerStep ==
    ASSUME IntentInv, NEW r \in Request, NEW i \in Answers \cup {NoIntent},
           i # NoIntent => i \in Answers /\ i.of = message[r], Answer(r, i)
    PROVE  IntentInv'
<1>1. IntentTypes'
  BY DEF IntentInv, IntentTypes, Answer, Places, Ended, fileVars, loaderVars, feedbackVars
<1>2. CacheInv'
  <2>1. CASE i = NoIntent
    BY <2>1, CacheFrame DEF IntentInv, Answer, Remember
  <2>2. CASE i # NoIntent
    <3>1. cache' = Put(cache, message[r], i) /\ message[r] \in Message
      BY <2>2 DEF IntentInv, IntentTypes, Answer, Remember
    <3> QED  BY <2>2, <3>1, PutKeeps DEF IntentInv, CacheInv
  <2> QED  BY <2>1, <2>2
<1>3. Answered'
  BY DEF IntentInv, IntentTypes, Answered, Answer
<1>4. RatingsInv'
  BY RatingsFrame DEF IntentInv, Answer, feedbackVars
<1> QED  BY <1>1, <1>2, <1>3, <1>4 DEF IntentInv

LEMMA EscapeStep == ASSUME IntentInv, NEW r \in Request, Escape(r) PROVE IntentInv'
<1>1. IntentTypes'
  BY DEF IntentInv, IntentTypes, Escape, Places, Ended, fileVars, loaderVars, feedbackVars
<1> QED  BY <1>1, ReloadFrame DEF IntentInv, Escape

LEMMA ScoreStep == ASSUME IntentInv, NEW r \in Request, Score(r) PROVE IntentInv'
<1>1. IntentTypes'
  <2>1. pc' \in [Request -> Places]
    BY DEF IntentInv, IntentTypes, Score, Places, Ended
  <2> QED  BY <2>1 DEF IntentInv, IntentTypes, Score, fileVars, loaderVars, feedbackVars
<1>2. Answered'
  BY DEF IntentInv, IntentTypes, Answered, Score
<1>3. CacheInv' /\ RatingsInv'
  BY CacheFrame, RatingsFrame DEF IntentInv, Score, feedbackVars
<1> QED  BY <1>1, <1>2, <1>3 DEF IntentInv

LEMMA RateStep == ASSUME IntentInv, NEW given \in Feedback, Rate(given) PROVE IntentInv'
<1> DEFINE op == IF given.model \in DOMAIN loaded THEN loaded[given.model]
                 ELSE [d \in Dim |-> [Neutral EXCEPT !.score = 0]]
           h == [model |-> given.model, dims |-> given.dims, rating |-> given.rating,
                 op |-> op]
<1>0. /\ given.model \in Model /\ given.rating \in 1..5
      /\ given.dims \in Dims /\ InOrder(given.dims) /\ Unit \in Nat /\ Full \in Nat
  BY IntentAssumption
<1>1. op \in [Dim -> DimScores]
  <2>1. CASE given.model \in DOMAIN loaded
    BY <2>1 DEF IntentInv, IntentTypes, ProfilesOK, DimScores
  <2>2. CASE given.model \notin DOMAIN loaded
    <3>1. [Neutral EXCEPT !.score = 0] \in DimScores
      BY <1>0 DEF Neutral, DimScores
    <3> QED  BY <2>2, <3>1
  <2> QED  BY <2>1, <2>2
<1>2. given.dims \in Seq(Dim) /\ Len(given.dims) = 3
  <2>1. PICK a \in Dim, b \in Dim, c \in Dim : given.dims = <<a, b, c>>
    BY <1>0 DEF Dims
  <2> QED  BY <2>1
<1>3. InTurn(given.dims)
  BY <1>0, <1>2 DEF InOrder, InTurn, Order
<1>4. halfway = <<>> /\ halfway' = <<h>>
  BY DEF Rate
<1>5. h \in Halves
  BY <1>0, <1>1, <1>2 DEF Halves
<1> HIDE DEF op
<1>6. h.model = given.model /\ h.dims = given.dims
  OBVIOUS
<1> HIDE DEF h
<1>7. IntentTypes'
  BY <1>4, <1>5
     DEF IntentInv, IntentTypes, Rate, fileVars, loaderVars, requestVars
<1>8. CacheInv' /\ Answered'
  BY CacheFrame DEF IntentInv, Rate, requestVars, Answered
<1>9. RatingsInv'
  <2>1. \A m, table : Samples(m, table)' = Samples(m, table)
    BY DEF Rate, Samples, Sampled
  <2>2. halfway'[1] = h
    BY <1>4
  <2>3. ASSUME NEW m \in Model PROVE Left(m) = 0 /\ Left(m)' \in {0, 3}
    BY <1>2, <1>4, <1>6, <2>2 DEF Left
  <2>4. ASSUME NEW m \in Model PROVE RatingsOf(m)'
    BY <2>1, <2>3 DEF IntentInv, RatingsInv, RatingsOf, Rate
  <2> QED  BY <1>3, <1>6, <2>2, <2>4 DEF RatingsInv
<1> QED  BY <1>7, <1>8, <1>9 DEF IntentInv

LEMMA CommitStep == ASSUME IntentInv, Commit PROVE IntentInv'
<1>0. PICK h \in Halves : halfway = <<h>>
  BY DEF IntentInv, IntentTypes, Commit
<1> DEFINE d == Head(h.dims)
           m == h.model
           new == Updated(learned[m][d], (h.rating * Unit) \div 5, FloorFor(h.op, d))
           rest == [h EXCEPT !.dims = Tail(@)]
           left == Len(h.dims)
<1>1. /\ halfway # <<>> /\ halfway[1] = h /\ learned' = [learned EXCEPT ![m][d] = new]
      /\ halfway' = IF left = 1 THEN <<>> ELSE <<rest>>
      /\ UNCHANGED <<fileVars, loaderVars, rated, requestVars, cache, crashes>>
  BY <1>0 DEF Commit
<1>2. h \in Halves /\ InTurn(h.dims)
  BY <1>1 DEF IntentInv, RatingsInv
<1>3. /\ m \in Model /\ h.dims \in Seq(Dim) /\ h.rating \in 1..5
      /\ h.op \in [Dim -> DimScores] /\ left \in 1..3
  BY <1>2 DEF Halves, InTurn
<1>4. /\ d \in Dim /\ Table[d] = Order[4 - left]
      /\ Tail(h.dims) \in Seq(Dim) /\ Len(Tail(h.dims)) = left - 1
      /\ \A k \in 1..(left - 1) : Tail(h.dims)[k] = h.dims[k + 1]
  <2>1. ASSUME h.dims = <<>> PROVE FALSE
    <3>1. Len(h.dims) = 0
      BY <2>1
    <3> QED  BY <1>3, <3>1
  <2>2. d = h.dims[1] /\ d \in Dim
    BY <1>3, <2>1, HeadTailProperties
  <2>3. Table[h.dims[1]] = Order[4 - left]
    <3> HIDE DEF left
    <3>1. 1 \in 1..left /\ 3 - left + 1 = 4 - left
      BY <1>3
    <3>2. Table[h.dims[1]] = Order[3 - left + 1]
      BY <1>2, <3>1 DEF InTurn, left
    <3> QED  BY <3>1, <3>2
  <2> QED  BY <1>3, <2>1, <2>2, <2>3, HeadTailProperties
<1>5. learned \in [Model -> [Dim -> DimScores]] /\ learned[m][d] \in DimScores
  BY <1>3, <1>4 DEF IntentInv, IntentTypes
<1>6. new \in DimScores /\ new.n = learned[m][d].n + 1
  BY <1>3, <1>4, <1>5, UpdatedType
<1> HIDE DEF new, d
<1>7. rest \in Halves /\ rest.model = m /\ rest.dims = Tail(h.dims)
  BY <1>2, <1>4 DEF Halves
<1>8. ASSUME left # 1 PROVE InTurn(rest.dims)
  <2>1. left - 1 \in 1..3
    BY <1>3, <1>8
  <2>2. ASSUME NEW k \in 1..(left - 1)
        PROVE  Table[Tail(h.dims)[k]] = Order[3 - (left - 1) + k]
    <3>1. k + 1 \in 1..left /\ 3 - left + (k + 1) = 3 - (left - 1) + k
      BY <1>3
    <3>2. Table[h.dims[k + 1]] = Order[3 - left + (k + 1)]
      BY <1>2, <3>1 DEF InTurn
    <3> QED  BY <1>4, <3>1, <3>2
  <2> HIDE DEF left, rest
  <2> QED  BY <1>4, <1>7, <2>1, <2>2 DEF InTurn
<1>9. learned' \in [Model -> [Dim -> DimScores]]
  BY <1>1, <1>5, <1>6
<1>10. ASSUME NEW x \in Model, NEW table
       PROVE  /\ Samples(x, table)'
                 = Samples(x, table) + (IF x = m /\ Table[d] = table THEN 1 ELSE 0)
              /\ Samples(x, table) \in Nat
  <2>1. learned' = [learned EXCEPT ![m][d] = new] /\ m \in Model /\ d \in Dim
    BY <1>1, <1>3, <1>4
  <2>2. Cardinality(SampledIn(learned, x, table)) \in Nat
    BY <1>5, SampledFinite
  <2> HIDE DEF m
  <2>3. Grown(learned, learned', x, m, d)
    <3>1. \A e \in Dim : learned[x][e].n \in Nat
      BY <1>5 DEF DimScores
    <3> QED  BY <1>5, <1>6, <2>1, <3>1 DEF Grown
  <2>4. Cardinality(SampledIn(learned', x, table))
        = Cardinality(SampledIn(learned, x, table))
          + (IF x = m /\ Table[d] = table THEN 1 ELSE 0)
    <3>1. learned \in [Model -> [Dim -> DimScores]] /\ m \in Model /\ d \in Dim
      BY <1>5, <2>1
    <3> QED  BY <2>3, <3>1, CommitSamples
  <2> QED  BY <2>2, <2>4, SamplesNow, SamplesThen
<1>11. ASSUME NEW x \in Model
       PROVE  /\ Left(x) = IF x = m THEN left ELSE 0
              /\ Left(x)' = IF x = m THEN left - 1 ELSE 0
  <2> HIDE DEF rest
  <2>1. halfway' # <<>> => halfway'[1] = rest
    BY <1>1
  <2>2. halfway' = <<>> <=> left = 1
    BY <1>1
  <2>3. Left(x) = IF x = m THEN left ELSE 0
    BY <1>1 DEF Left
  <2>4. Len(rest.dims) = left - 1
    BY <1>4, <1>7
  <2> HIDE DEF m, left
  <2>5. Left(x)' = IF halfway' # <<>> /\ halfway'[1].model = x
                   THEN Len(halfway'[1].dims) ELSE 0
    BY DEF Left
  <2>6. Left(x)' = IF x = m THEN left - 1 ELSE 0
    <3>1. CASE left = 1
      BY <2>2, <2>5, <3>1
    <3>2. CASE left # 1
      BY <1>7, <2>1, <2>2, <2>4, <2>5, <3>2
    <3> QED  BY <3>1, <3>2
  <2> QED  BY <2>3, <2>6
<1> HIDE DEF m, left, rest
<1>12. IntentTypes'
  BY <1>1, <1>7, <1>9 DEF IntentInv, IntentTypes, fileVars, loaderVars, requestVars
<1>13. CacheInv' /\ Answered'
  BY <1>1, CacheFrame DEF IntentInv, requestVars, Answered
<1>14. ASSUME NEW x \in Model PROVE RatingsOf(x)'
  <2>1. RatingsOf(x) /\ crashes \in Nat /\ crashes' = crashes
    BY <1>1 DEF IntentInv, IntentTypes, RatingsInv
  <2>2. CASE x # m
    BY <1>10, <1>11, <2>1, <2>2 DEF RatingsOf
  <2>3. CASE x = m
    <3>1. CASE left = 3
      <4>1. Table[d] = "task"
        BY <1>4, <3>1 DEF Order
      <4> QED  BY <1>10, <1>11, <2>1, <2>3, <3>1, <4>1 DEF RatingsOf
    <3>2. CASE left = 2
      <4>1. Table[d] = "domain"
        BY <1>4, <3>2 DEF Order
      <4> QED  BY <1>10, <1>11, <2>1, <2>3, <3>2, <4>1 DEF RatingsOf
    <3>3. CASE left = 1
      <4>1. Table[d] = "qs"
        BY <1>4, <3>3 DEF Order
      <4> QED  BY <1>10, <1>11, <2>1, <2>3, <3>3, <4>1 DEF RatingsOf
    <3> QED  BY <1>3, <3>1, <3>2, <3>3
  <2> QED  BY <2>2, <2>3
<1>15. RatingsInv'
  BY <1>1, <1>8, <1>14 DEF RatingsInv
<1> QED  BY <1>12, <1>13, <1>15 DEF IntentInv

LEMMA IntentCrashStep == ASSUME IntentInv, IntentCrash PROVE IntentInv'
<1>1. IntentTypes'
  <2>1. file.mtime \in 1..(MaxWrites + 1) /\ MaxWrites \in Nat /\ crashes \in Nat
    BY IntentAssumption DEF IntentInv, IntentTypes
  <2>2. ProfilesOK(loaded') /\ seen' \in 0..file'.mtime
    <3>1. CASE file.content = Broken
      BY <2>1, <3>1, NoProfilesType DEF IntentCrash, fileVars
    <3>2. CASE file.content # Broken
      <4>1. ProfilesOK(Parsed(file.content))
        BY <3>2, ParsedType DEF IntentInv, IntentTypes
      <4> QED  BY <2>1, <3>2, <4>1 DEF IntentCrash, fileVars
    <3> QED  BY <3>1, <3>2
  <2>3. pc' \in [Request -> Places] /\ crashes' \in Nat
    BY <2>1 DEF IntentCrash, Places, Ended
  <2> QED  BY <2>2, <2>3, NoProfilesType DEF IntentInv, IntentTypes, IntentCrash, fileVars
<1>2. CacheInv'
  BY IntentAssumption, EmptySeq DEF IntentCrash, CacheInv, Distinct, Matching
<1>3. Answered'
  BY DEF IntentCrash, Answered
<1>4. RatingsInv'
  <2>1. ASSUME NEW m \in Model, NEW table
        PROVE  Samples(m, table)' = Samples(m, table) /\ Samples(m, table) \in Nat
    <3>1. learned' = learned /\ learned \in [Model -> [Dim -> DimScores]]
      BY DEF IntentInv, IntentTypes, IntentCrash
    <3>2. Samples(m, table)' = Samples(m, table)
      BY <3>1 DEF Samples, Sampled
    <3> QED  BY <3>1, <3>2, SampledFinite, SamplesNow
  <2>2. halfway' = <<>> /\ crashes' = crashes + 1 /\ crashes \in Nat
    BY DEF IntentInv, IntentTypes, IntentCrash
  <2>3. ASSUME NEW m \in Model PROVE RatingsOf(m)'
    <3>1. RatingsOf(m)
      BY DEF IntentInv, RatingsInv
    <3> QED  BY <2>1, <2>2, <3>1 DEF RatingsOf, Left
  <2> QED  BY <2>2, <2>3 DEF RatingsInv
<1> QED  BY <1>1, <1>2, <1>3, <1>4 DEF IntentInv

LEMMA IntentStutter == ASSUME IntentInv, UNCHANGED intentVars PROVE IntentInv'
<1>1. IntentTypes'
  BY DEF IntentInv, IntentTypes, intentVars, fileVars, loaderVars, feedbackVars, requestVars
<1> QED  BY <1>1, ReloadFrame DEF IntentInv, intentVars, requestVars

LEMMA IntentStepInv == ASSUME IntentInv, [IntentNext]_intentVars PROVE IntentInv'
<1>1. ASSUME NEW r \in Request, Step(r) PROVE IntentInv'
  <2>1. ASSUME NEW j \in Intents, Answer(r, Said(j, message[r])) PROVE IntentInv'
    <3>1. message[r] \in Message
      BY DEF IntentInv, IntentTypes
    <3> QED  BY <2>1, <3>1, SaidType, AnswerStep
  <2>2. ASSUME Answer(r, NoIntent) PROVE IntentInv'
    BY <2>2, AnswerStep
  <2> QED  BY <1>1, <2>1, <2>2, ArriveStep, CheckStep, ReadStep, StatStep, EscapeStep,
              ScoreStep DEF Step
<1> QED  BY <1>1, BeginWriteStep, EndWriteStep, IntentTickStep, RateStep, CommitStep,
            IntentCrashStep, IntentStutter DEF IntentNext

\* Every step of requests, writers, callers and restarts keeps the invariant.
THEOREM IntentInvariance == IntentSpec => []IntentInv
<1>1. IntentInit => IntentInv
  BY IntentInitInv
<1>2. IntentInv /\ [IntentNext]_intentVars => IntentInv'
  BY IntentStepInv
<1> QED  BY <1>1, <1>2, PTL DEF IntentSpec

LEMMA TypesSuffice == ASSUME IntentInv PROVE IntentTypeOK
<1>1. Len(filling) <= 1
  <2>1. filling = <<>> \/ \E c \in Contents : filling = <<c>>
    BY DEF IntentInv, IntentTypes
  <2>2. CASE filling = <<>>
    BY <2>2
  <2>3. ASSUME NEW c \in Contents, filling = <<c>> PROVE Len(filling) <= 1
    BY <2>3
  <2> QED  BY <2>1, <2>2, <2>3
<1>2. ProfilesOK(learned)
  BY DEF IntentInv, IntentTypes, ProfilesOK, DimScores
<1>3. ASSUME NEW r \in Request PROVE intent[r].sure \in BOOLEAN
  <2>1. intent[r] \in Answers \/ intent[r] = NoIntent
    BY DEF IntentInv, IntentTypes
  <2>2. CASE intent[r] \in Answers
    BY <2>2 DEF Answers
  <2>3. CASE intent[r] = NoIntent
    BY <2>3 DEF NoIntent
  <2> QED  BY <2>1, <2>2, <2>3
<1> QED  BY <1>1, <1>2, <1>3 DEF IntentInv, IntentTypes, CacheInv, Distinct, IntentTypeOK

\* Every state is well typed, however long the messages, ratings and writes go on: the
\* cache stays within its limit, a score never leaves its scale.
THEOREM IntentTypeCorrect == IntentSpec => []IntentTypeOK
<1>1. IntentInv => IntentTypeOK
  BY TypesSuffice
<1> QED  BY <1>1, IntentInvariance, PTL

\* IBR-CLS-04: no request is scored for the answer to another message.
THEOREM AnsweredTheorem == IntentSpec => []IntentIsAnswered
<1>1. IntentInv => IntentIsAnswered
  BY DEF IntentInv, CacheInv, Answered, Matching, IntentIsAnswered
<1> QED  BY <1>1, IntentInvariance, PTL

LEMMA RatingsSuffice == ASSUME IntentInv PROVE RatingsAreWhole
<1>1. crashes \in Nat
  BY DEF IntentInv, IntentTypes
<1>2. ASSUME NEW m \in Model, NEW table PROVE Samples(m, table) \in Nat
  BY SampledFinite, SamplesNow DEF IntentInv, IntentTypes
<1>3. ASSUME NEW m \in Model
      PROVE  /\ Samples(m, "task") >= Samples(m, "domain")
             /\ Samples(m, "domain") >= Samples(m, "qs")
             /\ Samples(m, "task") <= Samples(m, "qs") + crashes
                                      + (IF halfway = <<>> THEN 0 ELSE 1)
  <2>1. RatingsOf(m)
    BY DEF IntentInv, RatingsInv
  <2> QED  BY <1>1, <1>2, <2>1 DEF RatingsOf, Left
<1> QED  BY <1>3 DEF RatingsAreWhole

\* A rating counts once in each table, but for the one in progress and one for every
\* restart.
THEOREM RatingsTheorem == IntentSpec => []RatingsAreWhole
<1>1. IntentInv => RatingsAreWhole
  BY RatingsSuffice
<1> QED  BY <1>1, IntentInvariance, PTL

-----------------------------------------------------------------------------
(* CandidateSelection.  First its lists: what is arranged, filtered and sorted *)
(* has everything it should have, once, in the right order.                    *)

\* Before puts all of T in a line.
InLine(T, Before) ==
    /\ IsFiniteSet(T)
    /\ \A i \in T : <<i, i>> \notin Before
    /\ \A i, j \in T : i = j \/ <<i, j>> \in Before \/ <<j, i>> \in Before
    /\ \A i, j, k \in T : <<i, j>> \in Before /\ <<j, k>> \in Before => <<i, k>> \in Before

\* Every element has a place of its own, and the places are 1, 2, ...
LEMMA PlacesInLine ==
    ASSUME NEW T, NEW Before, InLine(T, Before)
    PROVE  /\ Cardinality(T) \in Nat
           /\ \A k \in 1..Cardinality(T) : Nth(T, Before, k) \in T
           /\ \A i \in T : \E k \in 1..Cardinality(T) : Nth(T, Before, k) = i
           /\ \A k, l \in 1..Cardinality(T) :
                 k < l <=> <<Nth(T, Before, k), Nth(T, Before, l)>> \in Before
<1> DEFINE n == Cardinality(T)
           below(i) == {j \in T : <<j, i>> \in Before}
           place == [i \in T |-> Cardinality(below(i)) + 1]
<1>1. IsFiniteSet(T) /\ n \in Nat
  BY FS_CardinalityType DEF InLine
<1>2. ASSUME NEW i \in T
      PROVE  /\ IsFiniteSet(below(i)) /\ Cardinality(below(i)) \in Nat
             /\ place[i] = Cardinality(below(i)) + 1 /\ place[i] \in 1..n
  <2>1. below(i) \in SUBSET T /\ below(i) \subseteq T \ {i} /\ i \notin below(i)
    BY DEF InLine
  <2> HIDE DEF below
  <2>2. IsFiniteSet(below(i)) /\ Cardinality(below(i)) \in Nat
    BY <1>1, <2>1, FS_Subset, FS_CardinalityType
  <2>3. IsFiniteSet(T \ {i}) /\ Cardinality(T \ {i}) = n - 1
    BY <1>1, FS_RemoveElement
  <2>4. Cardinality(below(i)) <= n - 1
    BY <2>1, <2>3, FS_Subset
  <2>5. place[i] = Cardinality(below(i)) + 1
    OBVIOUS
  <2> QED  BY <1>1, <2>2, <2>4, <2>5
<1>3. ASSUME NEW i \in T, NEW j \in T, <<i, j>> \in Before
      PROVE  place[i] < place[j]
  <2>1. i \notin below(i) /\ i \in below(j) /\ below(i) \subseteq below(j)
    BY <1>3 DEF InLine
  <2> HIDE DEF below
  <2>2. /\ IsFiniteSet(below(i) \cup {i})
        /\ Cardinality(below(i) \cup {i}) = Cardinality(below(i)) + 1
    BY <1>2, <2>1, FS_AddElement
  <2>3. below(i) \cup {i} \in SUBSET below(j)
    BY <2>1
  <2>4. Cardinality(below(i)) + 1 <= Cardinality(below(j))
    BY <1>2, <2>2, <2>3, FS_Subset
  <2> HIDE DEF place
  <2> QED  BY <1>2, <2>4
<1> HIDE DEF place
<1>10. \A i \in T : place[i] \in Int
  <2> HIDE DEF n, below
  <2> QED  BY <1>1, <1>2
<1>4. \A i, j \in T : place[i] < place[j] <=> <<i, j>> \in Before
  <2> TAKE i, j \in T
  <2>1. place[i] \in Int /\ place[j] \in Int
    BY <1>10
  <2>2. CASE <<i, j>> \in Before
    BY <1>3, <2>2
  <2>3. CASE <<j, i>> \in Before
    BY <1>3, <2>1, <2>3 DEF InLine
  <2>4. CASE i = j
    BY <2>1, <2>4 DEF InLine
  <2> QED  BY <2>2, <2>3, <2>4 DEF InLine
<1>5. place \in Injection(T, 1..n)
  <2>1. place \in [T -> 1..n]
    BY <1>2 DEF place
  <2>2. \A i, j \in T : place[i] = place[j] => i = j
    <3> TAKE i, j \in T
    <3>1. place[i] \in Int /\ place[j] \in Int
      BY <1>10
    <3> QED  BY <3>1, <1>4 DEF InLine
  <2> QED  BY <2>1, <2>2 DEF Injection, IsInjective
<1>6. \A k \in 1..n : \E i \in T : place[i] = k
  <2>1. IsFiniteSet(1..n) /\ Cardinality(1..n) = n
    <3>1. 1 \in Int /\ n \in Int
      BY <1>1
    <3>2. /\ IsFiniteSet(1..n)
          /\ Cardinality(1..n) = IF 1 > n THEN 0 ELSE n - 1 + 1
      BY <3>1, FS_Interval
    <3> QED  BY <1>1, <3>2
  <2>2. place \in Surjection(T, 1..n)
    BY <1>5, <2>1, FS_Injection
  <2> QED  BY <2>2 DEF Surjection
<1>7. \A k \in 1..n : Nth(T, Before, k) \in T /\ place[Nth(T, Before, k)] = k
  <2> TAKE k \in 1..n
  <2>1. \E i \in T : Cardinality(below(i)) = k - 1
    <3>1. PICK i \in T : place[i] = k
      BY <1>6
    <3>2. Cardinality(below(i)) \in Nat /\ place[i] = Cardinality(below(i)) + 1
      BY <1>2
    <3> HIDE DEF below
    <3> QED  BY <3>1, <3>2, <1>1
  <2>2. Nth(T, Before, k) \in T /\ Cardinality(below(Nth(T, Before, k))) = k - 1
    BY <2>1 DEF Nth
  <2> HIDE DEF below
  <2> QED  BY <2>2, <1>2, <1>1
<1>8. \A i \in T : \E k \in 1..n : Nth(T, Before, k) = i
  BY <1>2, <1>5, <1>7 DEF Injection, IsInjective
<1>9. \A k, l \in 1..n : k < l <=> <<Nth(T, Before, k), Nth(T, Before, l)>> \in Before
  BY <1>4, <1>7
<1> QED  BY <1>1, <1>7, <1>8, <1>9

\* s is f of all of T, in that line.
LinedUp(s, f, T, Before) ==
    \E place \in [1..Cardinality(T) -> T] :
       /\ Cardinality(T) \in Nat
       /\ Len(s) = Cardinality(T) /\ DOMAIN s = 1..Cardinality(T)
       /\ \A k \in 1..Cardinality(T) : s[k] = f[place[k]]
       /\ \A i \in T : \E k \in 1..Cardinality(T) : place[k] = i
       /\ \A k, l \in 1..Cardinality(T) : k < l <=> <<place[k], place[l]>> \in Before

\* So an arranged list has everything once, in that order.
LEMMA ArrangedIs ==
    ASSUME NEW T, NEW Before, InLine(T, Before), NEW f, NEW X, \A i \in T : f[i] \in X
    PROVE  /\ Arranged(f, T, Before) \in Seq(X)
           /\ LinedUp(Arranged(f, T, Before), f, T, Before)
<1> DEFINE n == Cardinality(T)
           place == [k \in 1..n |-> Nth(T, Before, k)]
           s == Arranged(f, T, Before)
<1>1. /\ n \in Nat
      /\ \A k \in 1..n : Nth(T, Before, k) \in T
      /\ \A i \in T : \E k \in 1..n : Nth(T, Before, k) = i
      /\ \A k, l \in 1..n : k < l <=> <<Nth(T, Before, k), Nth(T, Before, l)>> \in Before
  BY PlacesInLine
<1>2. s = [k \in 1..n |-> f[Nth(T, Before, k)]]
  BY DEF Arranged
<1> HIDE DEF n, s
<1>3. s \in [1..n -> X]
  BY <1>1, <1>2
<1>4. s \in Seq(X) /\ Len(s) = n
  BY <1>1, <1>3
<1>5. place \in [1..n -> T] /\ \A k \in 1..n : place[k] = Nth(T, Before, k)
  BY <1>1
<1> HIDE DEF place
<1>6. /\ \A k \in 1..n : s[k] = f[place[k]]
      /\ \A i \in T : \E k \in 1..n : place[k] = i
      /\ \A k, l \in 1..n : k < l <=> <<place[k], place[l]>> \in Before
  BY <1>1, <1>2, <1>5
<1>7. DOMAIN s = 1..n
  BY <1>1, <1>3
<1>8. LinedUp(s, f, T, Before)
  BY <1>1, <1>4, <1>5, <1>6, <1>7 DEF LinedUp, n
<1> QED  BY <1>4, <1>8 DEF s

\* Filtering loses nothing else, repeats nothing and keeps the order.
LEMMA FilteredIs ==
    ASSUME NEW X, NEW list \in Seq(X), NEW S
    PROVE  /\ Filtered(list, S) \in Seq(X)
           /\ Range(Filtered(list, S)) = {x \in Range(list) : x \in S}
           /\ IsInjective(list) => IsInjective(Filtered(list, S))
           /\ \A k, l \in DOMAIN Filtered(list, S) : k < l =>
                 \E i, j \in DOMAIN list : /\ i < j /\ list[i] = Filtered(list, S)[k]
                                           /\ list[j] = Filtered(list, S)[l]
<1> DEFINE T == {i \in DOMAIN list : list[i] \in S}
           Before == {p \in T \X T : p[1] < p[2]}
           n == Cardinality(T)
           s == Filtered(list, S)
<1>1. DOMAIN list = 1..Len(list) /\ Len(list) \in Nat /\ \A i \in 1..Len(list) : list[i] \in X
  OBVIOUS
<1>2. (\A i \in T : i \in Int) /\ \A i, j \in T : <<i, j>> \in Before <=> i < j
  BY <1>1
<1>3. InLine(T, Before)
  <2>1. IsFiniteSet(1..Len(list))
    BY <1>1, FS_Interval
  <2>2. IsFiniteSet(T)
    BY <1>1, <2>1, FS_Subset
  <2> HIDE DEF T, Before
  <2>3. \A i \in T : <<i, i>> \notin Before
    BY <1>2
  <2>4. \A i, j \in T : i = j \/ <<i, j>> \in Before \/ <<j, i>> \in Before
    <3> TAKE i, j \in T
    <3>1. i \in Int /\ j \in Int
      BY <1>2
    <3>2. i = j \/ i < j \/ j < i
      BY <3>1
    <3> QED  BY <1>2, <3>2
  <2>5. \A i, j, k \in T :
           <<i, j>> \in Before /\ <<j, k>> \in Before => <<i, k>> \in Before
    BY <1>2
  <2> QED  BY <2>2, <2>3, <2>4, <2>5 DEF InLine
<1>4. s = Arranged(list, T, Before)
  BY DEF Filtered
<1>5. T \subseteq DOMAIN list /\ \A i \in DOMAIN list : i \in T <=> list[i] \in S
  OBVIOUS
<1> HIDE DEF T, Before, s
<1>6. \A i \in T : list[i] \in X
  BY <1>1, <1>5
<1>7. PICK place \in [1..n -> T] :
         /\ n \in Nat /\ s \in Seq(X) /\ DOMAIN s = 1..n
         /\ \A k \in 1..n : s[k] = list[place[k]]
         /\ \A i \in T : \E k \in 1..n : place[k] = i
         /\ \A k, l \in 1..n : k < l <=> <<place[k], place[l]>> \in Before
  <2>1. s \in Seq(X) /\ LinedUp(s, list, T, Before)
    BY <1>3, <1>4, <1>6, ArrangedIs
  <2> QED  BY <2>1 DEF LinedUp
<1> HIDE DEF n
<1>8. DOMAIN s = 1..n
  BY <1>7
<1>9. Range(s) = {x \in Range(list) : x \in S}
  <2>1. \A x \in Range(s) : x \in Range(list) /\ x \in S
    BY <1>5, <1>7, <1>8 DEF Range
  <2>2. \A x \in Range(list) : x \in S => x \in Range(s)
    BY <1>5, <1>7, <1>8 DEF Range
  <2> QED  BY <2>1, <2>2
<1>10. \A k, l \in 1..n : k < l => place[k] < place[l] /\ place[k] \in DOMAIN list /\ place[l] \in DOMAIN list
  BY <1>2, <1>5, <1>7
<1>11. \A k, l \in DOMAIN s : k < l =>
         \E i, j \in DOMAIN list : i < j /\ list[i] = s[k] /\ list[j] = s[l]
  BY <1>7, <1>8, <1>10
<1>12. ASSUME IsInjective(list) PROVE IsInjective(s)
  <2>1. ASSUME NEW k \in 1..n, NEW l \in 1..n, s[k] = s[l], k # l PROVE FALSE
    <3>1. place[k] = place[l] /\ place[k] \in T
      BY <1>5, <1>7, <1>12, <2>1 DEF IsInjective
    <3>2. <<place[k], place[l]>> \notin Before /\ <<place[l], place[k]>> \notin Before
      BY <1>2, <3>1
    <3>3. ~(k < l) /\ ~(l < k)
      BY <1>7, <3>2
    <3> QED  BY <1>7, <2>1, <3>3
  <2> QED  BY <1>8, <2>1 DEF IsInjective
<1> QED  BY <1>7, <1>9, <1>11, <1>12 DEF s

\* Sorting moves, and what is moved ahead of another has the higher key, or the same and
\* was ahead.
LEMMA SortedIs ==
    ASSUME NEW X, NEW list \in Seq(X), NEW key, \A x \in Range(list) : key[x] \in Int
    PROVE  /\ Sorted(list, key) \in Seq(X) /\ Len(Sorted(list, key)) = Len(list)
           /\ Range(Sorted(list, key)) = Range(list)
           /\ IsInjective(list) => IsInjective(Sorted(list, key))
           /\ \A k, l \in DOMAIN Sorted(list, key) : k < l =>
                 \E i, j \in DOMAIN list :
                    /\ list[i] = Sorted(list, key)[k] /\ list[j] = Sorted(list, key)[l]
                    /\ \/ key[list[i]] > key[list[j]]
                       \/ key[list[i]] = key[list[j]] /\ i < j
<1>0. PICK T, Before, s :
         T = DOMAIN list /\ Before = Sooner(list, key) /\ s = Sorted(list, key)
  OBVIOUS
<1> DEFINE n == Cardinality(T)
<1>1. /\ T = DOMAIN list /\ T = 1..Len(list) /\ Len(list) \in Nat
      /\ \A i \in 1..Len(list) : list[i] \in X
  BY <1>0
<1>2. \A i \in T : i \in Int /\ key[list[i]] \in Int
  BY <1>1 DEF Range
<1>3. \A i, j \in T : <<i, j>> \in Before <=>
         \/ key[list[i]] > key[list[j]]
         \/ key[list[i]] = key[list[j]] /\ i < j
  BY <1>0 DEF Sooner
<1>4. IsFiniteSet(T) /\ n = Len(list)
  <2>1. /\ IsFiniteSet(1..Len(list))
        /\ Cardinality(1..Len(list)) = IF 1 > Len(list) THEN 0 ELSE Len(list) - 1 + 1
    <3>1. 1 \in Int /\ Len(list) \in Int
      OBVIOUS
    <3> QED  BY <3>1, FS_Interval
  <2> QED  BY <1>1, <2>1
<1>5. InLine(T, Before)
  BY <1>2, <1>3, <1>4 DEF InLine
<1>6. s = Arranged(list, T, Before)
  BY <1>0 DEF Sorted
<1> HIDE DEF n
<1>7. PICK place \in [1..n -> T] :
         /\ n \in Nat /\ s \in Seq(X) /\ DOMAIN s = 1..n /\ Len(s) = n
         /\ \A k \in 1..n : s[k] = list[place[k]]
         /\ \A i \in T : \E k \in 1..n : place[k] = i
         /\ \A k, l \in 1..n : k < l <=> <<place[k], place[l]>> \in Before
  <2>1. \A i \in T : list[i] \in X
    BY <1>1
  <2>2. s \in Seq(X) /\ LinedUp(s, list, T, Before)
    BY <1>5, <1>6, <2>1, ArrangedIs
  <2> QED  BY <2>2 DEF LinedUp, n
<1>8. DOMAIN s = 1..n
  BY <1>7
<1>9. Range(s) = Range(list)
  <2>1. \A x \in Range(s) : x \in Range(list)
    BY <1>1, <1>7, <1>8 DEF Range
  <2>2. \A x \in Range(list) : x \in Range(s)
    <3> TAKE x \in Range(list)
    <3>1. PICK i \in T : list[i] = x
      BY <1>1 DEF Range
    <3>2. PICK k \in 1..n : place[k] = i
      BY <1>7
    <3> QED  BY <1>7, <1>8, <3>1, <3>2 DEF Range
  <2> QED  BY <2>1, <2>2
<1>10. \A k, l \in DOMAIN s : k < l =>
         \E i, j \in DOMAIN list :
            /\ list[i] = s[k] /\ list[j] = s[l]
            /\ \/ key[list[i]] > key[list[j]]
               \/ key[list[i]] = key[list[j]] /\ i < j
  BY <1>1, <1>3, <1>7, <1>8
<1>11. ASSUME IsInjective(list) PROVE IsInjective(s)
  <2>1. ASSUME NEW k \in 1..n, NEW l \in 1..n, s[k] = s[l], k # l PROVE FALSE
    <3>0. /\ place[k] \in DOMAIN list /\ place[l] \in DOMAIN list /\ place[k] \in T
          /\ list[place[k]] = list[place[l]]
      BY <1>1, <1>7, <2>1
    <3>1. place[k] = place[l] /\ place[k] \in T
      BY <1>11, <3>0 DEF IsInjective
    <3>2. <<place[k], place[l]>> \notin Before /\ <<place[l], place[k]>> \notin Before
      BY <1>2, <1>3, <3>1
    <3>3. ~(k < l) /\ ~(l < k)
      BY <1>7, <3>2
    <3> QED  BY <1>7, <2>1, <3>3
  <2> QED  BY <1>8, <2>1 DEF IsInjective
<1> QED  BY <1>0, <1>4, <1>7, <1>9, <1>10, <1>11

\* The type invariant, and that no outcome outlives its dispatch.
SelectionInv ==
    /\ SelectionTypeOK
    /\ phase = "idle" => outcome = NoOutcome

LEMMA MaxOfFour ==
    ASSUME NEW a \in Int, NEW b \in Int, NEW c \in Int, NEW d \in Int
    PROVE  /\ Max({a, b, c, d}) \in {a, b, c, d}
           /\ \A y \in {a, b, c, d} : Max({a, b, c, d}) >= y
<1>1. \E x \in {a, b, c, d} : \A y \in {a, b, c, d} : x >= y
  <2>1. CASE a >= b /\ a >= c /\ a >= d  BY <2>1
  <2>2. CASE b >= a /\ b >= c /\ b >= d  BY <2>2
  <2>3. CASE c >= a /\ c >= b /\ c >= d  BY <2>3
  <2>4. CASE d >= a /\ d >= b /\ d >= c  BY <2>4
  <2> QED  BY <2>1, <2>2, <2>3, <2>4
<1> QED  BY <1>1 DEF Max

LEMMA StakesType == ASSUME NEW o \in Orders PROVE Stakes(o) \in 0..2
<1> DEFINE a == IF StakesOf[o.category] = Unlisted THEN 1 ELSE StakesOf[o.category]
           b == IF o.tokens > 32000 THEN 2 ELSE IF o.tokens > 8000 THEN 1 ELSE 0
           c == IF o.tools = "required" THEN 1 ELSE 0
           d == IF o.trust >= 2 THEN 2 ELSE 0
<1>1. a \in 0..2 /\ b \in 0..2 /\ c \in 0..2 /\ d \in 0..2
  BY SelectionAssumption DEF Unlisted
<1>2. Stakes(o) = Max({a, b, c, d})
  BY DEF Stakes
<1> HIDE DEF a, b, c, d
<1>3. a \in Int /\ b \in Int /\ c \in Int /\ d \in Int
  BY <1>1
<1>4. Max({a, b, c, d}) \in {a, b, c, d}
  BY <1>3, MaxOfFour
<1> QED  BY <1>1, <1>2, <1>4

LEMMA StakesAreMonotone ==
    ASSUME NEW o \in Orders, NEW q \in Orders, AsksMore(o, q)
    PROVE  Stakes(o) >= Stakes(q)
<1> DEFINE a(x) == IF StakesOf[x.category] = Unlisted THEN 1 ELSE StakesOf[x.category]
           b(x) == IF x.tokens > 32000 THEN 2 ELSE IF x.tokens > 8000 THEN 1 ELSE 0
           c(x) == IF x.tools = "required" THEN 1 ELSE 0
           d(x) == IF x.trust >= 2 THEN 2 ELSE 0
<1>1. \A x \in {o, q} : a(x) \in 0..2 /\ b(x) \in 0..2 /\ c(x) \in 0..2 /\ d(x) \in 0..2
  BY SelectionAssumption DEF Unlisted
<1>2. a(o) = a(q) /\ b(o) >= b(q) /\ c(o) >= c(q) /\ d(o) >= d(q)
  BY SelectionAssumption DEF AsksMore
<1>3. \A x \in {o, q} : Stakes(x) = Max({a(x), b(x), c(x), d(x)})
  BY DEF Stakes
<1> HIDE DEF a, b, c, d
<1>4. ASSUME NEW x \in {o, q}
      PROVE  /\ Stakes(x) \in {a(x), b(x), c(x), d(x)}
             /\ \A y \in {a(x), b(x), c(x), d(x)} : Stakes(x) >= y
  <2>1. a(x) \in Int /\ b(x) \in Int /\ c(x) \in Int /\ d(x) \in Int
    BY <1>1
  <2>2. /\ Max({a(x), b(x), c(x), d(x)}) \in {a(x), b(x), c(x), d(x)}
        /\ \A y \in {a(x), b(x), c(x), d(x)} : Max({a(x), b(x), c(x), d(x)}) >= y
    BY <2>1, MaxOfFour
  <2>3. Stakes(x) = Max({a(x), b(x), c(x), d(x)})
    BY <1>3
  <2> QED  BY <2>2, <2>3
<1> QED  BY <1>1, <1>2, <1>4

\* The higher the stakes, the more the match weighs.
LEMMA MatchOfStakes ==
    /\ \A s \in 0..2 : StakesWeights[s].match \in Nat
    /\ \A s, t \in 0..2 : s >= t => StakesWeights[s].match >= StakesWeights[t].match
<1>1. /\ StakesWeights[0].match = 10 /\ StakesWeights[1].match = 20
      /\ StakesWeights[2].match = 25
  BY DEF StakesWeights, Weights
<1>2. 0..2 = {0, 1, 2}
  OBVIOUS
<1> QED  BY <1>1, <1>2

\* Whoever asks for more gets no less.
LEMMA EscalationHolds ==
    ASSUME NEW o \in Orders, NEW q \in Orders, AsksMore(o, q)
    PROVE  /\ RequestedTier(o) >= RequestedTier(q)
           /\ WeightsFor(o).match >= WeightsFor(q).match
<1>1. RequestedTier(o) >= RequestedTier(q)
  <2> DEFINE estimate(x) == IF x.tokens > 8192 THEN 3
                            ELSE IF x.tools = "required" THEN 2
                            ELSE IF x.long \/ x.tokens > 4096 THEN 1 ELSE Local
             floor(x) == FloorOf[x.category]
  <2>1. /\ estimate(o) \in Nat /\ estimate(q) \in Nat /\ floor(o) = floor(q)
        /\ floor(q) \in Nat /\ estimate(o) >= estimate(q)
    BY SelectionAssumption DEF AsksMore, Local
  <2>2. \A x \in {o, q} : RequestedTier(x) = Max({estimate(x), floor(x)})
    BY DEF RequestedTier
  <2> HIDE DEF estimate, floor
  <2>3. \A x \in {o, q} : RequestedTier(x) = IF estimate(x) >= floor(x) THEN estimate(x)
                                             ELSE floor(x)
    BY <2>1, <2>2, MaxOfTwo
  <2> QED  BY <2>1, <2>3
<1>2. WeightsFor(o).match >= WeightsFor(q).match
  <2> DEFINE listed == StakesOf[q.category]
  <2>1. Stakes(o) \in 0..2 /\ Stakes(q) \in 0..2 /\ Stakes(o) >= Stakes(q)
    BY StakesType, StakesAreMonotone
  <2>2. o.category = q.category /\ listed \in (0..2) \cup {Unlisted}
    BY SelectionAssumption DEF AsksMore
  <2> QED  BY <2>1, <2>2, MatchOfStakes DEF WeightsFor, Unlisted
<1> QED  BY <1>1, <1>2

-----------------------------------------------------------------------------
(* Scores: what the two sorts of a dispatch compare. *)

\* Any weights at all, as long as every dimension counts.
Weight == Nat \ {0}
Weightings == [cost : Weight, latency : Weight, priority : Weight, queue : Weight,
               health : Weight, match : Weight]

LEMMA QuotientType == \A a \in Nat, n \in Nat \ {0} : a \div n \in Nat
  OBVIOUS

LEMMA TimesGrows ==
    ASSUME NEW x \in Nat, NEW y \in Nat, NEW w \in Nat, x >= y
    PROVE  x * w >= y * w /\ x * w \in Nat /\ y * w \in Nat
<1>1. ASSUME NEW z \in Nat PROVE z * w \in Nat
  OBVIOUS
<1>2. (x - y) * w \in Nat /\ x * w \in Nat /\ y * w \in Nat
  <2>1. x - y \in Nat
    OBVIOUS
  <2> QED  BY <1>1, <2>1
<1>3. x * w = y * w + (x - y) * w
  OBVIOUS
<1> QED  BY <1>2, <1>3

LEMMA QuotientFalls ==
    ASSUME NEW a \in Nat, NEW n \in Nat \ {0}, NEW k \in Nat, n <= k
    PROVE  a \div k <= a \div n
<1> DEFINE p == a \div n
           q == a \div k
<1>1. p \in Nat /\ q \in Nat
  BY QuotientType
<1>2. a < p * n + n /\ a >= q * k
  OBVIOUS
<1> HIDE DEF p, q
<1>3. ASSUME q > p PROVE FALSE
  <2>1. k * q >= n * q
    BY <1>1, TimesGrows
  <2>2. q * n >= (p + 1) * n
    <3>1. q \in Nat /\ p + 1 \in Nat /\ q >= p + 1
      BY <1>1, <1>3
    <3> QED  BY <3>1, TimesGrows
  <2>3. (p + 1) * n = p * n + n /\ k * q = q * k /\ n * q = q * n
    BY <1>1
  <2> DEFINE kq == q * k
             nq == q * n
             np == p * n
  <2>4. kq \in Int /\ nq \in Int /\ np \in Int
    BY <1>1
  <2>5. kq >= nq /\ nq >= np + n /\ a < np + n /\ a >= kq
    BY <1>2, <2>1, <2>2, <2>3
  <2> HIDE DEF kq, nq, np
  <2> QED  BY <2>4, <2>5
<1>4. q <= p
  BY <1>1, <1>3
<1> QED  BY <1>4 DEF p, q

LEMMA TimesGrowsStrictly ==
    ASSUME NEW x \in Nat, NEW y \in Nat, NEW w \in Nat \ {0}, x > y
    PROVE  x * w > y * w
<1>1. x >= y + 1 /\ y + 1 \in Nat /\ w \in Nat
  OBVIOUS
<1>2. x * w >= (y + 1) * w
  BY <1>1, TimesGrows
<1>3. (y + 1) * w = y * w + w
  OBVIOUS
<1> DEFINE a == x * w
           b == y * w
<1>4. a \in Int /\ b \in Int
  OBVIOUS
<1>5. a >= b + w
  BY <1>2, <1>3
<1> HIDE DEF a, b
<1>6. a > b
  BY <1>4, <1>5
<1> QED  BY <1>6 DEF a, b

LEMMA CostsType ==
    /\ \A b \in Backend : Cost[b] \in Nat /\ Priority[b] \in Nat
    /\ \A b, c \in Backend : Cost[b] < Cost[c] => CostScore(b) > CostScore(c)
    /\ \A m \in Matches, b \in Backend : m[b] \in Nat
<1>1. /\ \A b \in Backend : Tier[b] \in 0..3 /\ Priority[b] \in 0..100 /\ Cost[b] \in Nat
      /\ \A b, c \in Backend :
            Cost[b] < Cost[c] => 100 \div (Cost[b] + 1) > 100 \div (Cost[c] + 1)
      /\ \A m \in Matches : m \in [Backend -> 0..100]
  BY SelectionAssumption
<1>2. \A m \in Matches, b \in Backend : m[b] \in Nat
  BY <1>1
<1> QED  BY <1>1, <1>2 DEF CostScore

LEMMA ScoreTypes ==
    ASSUME SelectionInv, NEW b \in Backend
    PROVE  /\ CostScore(b) \in Nat /\ HealthAsked(b) \in Nat /\ Priority[b] \in Nat
           /\ BudgetScore(ProviderOf[b]) \in Nat
<1> DEFINE p == ProviderOf[b]
<1>0. Priority[b] \in 0..100 /\ Cost[b] \in Nat /\ p \in Providers /\ Limit[p] \in Nat
  <2>1. p \in Providers  BY DEF Providers
  <2> HIDE DEF p
  <2>2. Limit[p] \in Nat  BY <2>1, SelectionAssumption
  <2>3. Priority[b] \in 0..100 /\ Cost[b] \in Nat  BY SelectionAssumption
  <2> QED  BY <2>1, <2>2, <2>3
<1>1. CostScore(b) \in Nat
  <2>1. Cost[b] \in Nat /\ Cost[b] + 1 \in Nat \ {0}
    BY <1>0
  <2> QED  BY <2>1, QuotientType DEF CostScore
<1>2. HealthAsked(b) \in Nat
  BY DEF HealthAsked, HealthScore
<1>3. BudgetScore(p) \in Nat
  <2>1. used[p] \in Nat
    BY <1>0 DEF SelectionInv, SelectionTypeOK
  <2> HIDE DEF p
  <2>2. Max({0, Limit[p] - used[p]}) \in Nat
    BY <1>0, <2>1, MaxOfTwo
  <2>3. 100 * Max({0, Limit[p] - used[p]}) \in Nat
    BY <2>2
  <2> QED  BY <1>0, <2>3, QuotientType DEF BudgetScore
<1> QED  BY <1>0, <1>1, <1>2, <1>3

\* Half a composite; what is halved for the degraded is exact.
Half(b, w, m) ==
    CostScore(b) * w.cost + HealthAsked(b) * (w.latency + w.health)
    + Priority[b] * w.priority + BudgetScore(ProviderOf[b]) * w.queue + m * w.match

Outdoes(c, b, m) ==
    \/ CostScore(c) > CostScore(b) \/ HealthAsked(c) > HealthAsked(b)
    \/ Priority[c] > Priority[b] \/ BudgetScore(ProviderOf[c]) > BudgetScore(ProviderOf[b])
    \/ m[c] > m[b]

\* For any weights, who is no worse in anything scores no less, and more who is better in
\* something; with budget left, nobody scores nothing.
LEMMA HalfGrows ==
    ASSUME SelectionInv, NEW b \in Backend, NEW c \in Backend, NEW m \in Matches,
           NoWorse(c, b, m), NEW w \in Weightings
    PROVE  /\ Half(c, w, m[c]) \in Nat /\ Half(b, w, m[b]) \in Nat
           /\ Half(c, w, m[c]) >= Half(b, w, m[b])
           /\ Outdoes(c, b, m) => Half(c, w, m[c]) > Half(b, w, m[b])
           /\ BudgetScore(ProviderOf[b]) > 0 => Half(b, w, m[b]) > 0
<1> DEFINE T(x) == CostScore(x)
           H(x) == HealthAsked(x)
           Q(x) == BudgetScore(ProviderOf[x])
           hl == w.latency + w.health
<1>1. \A x \in {b, c} : /\ T(x) \in Nat /\ H(x) \in Nat /\ Priority[x] \in Nat
                        /\ Q(x) \in Nat /\ m[x] \in Nat
  BY ScoreTypes, CostsType
<1>2. /\ T(c) >= T(b) /\ H(c) >= H(b) /\ Priority[c] >= Priority[b]
      /\ Q(c) >= Q(b) /\ m[c] >= m[b]
  <2>1. T(c) >= T(b)
    <3>1. /\ Cost[b] + 1 \in Nat \ {0} /\ Cost[c] + 1 \in Nat \ {0}
          /\ Cost[c] + 1 <= Cost[b] + 1
      BY CostsType DEF NoWorse
    <3>2. 100 \div (Cost[b] + 1) <= 100 \div (Cost[c] + 1)
      BY <3>1, QuotientFalls
    <3> QED  BY <1>1, <3>2 DEF CostScore
  <2> QED  BY <2>1 DEF NoWorse
<1>3. /\ w.cost \in Weight /\ hl \in Weight /\ w.priority \in Weight /\ w.queue \in Weight
      /\ w.match \in Weight
  BY DEF Weightings, Weight
<1>4. \A x \in {b, c} :
         Half(x, w, m[x]) = T(x) * w.cost + H(x) * hl + Priority[x] * w.priority
                            + Q(x) * w.queue + m[x] * w.match
  BY DEF Half
<1>5. Outdoes(c, b, m) => \/ T(c) > T(b) \/ H(c) > H(b) \/ Priority[c] > Priority[b]
                          \/ Q(c) > Q(b) \/ m[c] > m[b]
  BY DEF Outdoes
<1> DEFINE grows(x, y, z) == /\ x * z \in Nat /\ y * z \in Nat /\ x * z >= y * z
                             /\ x > y => x * z > y * z
<1>6. \A x, y \in Nat, z \in Weight : x >= y => grows(x, y, z)
  BY TimesGrows, TimesGrowsStrictly DEF Weight
<1>7. Q(b) > 0 => Q(b) * w.queue > 0
  <2>1. ASSUME Q(b) > 0 PROVE Q(b) * w.queue > 0 * w.queue
    BY <1>1, <1>3, <2>1, TimesGrowsStrictly DEF Weight
  <2>2. 0 * w.queue = 0
    BY <1>3 DEF Weight
  <2> QED  BY <2>1, <2>2
<1> HIDE DEF T, H, Q, hl
<1>8. /\ grows(T(c), T(b), w.cost) /\ grows(H(c), H(b), hl)
      /\ grows(Priority[c], Priority[b], w.priority) /\ grows(Q(c), Q(b), w.queue)
      /\ grows(m[c], m[b], w.match)
  <2> HIDE DEF grows
  <2> QED  BY <1>1, <1>2, <1>3, <1>6
<1> DEFINE t(x) == T(x) * w.cost
           h(x) == H(x) * hl
           p(x) == Priority[x] * w.priority
           q(x) == Q(x) * w.queue
           n(x) == m[x] * w.match
<1>9. \A x \in {b, c} : /\ Half(x, w, m[x]) = t(x) + h(x) + p(x) + q(x) + n(x)
                        /\ t(x) \in Nat /\ h(x) \in Nat /\ p(x) \in Nat /\ q(x) \in Nat
                        /\ n(x) \in Nat
  BY <1>4, <1>8
<1>10. t(c) >= t(b) /\ h(c) >= h(b) /\ p(c) >= p(b) /\ q(c) >= q(b) /\ n(c) >= n(b)
  BY <1>8
<1>11. Outdoes(c, b, m) => \/ t(c) > t(b) \/ h(c) > h(b) \/ p(c) > p(b)
                           \/ q(c) > q(b) \/ n(c) > n(b)
  BY <1>5, <1>8
<1>12. Q(b) > 0 => q(b) > 0
  BY <1>7
<1> HIDE DEF t, h, p, q, n
<1>13. Q(b) = BudgetScore(ProviderOf[b])
  BY DEF Q
<1> QED  BY <1>9, <1>10, <1>11, <1>12, <1>13

\* The weights of an order, whatever its stakes and whatever has been spent.
LEMMA WeightingType == ASSUME NEW o \in Orders PROVE Governed(WeightsFor(o)) \in Weightings
<1>1. \A s \in 0..2 : StakesWeights[s] \in Weightings
  <2>1. /\ StakesWeights[0] \in Weightings /\ StakesWeights[1] \in Weightings
        /\ StakesWeights[2] \in Weightings
    BY DEF StakesWeights, Weights, Weightings, Weight
  <2>2. 0..2 = {0, 1, 2}
    OBVIOUS
  <2> QED  BY <2>1, <2>2
<1>2. WeightsFor(o) \in Weightings
  <2>1. StakesOf[o.category] \in (0..2) \cup {Unlisted}
    BY SelectionAssumption
  <2> QED  BY <1>1, <2>1, StakesType DEF WeightsFor
<1> QED  BY <1>2 DEF Governed, Weights, Weightings, Weight

\* What a candidate is sorted by at last, once the degraded have their penalty.
Weighed(b, o, m) == Penalised(b, Composite(b, Governed(WeightsFor(o)), m[b]))

LEMMA BetterWeighsMore ==
    ASSUME SelectionInv, NEW b \in Backend, NEW c \in Backend, NEW m \in Matches,
           NEW o \in Orders
    PROVE  /\ Weighed(b, o, m) \in Nat
           /\ Better(c, b, m) /\ BudgetScore(ProviderOf[b]) > 0
              => Weighed(c, o, m) > Weighed(b, o, m)
<1>1. PICK w \in Weightings : w = Governed(WeightsFor(o))
  BY WeightingType
<1> DEFINE hb == Half(b, w, m[b])
           hc == Half(c, w, m[c])
<1>2. hb \in Nat /\ hc \in Nat
  <2>1. \A x \in Backend : NoWorse(x, x, m)
    <3>1. \A x \in Backend : /\ Cost[x] \in Int /\ Priority[x] \in Int /\ m[x] \in Int
                             /\ HealthAsked(x) \in Int /\ BudgetScore(ProviderOf[x]) \in Int
      BY ScoreTypes, CostsType
    <3> QED  BY <3>1 DEF NoWorse
  <2> QED  BY <2>1, HalfGrows
<1>3. /\ Weighed(b, o, m) = Penalised(b, 2 * hb)
      /\ Weighed(c, o, m) = Penalised(c, 2 * hc)
  BY <1>1 DEF Weighed, Composite, Half
<1>4. ASSUME Better(c, b, m), BudgetScore(ProviderOf[b]) > 0
      PROVE  /\ status[c] = "degraded" => status[b] = "degraded"
             /\ hc >= hb /\ hb > 0
             /\ hc > hb \/ (status[c] # "degraded" /\ status[b] = "degraded")
  <2>1. NoWorse(c, b, m) /\ ~NoWorse(b, c, m)
    BY <1>4 DEF Better
  <2>2. hc >= hb /\ hb > 0 /\ (Outdoes(c, b, m) => hc > hb)
    BY <1>4, <2>1, HalfGrows
  <2>3. Outdoes(c, b, m) \/ (status[c] # "degraded" /\ status[b] = "degraded")
    <3>1. \A x \in {b, c} : /\ Cost[x] \in Int /\ Priority[x] \in Int /\ m[x] \in Int
                            /\ HealthAsked(x) \in Int /\ BudgetScore(ProviderOf[x]) \in Int
      BY ScoreTypes, CostsType
    <3>2. Cost[c] < Cost[b] => CostScore(c) > CostScore(b)
      BY CostsType
    <3> QED  BY <2>1, <3>1, <3>2 DEF NoWorse, Outdoes
  <2> QED  BY <2>1, <2>2, <2>3 DEF NoWorse
<1> HIDE DEF hb, hc
<1>5. \A x \in Nat : (2 * x) \div 2 = x
  OBVIOUS
<1>6. Penalised(b, 2 * hb) = IF status[b] = "degraded" THEN hb ELSE 2 * hb
  BY <1>2, <1>5 DEF Penalised
<1>7. Penalised(c, 2 * hc) = IF status[c] = "degraded" THEN hc ELSE 2 * hc
  BY <1>2, <1>5 DEF Penalised
<1>8. Weighed(b, o, m) \in Nat
  BY <1>2, <1>3, <1>6
<1>9. ASSUME Better(c, b, m), BudgetScore(ProviderOf[b]) > 0
      PROVE  Weighed(c, o, m) > Weighed(b, o, m)
  BY <1>2, <1>3, <1>4, <1>6, <1>7, <1>9
<1> QED  BY <1>8, <1>9

-----------------------------------------------------------------------------
(* The stages *)

\* Not everyone is below the median.
LEMMA MedianIs ==
    ASSUME NEW f \in Seq(Nat), f # <<>>
    PROVE  Median2(f) \in Int /\ \E i \in DOMAIN f : 2 * f[i] >= Median2(f)
<1> DEFINE n == Len(f)
           key == [v \in Range(f) |-> v]
           lined == Sorted(f, key)
<1>1. n \in Nat \ {0} /\ DOMAIN f = 1..n /\ \A i \in 1..n : f[i] \in Nat
  OBVIOUS
<1>2. \A x \in Range(f) : key[x] = x /\ x \in Nat
  BY <1>1 DEF Range
<1> HIDE DEF key
<1>3. /\ lined \in Seq(Nat) /\ Len(lined) = n /\ Range(lined) = Range(f)
      /\ \A k, l \in DOMAIN lined : k < l =>
            \E i, j \in DOMAIN f :
               /\ f[i] = lined[k] /\ f[j] = lined[l]
               /\ \/ key[f[i]] > key[f[j]]
                  \/ key[f[i]] = key[f[j]] /\ i < j
  BY <1>2, SortedIs
<1>4. Median2(f) = IF n % 2 = 1 THEN 2 * lined[(n + 1) \div 2]
                   ELSE lined[n \div 2] + lined[n \div 2 + 1]
  BY DEF Median2, key
<1> HIDE DEF lined, n
<1>5. DOMAIN lined = 1..n /\ \A k \in 1..n : lined[k] \in Nat /\ lined[k] \in Range(f)
  BY <1>1, <1>3 DEF Range
<1>6. \A l \in 1..n : lined[1] >= lined[l]
  <2> TAKE l \in 1..n
  <2>1. CASE l = 1
    BY <1>1, <1>5, <2>1
  <2>2. CASE l # 1
    <3>1. 1 < l /\ 1 \in 1..n
      BY <1>1, <2>2
    <3>2. PICK i \in DOMAIN f, j \in DOMAIN f :
             /\ f[i] = lined[1] /\ f[j] = lined[l]
             /\ key[f[i]] > key[f[j]] \/ key[f[i]] = key[f[j]]
      BY <1>3, <1>5, <3>1
    <3>3. key[f[i]] = lined[1] /\ key[f[j]] = lined[l]
      BY <1>2, <1>5, <3>1, <3>2
    <3>4. lined[1] \in Nat /\ lined[l] \in Nat
      BY <1>5, <3>1
    <3> QED  BY <3>2, <3>3, <3>4
  <2> QED  BY <2>1, <2>2
<1>7. Median2(f) \in Int /\ 2 * lined[1] >= Median2(f)
  <2>0. lined[1] \in Nat
    BY <1>1, <1>5
  <2>1. CASE n % 2 = 1
    <3>1. (n + 1) \div 2 \in 1..n
      BY <1>1
    <3> DEFINE mid == lined[(n + 1) \div 2]
    <3>2. mid \in Nat /\ lined[1] >= mid /\ Median2(f) = 2 * mid
      BY <1>4, <1>5, <1>6, <2>1, <3>1
    <3> HIDE DEF mid
    <3> QED  BY <2>0, <3>2
  <2>2. CASE n % 2 # 1
    <3>1. n \div 2 \in 1..n /\ n \div 2 + 1 \in 1..n
      BY <1>1, <2>2
    <3> DEFINE low == lined[n \div 2]
               high == lined[n \div 2 + 1]
    <3>2. /\ low \in Nat /\ high \in Nat /\ lined[1] >= low /\ lined[1] >= high
          /\ Median2(f) = low + high
      BY <1>4, <1>5, <1>6, <2>2, <3>1
    <3> HIDE DEF low, high
    <3> QED  BY <2>0, <3>2
  <2> QED  BY <2>1, <2>2
<1>8. PICK i \in DOMAIN f : f[i] = lined[1]
  BY <1>1, <1>5 DEF Range
<1> QED  BY <1>7, <1>8

LEMMA RequestedTierType == ASSUME NEW o \in Orders PROVE RequestedTier(o) \in 0..3
<1> DEFINE estimate == IF o.tokens > 8192 THEN 3
                       ELSE IF o.tools = "required" THEN 2
                       ELSE IF o.long \/ o.tokens > 4096 THEN 1 ELSE Local
           floor == FloorOf[o.category]
<1>1. estimate \in 0..3 /\ floor \in 0..3 /\ RequestedTier(o) = Max({estimate, floor})
  BY SelectionAssumption DEF Local, RequestedTier
<1> HIDE DEF estimate, floor
<1>2. Max({estimate, floor}) = IF estimate >= floor THEN estimate ELSE floor
  BY <1>1, MaxOfTwo
<1> QED  BY <1>1, <1>2

\* The first stage finds every backend of the tier asked for or above that can do it and
\* is healthy, each once.
LEMMA MbrIs ==
    ASSUME NEW o \in Orders
    PROVE  /\ MbrStage(o) \in Seq(Backend) /\ IsInjective(MbrStage(o))
           /\ Range(MbrStage(o)) =
                 {b \in Backend : Tier[b] >= RequestedTier(o) /\ Capable(b, o) /\ Healthy(b)}
<1> DEFINE able(b) == Capable(b, o) /\ Healthy(b)
<1>1. PICK tier \in 0..3 : tier = RequestedTier(o)
  BY RequestedTierType
<1>2. PICK tiers : tiers = TiersToTry(tier)
  OBVIOUS
<1>3. DOMAIN tiers = 1..(4 - tier) /\ \A i \in 1..(4 - tier) : tiers[i] = tier + i - 1
  BY <1>2 DEF TiersToTry
<1>4. /\ Backends \in Seq(Backend) /\ IsInjective(Backends)
      /\ \A b \in Backend : Tier[b] \in 0..3
  BY SelectionAssumption
<1>5. /\ DOMAIN Backends = 1..Len(Backends) /\ Len(Backends) \in Nat
      /\ \A k \in DOMAIN Backends : Backends[k] \in Backend
      /\ \A b \in Backend : \E k \in DOMAIN Backends : Backends[k] = b
  BY <1>4 DEF Backend, Range
<1>6. PICK found : found = {p \in (DOMAIN tiers) \X (DOMAIN Backends) :
                               Tier[Backends[p[2]]] = tiers[p[1]] /\ able(Backends[p[2]])}
  OBVIOUS
<1>7. PICK Before : Before = {q \in found \X found :
                                 \/ q[1][1] < q[2][1]
                                 \/ q[1][1] = q[2][1] /\ q[1][2] < q[2][2]}
  OBVIOUS
<1>8. PICK f : f = [p \in found |-> Backends[p[2]]]
  OBVIOUS
<1>9. MbrStage(o) = Arranged(f, found, Before)
  BY <1>1, <1>2, <1>6, <1>7, <1>8 DEF MbrStage
<1>10. \A p \in found : /\ p[1] \in 1..(4 - tier) /\ p[2] \in 1..Len(Backends)
                        /\ p = <<p[1], p[2]>> /\ f[p] = Backends[p[2]]
                        /\ Tier[f[p]] = tiers[p[1]] /\ able(f[p]) /\ f[p] \in Backend
  BY <1>3, <1>5, <1>6, <1>8
<1>11. InLine(found, Before)
  <2>1. IsFiniteSet(found)
    <3>1. IsFiniteSet(1..(4 - tier)) /\ IsFiniteSet(1..Len(Backends))
      BY <1>5, FS_Interval
    <3>2. IsFiniteSet((DOMAIN tiers) \X (DOMAIN Backends))
      BY <1>3, <1>5, <3>1, FS_Product
    <3> QED  BY <1>6, <3>2, FS_Subset
  <2>2. \A p \in found : p[1] \in Int /\ p[2] \in Int /\ p = <<p[1], p[2]>>
    BY <1>10
  <2>3. \A p, q \in found : <<p, q>> \in Before <=>
           \/ p[1] < q[1]
           \/ p[1] = q[1] /\ p[2] < q[2]
    BY <1>7
  <2>4. \A p \in found : <<p, p>> \notin Before
    BY <2>2, <2>3
  <2>5. \A p, q \in found : p = q \/ <<p, q>> \in Before \/ <<q, p>> \in Before
    <3> TAKE p, q \in found
    <3>1. /\ p[1] \in Int /\ p[2] \in Int /\ q[1] \in Int /\ q[2] \in Int
          /\ p[1] = q[1] /\ p[2] = q[2] => p = q
      BY <2>2
    <3>2. p = q \/ p[1] < q[1] \/ q[1] < p[1]
          \/ (p[1] = q[1] /\ (p[2] < q[2] \/ q[2] < p[2]))
      BY <3>1
    <3> QED  BY <2>3, <3>2
  <2>6. \A p, q, r \in found :
           <<p, q>> \in Before /\ <<q, r>> \in Before => <<p, r>> \in Before
    <3> TAKE p, q, r \in found
    <3>1. /\ p[1] \in Int /\ p[2] \in Int /\ q[1] \in Int /\ q[2] \in Int
          /\ r[1] \in Int /\ r[2] \in Int
      BY <2>2
    <3> QED  BY <2>3, <3>1
  <2> QED  BY <2>1, <2>4, <2>5, <2>6 DEF InLine
<1>12. PICK s : s = MbrStage(o)
  OBVIOUS
<1>13. s \in Seq(Backend) /\ LinedUp(s, f, found, Before)
  <2>1. \A p \in found : f[p] \in Backend
    BY <1>10
  <2> QED  BY <1>9, <1>11, <1>12, <2>1, ArrangedIs
<1>14. PICK n : n = Cardinality(found)
  OBVIOUS
<1>15. PICK place \in [1..n -> found] :
          /\ n \in Nat /\ s \in Seq(Backend) /\ DOMAIN s = 1..n
          /\ \A k \in 1..n : s[k] = f[place[k]] /\ place[k] \in found
          /\ \A i \in found : \E k \in 1..n : place[k] = i
          /\ \A k, l \in 1..n : k < l <=> <<place[k], place[l]>> \in Before
  BY <1>13, <1>14 DEF LinedUp
<1>16. IsInjective(s)
  <2> SUFFICES ASSUME NEW k \in 1..n, NEW l \in 1..n, s[k] = s[l], k # l PROVE FALSE
    BY <1>15 DEF IsInjective
  <2> DEFINE p == place[k]
             q == place[l]
  <2>1. p \in found /\ q \in found /\ f[p] = f[q]
    BY <1>15
  <2> HIDE DEF p, q
  <2>2. p[2] = q[2]
    BY <1>4, <1>5, <1>10, <2>1 DEF IsInjective
  <2>3. p[1] = q[1]
    <3>1. p[1] \in 1..(4 - tier) /\ q[1] \in 1..(4 - tier) /\ tiers[p[1]] = tiers[q[1]]
      BY <1>10, <2>1
    <3>2. tier + p[1] - 1 = tier + q[1] - 1
      BY <1>3, <3>1
    <3> QED  BY <3>1, <3>2
  <2>4. p = q
    BY <1>10, <2>1, <2>2, <2>3
  <2>5. <<p, q>> \notin Before /\ <<q, p>> \notin Before
    BY <1>11, <2>1, <2>4 DEF InLine
  <2>6. ~(k < l) /\ ~(l < k)
    BY <1>15, <2>5 DEF p, q
  <2> QED  BY <2>6
<1>17. Range(s) = {b \in Backend : Tier[b] >= tier /\ able(b)}
  <2>1. ASSUME NEW b \in Range(s) PROVE b \in Backend /\ Tier[b] >= tier /\ able(b)
    <3>1. PICK k \in 1..n : s[k] = b
      BY <1>15 DEF Range
    <3>2. PICK p \in found : f[p] = b
      BY <1>15, <3>1
    <3>3. Tier[b] = tier + p[1] - 1 /\ p[1] \in 1..(4 - tier)
      BY <1>3, <1>10, <3>2
    <3> QED  BY <1>10, <3>2, <3>3
  <2>2. ASSUME NEW b \in Backend, Tier[b] >= tier, able(b) PROVE b \in Range(s)
    <3>1. PICK k \in DOMAIN Backends : Backends[k] = b
      BY <1>5
    <3>2. PICK i \in 1..(4 - tier) : tier + i - 1 = Tier[b]
      <4>1. Tier[b] \in 0..3 /\ Tier[b] >= tier
        BY <1>4, <2>2
      <4>2. Tier[b] - tier + 1 \in 1..(4 - tier) /\ tier + (Tier[b] - tier + 1) - 1 = Tier[b]
        BY <4>1
      <4> QED  BY <4>2
    <3>3. <<i, k>> \in found /\ f[<<i, k>>] = b
      BY <1>3, <1>6, <1>8, <2>2, <3>1, <3>2
    <3>4. PICK l \in 1..n : place[l] = <<i, k>>
      BY <1>15, <3>3
    <3> QED  BY <1>15, <3>3, <3>4 DEF Range
  <2> QED  BY <2>1, <2>2
<1> QED  BY <1>1, <1>12, <1>15, <1>16, <1>17

\* The second stage keeps who has budget left, and puts nobody ahead of a better one.
LEMMA CbrIs ==
    ASSUME SelectionInv, NEW list \in Seq(Backend), NEW o \in Orders, NEW m \in Matches
    PROVE  /\ CbrStage(list, o, m) \in Seq(Backend)
           /\ IsInjective(list) => IsInjective(CbrStage(list, o, m))
           /\ Range(CbrStage(list, o, m)) =
                 {b \in Range(list) : BudgetScore(ProviderOf[b]) > 0}
           /\ \A k, l \in DOMAIN CbrStage(list, o, m) : k < l =>
                 ~Better(CbrStage(list, o, m)[l], CbrStage(list, o, m)[k], m)
<1>1. PICK rich : rich = {b \in Backend : BudgetScore(ProviderOf[b]) > 0}
  OBVIOUS
<1>2. PICK paid : paid = Filtered(list, rich)
  OBVIOUS
<1>3. /\ paid \in Seq(Backend) /\ Range(paid) = {x \in Range(list) : x \in rich}
      /\ IsInjective(list) => IsInjective(paid)
  BY <1>2, FilteredIs
<1>4. Range(paid) \subseteq Backend
  BY <1>3 DEF Range
<1>5. PICK first : first = [b \in Range(paid) |-> Composite(b, Governed(DefaultWeights), 0)]
  OBVIOUS
<1>6. PICK second : second = [b \in Range(paid) |-> Weighed(b, o, m)]
  OBVIOUS
<1>7. \A b \in Range(paid) : first[b] \in Int
  <2>1. ASSUME NEW b \in Backend PROVE Composite(b, Governed(DefaultWeights), 0) \in Int
    <3>1. /\ CostScore(b) \in Nat /\ HealthAsked(b) \in Nat /\ Priority[b] \in Nat
          /\ BudgetScore(ProviderOf[b]) \in Nat
      BY ScoreTypes
    <3>2. PICK w \in Weightings : w = Governed(DefaultWeights)
      <4>1. /\ Governed(DefaultWeights) \in {DefaultWeights, Weights(65, 10, 10, 5, 5, 5),
                                             Weights(70, 10, 10, 5, 5, 0)}
            /\ DefaultWeights.match = 15
        BY DEF Governed, DefaultWeights, Weights
      <4>2. Governed(DefaultWeights) \in {DefaultWeights, Weights(65, 10, 10, 5, 5, 5)}
        BY <4>1 DEF Governed
      <4>3. DefaultWeights \in Weightings /\ Weights(65, 10, 10, 5, 5, 5) \in Weightings
        BY DEF DefaultWeights, Weights, Weightings, Weight
      <4> QED  BY <4>2, <4>3
    <3>3. /\ w.cost \in Nat /\ w.latency \in Nat /\ w.health \in Nat /\ w.priority \in Nat
          /\ w.queue \in Nat /\ w.match \in Nat
      BY DEF Weightings, Weight
    <3> DEFINE t == CostScore(b) * w.cost
               h == HealthAsked(b) * (w.latency + w.health)
               p == Priority[b] * w.priority
               q == BudgetScore(ProviderOf[b]) * w.queue
               n == 0 * w.match
    <3>4. t \in Nat /\ h \in Nat /\ p \in Nat /\ q \in Nat /\ n \in Nat
      <4>1. w.latency + w.health \in Nat
        BY <3>3
      <4>2. \A x, y \in Nat : x * y \in Nat
        OBVIOUS
      <4> HIDE DEF Weightings
      <4> QED  BY <3>1, <3>3, <4>1, <4>2
    <3>5. Composite(b, w, 0) = 2 * (t + h + p + q + n)
      BY DEF Composite
    <3> HIDE DEF t, h, p, q, n
    <3>6. Composite(b, w, 0) \in Int
      BY <3>4, <3>5
    <3> QED  BY <3>2, <3>6
  <2> QED  BY <1>4, <1>5, <2>1
<1>8. \A b \in Range(paid) : second[b] = Weighed(b, o, m) /\ second[b] \in Int
  <2>1. \A b \in Backend : Weighed(b, o, m) \in Int
    BY BetterWeighsMore
  <2> QED  BY <1>4, <1>6, <2>1
<1>9. PICK once : once = Sorted(paid, first)
  OBVIOUS
<1>10. PICK twice : twice = Sorted(once, second)
  OBVIOUS
<1>11. CbrStage(list, o, m) = twice
  BY <1>1, <1>2, <1>5, <1>6, <1>9, <1>10 DEF CbrStage, Weighed
<1>12. /\ once \in Seq(Backend) /\ Range(once) = Range(paid)
       /\ IsInjective(paid) => IsInjective(once)
  BY <1>3, <1>7, <1>9, SortedIs
<1>13. /\ twice \in Seq(Backend) /\ Range(twice) = Range(once)
       /\ IsInjective(once) => IsInjective(twice)
       /\ \A k, l \in DOMAIN twice : k < l =>
             \E i, j \in DOMAIN once :
                /\ once[i] = twice[k] /\ once[j] = twice[l]
                /\ \/ second[once[i]] > second[once[j]]
                   \/ second[once[i]] = second[once[j]] /\ i < j
  <2>1. \A x \in Range(once) : second[x] \in Int
    BY <1>8, <1>12
  <2> QED  BY <1>10, <1>12, <2>1, SortedIs
<1>14. ASSUME NEW k \in DOMAIN twice, NEW l \in DOMAIN twice, k < l,
              Better(twice[l], twice[k], m)
       PROVE  FALSE
  <2>1. twice[k] \in Range(paid) /\ twice[l] \in Range(paid)
    BY <1>12, <1>13 DEF Range
  <2>2. second[twice[k]] > second[twice[l]] \/ second[twice[k]] = second[twice[l]]
    BY <1>13, <1>14
  <2>3. /\ twice[k] \in Backend /\ twice[l] \in Backend
        /\ BudgetScore(ProviderOf[twice[k]]) > 0
    BY <1>1, <1>3, <1>4, <2>1
  <2>4. Weighed(twice[l], o, m) > Weighed(twice[k], o, m)
    BY <1>14, <2>3, BetterWeighsMore
  <2>5. /\ second[twice[l]] > second[twice[k]]
        /\ second[twice[k]] \in Int /\ second[twice[l]] \in Int
    BY <1>8, <2>1, <2>4
  <2> QED  BY <2>2, <2>5
<1>15. Range(twice) = {b \in Range(list) : BudgetScore(ProviderOf[b]) > 0}
  <2>1. Range(twice) = {x \in Range(list) : x \in rich}
    BY <1>3, <1>12, <1>13
  <2>2. Range(list) \subseteq Backend
    BY DEF Range
  <2> QED  BY <1>1, <2>1, <2>2
<1> QED  BY <1>3, <1>11, <1>12, <1>13, <1>14, <1>15

\* The third stage keeps the order, loses not everybody who has capacity, and of those
\* only who has less budget left than everyone who stays.
LEMMA LbrIs ==
    ASSUME SelectionInv, NEW list \in Seq(Backend)
    PROVE  /\ LbrStage(list) \in Seq(Backend)
           /\ IsInjective(list) => IsInjective(LbrStage(list))
           /\ \A k, l \in DOMAIN LbrStage(list) : k < l =>
                 \E i, j \in DOMAIN list :
                    i < j /\ list[i] = LbrStage(list)[k] /\ list[j] = LbrStage(list)[l]
           /\ LbrStage(list) = <<>> => \A b \in Range(list) :
                 Tier[b] # Local /\ ~HasCapacity(ProviderOf[b])
           /\ \A b \in Range(list) \ Range(LbrStage(list)), c \in Range(LbrStage(list)) :
                 \/ ~HasCapacity(ProviderOf[b]) \/ Tier[c] = Local
                 \/ BudgetScore(ProviderOf[b]) < BudgetScore(ProviderOf[c])
<1> DEFINE left == LbrStage(list)
<1>1. PICK fit : fit = {b \in Backend : Tier[b] = Local \/ HasCapacity(ProviderOf[b])}
  OBVIOUS
<1>2. PICK open : open = Filtered(list, fit)
  OBVIOUS
<1>3. /\ open \in Seq(Backend) /\ Range(open) = {x \in Range(list) : x \in fit}
      /\ IsInjective(list) => IsInjective(open)
      /\ \A k, l \in DOMAIN open : k < l =>
            \E i, j \in DOMAIN list : i < j /\ list[i] = open[k] /\ list[j] = open[l]
  BY <1>2, FilteredIs
<1>4. Range(list) \subseteq Backend /\ Range(open) \subseteq Backend
  BY <1>3 DEF Range
<1>5. CASE open = <<>>
  <2>1. left = <<>>
    BY <1>1, <1>2, <1>5 DEF LbrStage
  <2>2. \A b \in Range(list) : b \notin fit
    <3>1. Range(open) = {}
      BY <1>5 DEF Range
    <3> QED  BY <1>3, <3>1
  <2>3. left \in Seq(Backend) /\ DOMAIN left = {} /\ Range(left) = {} /\ IsInjective(left)
    BY <2>1 DEF Range, IsInjective
  <2> QED  BY <1>1, <1>4, <2>2, <2>3
<1>6. CASE open # <<>>
  <2>1. PICK scores : scores = [i \in DOMAIN open |-> BudgetScore(ProviderOf[open[i]])]
    OBVIOUS
  <2>2. PICK median : median = Median2(scores)
    OBVIOUS
  <2>3. PICK light : light = {b \in Backend : \/ Tier[b] = Local
                                             \/ Retained(BudgetScore(ProviderOf[b]), median)}
    OBVIOUS
  <2>4. left = Filtered(open, light)
    BY <1>1, <1>2, <1>6, <2>1, <2>2, <2>3 DEF LbrStage
  <2>5. /\ left \in Seq(Backend) /\ Range(left) = {x \in Range(open) : x \in light}
        /\ IsInjective(open) => IsInjective(left)
        /\ \A k, l \in DOMAIN left : k < l =>
              \E i, j \in DOMAIN open : i < j /\ open[i] = left[k] /\ open[j] = left[l]
    <3>1. PICK s : s = left
      OBVIOUS
    <3>2. /\ s \in Seq(Backend) /\ Range(s) = {x \in Range(open) : x \in light}
          /\ IsInjective(open) => IsInjective(s)
          /\ \A k, l \in DOMAIN s : k < l =>
                \E i, j \in DOMAIN open : i < j /\ open[i] = s[k] /\ open[j] = s[l]
      BY <1>3, <2>4, <3>1, FilteredIs
    <3> QED  BY <3>1, <3>2
  <2> HIDE DEF left
  <2>6. \A b \in Backend : BudgetScore(ProviderOf[b]) \in Nat
    BY ScoreTypes
  <2>7. scores \in Seq(Nat) /\ scores # <<>> /\ DOMAIN scores = DOMAIN open
    <3>1. \A i \in DOMAIN open : open[i] \in Backend
      BY <1>3
    <3>2. DOMAIN open = 1..Len(open) /\ Len(open) \in Nat \ {0}
      BY <1>3, <1>6
    <3>3. scores \in [1..Len(open) -> Nat]
      BY <2>1, <2>6, <3>1, <3>2
    <3> QED  BY <3>2, <3>3
  <2>8. PICK i \in DOMAIN scores : median \in Int /\ 2 * scores[i] >= median
    BY <2>2, <2>7, MedianIs
  <2>9. left # <<>>
    <3>1. open[i] \in Range(open) /\ open[i] \in light
      BY <1>4, <2>1, <2>3, <2>7, <2>8 DEF Range, Retained
    <3> QED  BY <2>5, <3>1 DEF Range
  <2>10. ASSUME NEW b \in Range(list) \ Range(left), NEW c \in Range(left),
                HasCapacity(ProviderOf[b]), Tier[c] # Local
         PROVE  BudgetScore(ProviderOf[b]) < BudgetScore(ProviderOf[c])
    <3>1. b \in Backend /\ c \in Backend /\ b \notin light /\ c \in light
      BY <1>1, <1>3, <1>4, <2>5, <2>10
    <3>2. ~(2 * BudgetScore(ProviderOf[b]) >= median) /\ 2 * BudgetScore(ProviderOf[c]) >= median
      BY <2>3, <2>10, <3>1 DEF Retained
    <3>3. BudgetScore(ProviderOf[b]) \in Nat /\ BudgetScore(ProviderOf[c]) \in Nat
      BY <2>6, <3>1
    <3> QED  BY <2>8, <3>2, <3>3
  <2>11. \A k, l \in DOMAIN left : k < l =>
            \E x, y \in DOMAIN list : x < y /\ list[x] = left[k] /\ list[y] = left[l]
    BY <1>3, <2>5
  <2>12. IsInjective(list) => IsInjective(left)
    BY <1>3, <2>5
  <2> QED  BY <2>5, <2>9, <2>10, <2>11, <2>12 DEF left
<1> QED  BY <1>5, <1>6

-----------------------------------------------------------------------------
(* Invariance *)

LEMMA SelectionInitInv == SelectionInit => SelectionInv
<1> SUFFICES ASSUME SelectionInit PROVE SelectionInv
  OBVIOUS
<1>1. Nobody \in Orders
  BY SelectionAssumption DEF Nobody
<1>2. \A p \in Providers : Limit[p] \in Nat
  BY SelectionAssumption
<1>3. kept = <<>> /\ outcome = [kind |-> "none", list |-> <<>>]
  BY DEF SelectionInit, NoOutcome
<1>4. <<>> \in Seq(Backend) /\ IsInjective(<<>>)
  BY DEF IsInjective
<1>5. /\ DOMAIN used = Providers /\ \A p \in Providers : used[p] \in 0..(Limit[p] + 1)
  BY <1>2 DEF SelectionInit
<1>6. /\ status \in [Backend -> Statuses] /\ health \in [Backend -> Healths]
      /\ governor \in BOOLEAN /\ fetched \subseteq Providers /\ live \subseteq Backend
      /\ phase \in {"idle", "classifying", "done"} /\ order \in Orders
      /\ match \in Matches \cup {NoMatch}
  BY <1>1 DEF SelectionInit, Statuses, Healths
<1> QED  BY <1>3, <1>4, <1>5, <1>6 DEF SelectionInv, SelectionTypeOK, NoOutcome

LEMMA SubmitStep ==
    ASSUME SelectionInv, NEW o \in Orders, Submit(o) PROVE SelectionInv'
<1>1. PICK fine : fine = {b \in Backend : Admitted(b, o)}
  OBVIOUS
<1>2. PICK left : left = Filtered(MbrStage(o), fine)
  OBVIOUS
<1>3. left \in Seq(Backend) /\ IsInjective(left)
  <2>1. PICK s : s = MbrStage(o)
    OBVIOUS
  <2>2. s \in Seq(Backend) /\ IsInjective(s)
    BY <2>1, MbrIs
  <2> QED  BY <1>2, <2>1, <2>2, FilteredIs
<1>4. /\ kept' = left /\ order' = o /\ UNCHANGED <<surroundings, match>>
      /\ \/ phase' = "done" /\ outcome' = [kind |-> "no_candidates", list |-> <<>>]
         \/ phase' = "classifying" /\ UNCHANGED outcome
  BY <1>1, <1>2 DEF Submit
<1>5. <<>> \in Seq(Backend) /\ IsInjective(<<>>)
  BY DEF IsInjective
<1>6. /\ outcome'.list \in Seq(Backend) /\ IsInjective(outcome'.list)
      /\ outcome'.kind \in {"none", "no_candidates", "no_budget", "no_capacity", "ranked"}
  <2>1. CASE outcome' = [kind |-> "no_candidates", list |-> <<>>]
    <3>1. outcome'.list = <<>> /\ outcome'.kind = "no_candidates"
      BY <2>1
    <3> QED  BY <1>5, <3>1
  <2>2. CASE UNCHANGED outcome
    BY <2>2 DEF SelectionInv, SelectionTypeOK
  <2> QED  BY <1>4, <2>1, <2>2
<1>7. \A list \in {kept', outcome'.list} : list \in Seq(Backend) /\ IsInjective(list)
  BY <1>3, <1>4, <1>6
<1>8. phase' \in {"classifying", "done"}
  BY <1>4
<1>9. /\ DOMAIN used' = Providers /\ \A p \in Providers : used'[p] \in 0..(Limit[p] + 1)
      /\ status' \in [Backend -> Statuses] /\ health' \in [Backend -> Healths]
      /\ governor' \in BOOLEAN /\ fetched' \subseteq Providers /\ live' \subseteq Backend
      /\ order' \in Orders /\ match' \in Matches \cup {NoMatch}
  BY <1>4 DEF SelectionInv, SelectionTypeOK, surroundings
<1> QED  BY <1>6, <1>7, <1>8, <1>9 DEF SelectionInv, SelectionTypeOK

LEMMA RankStep ==
    ASSUME SelectionInv, NEW m \in Matches, Rank(m) PROVE SelectionInv'
<1>1. kept \in Seq(Backend) /\ IsInjective(kept) /\ order \in Orders
  BY DEF SelectionInv, SelectionTypeOK
<1>2. PICK paid : paid = CbrStage(kept, order, m)
  OBVIOUS
<1>3. paid \in Seq(Backend) /\ IsInjective(paid)
  BY <1>1, <1>2, CbrIs
<1>4. PICK left : left = LbrStage(paid)
  OBVIOUS
<1>5. left \in Seq(Backend) /\ IsInjective(left)
  BY <1>3, <1>4, LbrIs
<1>6. /\ phase' = "done" /\ match' = m /\ UNCHANGED <<surroundings, order, kept>>
      /\ outcome'.kind \in {"no_budget", "no_capacity", "ranked"} /\ outcome'.list = left
  BY <1>2, <1>4 DEF Rank
<1> QED  BY <1>5, <1>6 DEF SelectionInv, SelectionTypeOK, surroundings

LEMMA ReturnStep == ASSUME SelectionInv, Return PROVE SelectionInv'
<1>1. Nobody \in Orders
  BY SelectionAssumption DEF Nobody
<1>2. <<>> \in Seq(Backend) /\ IsInjective(<<>>)
  BY DEF IsInjective
<1>3. /\ kept' = <<>> /\ outcome' = NoOutcome /\ order' = Nobody /\ match' = NoMatch
      /\ phase' = "idle" /\ UNCHANGED surroundings
  BY DEF Return
<1> QED  BY <1>1, <1>2, <1>3 DEF SelectionInv, SelectionTypeOK, surroundings, NoOutcome, NoMatch

LEMMA SurroundingsStep == ASSUME SelectionInv, Surroundings PROVE SelectionInv'
<1>1. UNCHANGED choice
  BY DEF Surroundings, UsageChanges, HealthChanges, StatusChanges, SpendChanges,
         CatalogChanges, Change
<1>2. /\ status' \in [Backend -> Statuses] /\ health' \in [Backend -> Healths]
      /\ governor' \in BOOLEAN /\ fetched' \subseteq Providers /\ live' \subseteq Backend
  <2>1. Names \subseteq Providers  BY DEF Providers
  <2>2. /\ status \in [Backend -> Statuses] /\ health \in [Backend -> Healths]
        /\ governor \in BOOLEAN /\ fetched \subseteq Providers /\ live \subseteq Backend
    BY DEF SelectionInv, SelectionTypeOK
  <2>3. ASSUME NEW p \in Names, NEW found \in SUBSET {b \in Backend : NameOf[b] = p},
               CatalogChanges(p, found)
        PROVE  fetched' \subseteq Providers /\ live' \subseteq Backend
               /\ UNCHANGED <<status, health, governor>>
    BY <2>1, <2>2, <2>3 DEF CatalogChanges
  <2>4. CASE \E b \in Backend, s \in Statuses : StatusChanges(b, s)
    BY <2>2, <2>4 DEF StatusChanges
  <2>5. CASE \E b \in Backend, h \in Healths : HealthChanges(b, h)
    BY <2>2, <2>5 DEF HealthChanges
  <2>6. CASE SpendChanges \/ \E p \in Providers : UsageChanges(p)
    BY <2>2, <2>6 DEF SpendChanges, UsageChanges
  <2> QED  BY <2>2, <2>3, <2>4, <2>5, <2>6 DEF Surroundings
<1>3. DOMAIN used' = Providers /\ \A p \in Providers : used'[p] \in 0..(Limit[p] + 1)
  <2>1. ASSUME NEW p \in Providers, UsageChanges(p)
        PROVE  DOMAIN used' = Providers /\ \A q \in Providers : used'[q] \in 0..(Limit[q] + 1)
    BY <2>1 DEF UsageChanges, SelectionInv, SelectionTypeOK
  <2>2. CASE UNCHANGED used
    BY <2>2 DEF SelectionInv, SelectionTypeOK
  <2> QED  BY <2>1, <2>2
           DEF Surroundings, HealthChanges, StatusChanges, SpendChanges, CatalogChanges
<1> QED  BY <1>1, <1>2, <1>3 DEF SelectionInv, SelectionTypeOK, choice

LEMMA SelectionStep ==
    ASSUME SelectionInv, [SelectionNext]_selectionVars PROVE SelectionInv'
<1>1. ASSUME NEW o \in Orders, Submit(o) PROVE SelectionInv'
  BY <1>1, SubmitStep
<1>2. ASSUME NEW m \in Matches, Rank(m) PROVE SelectionInv'
  BY <1>2, RankStep
<1>3. CASE SelectModels
  BY <1>3 DEF SelectModels, SelectionInv, SelectionTypeOK, surroundings
<1>4. CASE Return
  BY <1>4, ReturnStep
<1>5. CASE Surroundings
  BY <1>5, SurroundingsStep
<1>6. CASE UNCHANGED selectionVars
  BY <1>6 DEF selectionVars, choice, surroundings, SelectionInv, SelectionTypeOK
<1> QED  BY <1>1, <1>2, <1>3, <1>4, <1>5, <1>6 DEF SelectionNext

\* Every step keeps it.
THEOREM SelectionInvariance == SelectionSpec => []SelectionInv
<1> QED  BY SelectionInitInv, SelectionStep, PTL DEF SelectionSpec

\* A dispatch never has a candidate twice: neither the tiers tried one after the other nor
\* the sorts and filters repeat one.
THEOREM SelectionTypeCorrect == SelectionSpec => []SelectionTypeOK
<1>1. SelectionInv => SelectionTypeOK
  BY DEF SelectionInv
<1> QED  BY <1>1, SelectionInvariance, PTL

\* HAZ-013: no order that asks for more gets a lower tier or the weights of lower stakes.
THEOREM EscalationTheorem == SelectionSpec => []EscalationIsMonotone
<1>1. SelectionInv => EscalationIsMonotone
  BY EscalationHolds DEF SelectionInv, SelectionTypeOK, EscalationIsMonotone
<1> QED  BY <1>1, SelectionInvariance, PTL

\* Only Rank chooses.
LEMMA ChoosingRanks ==
    ASSUME SelectionInv, [SelectionNext]_selectionVars, Choosing
    PROVE  \E m \in Matches : /\ match' = m
                              /\ outcome'.list = LbrStage(CbrStage(kept, order, m))
<1>1. PICK m \in Matches : Rank(m)
  BY DEF Choosing, SelectionNext, Submit, SelectModels, Return, Surroundings, UsageChanges,
         HealthChanges, StatusChanges, SpendChanges, CatalogChanges, Change, choice,
         selectionVars
<1> QED  BY <1>1 DEF Rank

\* The refusal of a dispatch is earned, in every step.
THEOREM RefusalTheorem == SelectionSpec => RefusalIsEarned
<1> DEFINE Earned ==
       /\ outcome'.kind = "no_candidates" /\ phase = "idle" =>
             \A b \in Backend :
                 ~(/\ Tier[b] >= RequestedTier(order') /\ Capable(b, order')
                   /\ Healthy(b) /\ Admitted(b, order'))
       /\ Choosing /\ outcome'.list = <<>> =>
             \A b \in Range(kept) :
                 \/ BudgetScore(ProviderOf[b]) = 0
                 \/ Tier[b] # Local /\ ~HasCapacity(ProviderOf[b])
<1>1. ASSUME SelectionInv, [SelectionNext]_selectionVars PROVE [Earned]_selectionVars
  <2>1. ASSUME outcome'.kind = "no_candidates", phase = "idle", NEW b \in Backend,
               Tier[b] >= RequestedTier(order'), Capable(b, order'), Healthy(b),
               Admitted(b, order')
        PROVE  FALSE
    <3>1. outcome.kind = "none"
      BY <1>1, <2>1 DEF SelectionInv, NoOutcome
    <3>2. PICK o \in Orders : Submit(o) /\ outcome' # outcome
      BY <1>1, <2>1, <3>1
         DEF SelectionNext, Rank, SelectModels, Return, Surroundings, UsageChanges,
             HealthChanges, StatusChanges, SpendChanges, CatalogChanges, Change, choice,
             selectionVars
    <3>3. PICK fine : fine = {x \in Backend : Admitted(x, o)}
      OBVIOUS
    <3>4. PICK s : s = MbrStage(o)
      OBVIOUS
    <3>5. order' = o /\ Filtered(s, fine) = <<>>
      BY <3>2, <3>3, <3>4 DEF Submit
    <3>6. s \in Seq(Backend) /\ b \in Range(s)
      BY <2>1, <3>4, <3>5, MbrIs
    <3>7. b \in fine
      BY <2>1, <3>3, <3>5
    <3>8. b \in Range(Filtered(s, fine))
      BY <3>6, <3>7, FilteredIs
    <3> QED  BY <3>5, <3>8 DEF Range
  <2>2. ASSUME Choosing, outcome'.list = <<>>, NEW b \in Range(kept)
        PROVE  \/ BudgetScore(ProviderOf[b]) = 0
               \/ Tier[b] # Local /\ ~HasCapacity(ProviderOf[b])
    <3>1. PICK m \in Matches : outcome'.list = LbrStage(CbrStage(kept, order, m))
      BY <1>1, <2>2, ChoosingRanks
    <3>2. kept \in Seq(Backend) /\ order \in Orders /\ b \in Backend
      BY <1>1 DEF SelectionInv, SelectionTypeOK, Range
    <3>3. PICK paid : paid = CbrStage(kept, order, m)
      OBVIOUS
    <3>4. /\ paid \in Seq(Backend)
          /\ Range(paid) = {x \in Range(kept) : BudgetScore(ProviderOf[x]) > 0}
      BY <1>1, <3>2, <3>3, CbrIs
    <3>5. LbrStage(paid) = <<>>
      BY <2>2, <3>1, <3>3
    <3>6. \A x \in Range(paid) : Tier[x] # Local /\ ~HasCapacity(ProviderOf[x])
      BY <1>1, <3>4, <3>5, LbrIs
    <3>7. BudgetScore(ProviderOf[b]) \in Nat
      BY <1>1, <3>2, ScoreTypes
    <3> QED  BY <3>4, <3>6, <3>7
  <2> QED  BY <2>1, <2>2
<1> QED  BY <1>1, SelectionInvariance, PTL DEF SelectionSpec, RefusalIsEarned

\* The median filter takes from the loaded end, in every step.
THEOREM LoadedTheorem == SelectionSpec => LoadedIsLeft
<1> DEFINE Fair ==
       Choosing => \A b \in Range(kept) \ Range(outcome'.list), c \in Range(outcome'.list) :
          LET p == ProviderOf[b] q == ProviderOf[c] IN
          \/ ~HasCapacity(p) \/ BudgetScore(p) = 0 \/ Tier[c] = Local
          \/ BudgetScore(p) < BudgetScore(q)
<1>1. ASSUME SelectionInv, [SelectionNext]_selectionVars PROVE [Fair]_selectionVars
  <2> SUFFICES ASSUME Choosing, NEW b \in Range(kept) \ Range(outcome'.list),
                      NEW c \in Range(outcome'.list),
                      HasCapacity(ProviderOf[b]), BudgetScore(ProviderOf[b]) # 0,
                      Tier[c] # Local
               PROVE  BudgetScore(ProviderOf[b]) < BudgetScore(ProviderOf[c])
    OBVIOUS
  <2>1. PICK m \in Matches : outcome'.list = LbrStage(CbrStage(kept, order, m))
    BY <1>1, ChoosingRanks
  <2>2. kept \in Seq(Backend) /\ order \in Orders /\ b \in Backend
    BY <1>1 DEF SelectionInv, SelectionTypeOK, Range
  <2>3. PICK paid : paid = CbrStage(kept, order, m)
    OBVIOUS
  <2>4. /\ paid \in Seq(Backend)
        /\ Range(paid) = {x \in Range(kept) : BudgetScore(ProviderOf[x]) > 0}
    BY <1>1, <2>2, <2>3, CbrIs
  <2>5. BudgetScore(ProviderOf[b]) \in Nat
    BY <1>1, <2>2, ScoreTypes
  <2>6. b \in Range(paid) \ Range(LbrStage(paid)) /\ c \in Range(LbrStage(paid))
    BY <2>1, <2>3, <2>4, <2>5
  <2> QED  BY <1>1, <2>4, <2>6, LbrIs
<1> QED  BY <1>1, SelectionInvariance, PTL DEF SelectionSpec, LoadedIsLeft

\* A better candidate comes first, in every step, for every order, weighting, spend and
\* load.
THEOREM BetterTheorem == SelectionSpec => BetterRanksFirst
<1> DEFINE First ==
       Choosing => \A i, j \in DOMAIN outcome'.list :
          Better(outcome'.list[j], outcome'.list[i], match') => j < i
<1>1. ASSUME SelectionInv, [SelectionNext]_selectionVars PROVE [First]_selectionVars
  <2> SUFFICES ASSUME Choosing, NEW i \in DOMAIN outcome'.list,
                      NEW j \in DOMAIN outcome'.list,
                      Better(outcome'.list[j], outcome'.list[i], match'), ~(j < i)
               PROVE  FALSE
    OBVIOUS
  <2>1. PICK m \in Matches :
           match' = m /\ outcome'.list = LbrStage(CbrStage(kept, order, m))
    BY <1>1, ChoosingRanks
  <2>2. kept \in Seq(Backend) /\ order \in Orders
    BY <1>1 DEF SelectionInv, SelectionTypeOK
  <2>3. PICK paid : paid = CbrStage(kept, order, m)
    OBVIOUS
  <2>4. PICK left : left = LbrStage(paid)
    OBVIOUS
  <2>5. paid \in Seq(Backend) /\ \A k, l \in DOMAIN paid : k < l => ~Better(paid[l], paid[k], m)
    BY <1>1, <2>2, <2>3, CbrIs
  <2>6. /\ left \in Seq(Backend)
        /\ \A k, l \in DOMAIN left : k < l =>
              \E x, y \in DOMAIN paid : x < y /\ paid[x] = left[k] /\ paid[y] = left[l]
    BY <1>1, <2>4, <2>5, LbrIs
  <2>7. /\ i \in DOMAIN left /\ j \in DOMAIN left /\ Better(left[j], left[i], m)
    BY <2>1, <2>3, <2>4
  <2>8. i \in Int /\ j \in Int
    BY <2>6, <2>7
  <2>9. i # j
    BY <2>7 DEF Better
  <2>10. i < j
    BY <2>8, <2>9
  <2> QED  BY <2>5, <2>6, <2>7, <2>10
<1> QED  BY <1>1, SelectionInvariance, PTL DEF SelectionSpec, BetterRanksFirst

-----------------------------------------------------------------------------
(* CandidateSelection: the interleaved list.  It is what the last round of *)
(* a recursion over the rounds of the loop has placed; the induction is    *)
(* over the set of the numbers of rounds after which the loop stands well. *)

\* The order of the natural numbers, as a relation.
NatLess == {ss \in Nat \X Nat : ss[1] < ss[2]}

\* What holds at 0, and after n + 1 rounds if after n, holds after any number.
LEMMA Induction ==
    ASSUME NEW S, 0 \in S, \A n \in Nat : n \in S => n + 1 \in S
    PROVE  Nat \subseteq S
<1> SUFFICES ASSUME Nat \ S # {} PROVE FALSE
  OBVIOUS
<1>1. IsWellFoundedOn(NatLess, Nat)
  BY NatLessThanWellFounded, Zenon DEF OpToRel, NatLess
<1>2. PICK T : T = Nat \ S
  OBVIOUS
<1>3. PICK n \in T : \A m \in T : <<m, n>> \notin NatLess
  BY <1>1, <1>2, WFMin
<1>4. n \in Nat /\ n # 0
  BY <1>2, <1>3
<1>5. n - 1 \in T
  BY <1>2, <1>3, <1>4
<1>6. <<n - 1, n>> \in NatLess
  BY <1>4 DEF NatLess
<1> QED  BY <1>3, <1>5, <1>6

Start(list) == [done |-> <<>>, rest |-> list]

\* The rounds of a list from the first to the n-th.
AreRounds(f, list, n) ==
    f = [k \in 0..n |-> IF k = 0 THEN Start(list) ELSE PlaceBest(f[k - 1])]

\* The recursion defines a function: there is one for 0 rounds, and one more round is no
\* obstacle.
LEMMA RoundsExist == ASSUME NEW list, NEW n \in Nat PROVE \E f : AreRounds(f, list, n)
<1> DEFINE S == {k \in Nat : \E f : AreRounds(f, list, k)}
<1>1. 0 \in S
  <2>1. PICK f : f = [k \in 0..0 |-> Start(list)]
    OBVIOUS
  <2>2. AreRounds(f, list, 0)
    BY <2>1 DEF AreRounds
  <2> QED  BY <2>2
<1>2. ASSUME NEW k \in Nat, k \in S PROVE k + 1 \in S
  <2>1. PICK f : AreRounds(f, list, k)
    BY <1>2
  <2>2. PICK g : g = [i \in 0..(k + 1) |-> IF i <= k THEN f[i] ELSE PlaceBest(f[k])]
    OBVIOUS
  <2>3. \A i \in 0..k : f[i] = IF i = 0 THEN Start(list) ELSE PlaceBest(f[i - 1])
    BY <2>1 DEF AreRounds
  <2>4. \A i \in 0..(k + 1) : g[i] = IF i = 0 THEN Start(list) ELSE PlaceBest(g[i - 1])
    BY <2>2, <2>3
  <2>5. g = [i \in 0..(k + 1) |-> g[i]]
    BY <2>2
  <2>6. AreRounds(g, list, k + 1)
    BY <2>4, <2>5 DEF AreRounds
  <2> QED  BY <2>6
<1>3. Nat \subseteq S
  <2> HIDE DEF S
  <2> QED  BY <1>1, <1>2, Induction
<1> QED  BY <1>3

\* So Rounds is what its definition says (_build_interleaved).
LEMMA RoundsAre ==
    ASSUME NEW list \in Seq(Backend)
    PROVE  /\ Rounds(list)[0] = Start(list)
           /\ \A k \in 1..Len(list) : Rounds(list)[k] = PlaceBest(Rounds(list)[k - 1])
<1>1. Len(list) \in Nat
  OBVIOUS
<1>2. Rounds(list) = CHOOSE f : AreRounds(f, list, Len(list))
  BY DEF Rounds, AreRounds, Start
<1>3. AreRounds(Rounds(list), list, Len(list))
  BY <1>1, <1>2, RoundsExist
<1>4. PICK f : f = Rounds(list)
  OBVIOUS
<1>5. \A k \in 0..Len(list) : f[k] = IF k = 0 THEN Start(list) ELSE PlaceBest(f[k - 1])
  BY <1>3, <1>4 DEF AreRounds
<1> QED  BY <1>1, <1>4, <1>5

-----------------------------------------------------------------------------
\* Taking the i-th element out of a list leaves the others, in their order.
LEMMA RemoveAtIs ==
    ASSUME NEW s \in Seq(Backend), NEW i \in DOMAIN s
    PROVE  /\ RemoveAt(s, i) \in Seq(Backend)
           /\ Len(RemoveAt(s, i)) = Len(s) - 1
           /\ Range(s) = Range(RemoveAt(s, i)) \cup {s[i]}
<1>1. Len(s) \in Nat /\ DOMAIN s = 1..Len(s) /\ i \in 1..Len(s)
      /\ \A j \in 1..Len(s) : s[j] \in Backend
  OBVIOUS
<1>2. PICK front : front = SubSeq(s, 1, i - 1)
  OBVIOUS
<1>3. PICK back : back = SubSeq(s, i + 1, Len(s))
  OBVIOUS
<1>4. /\ front \in Seq(Backend) /\ Len(front) = i - 1
      /\ \A j \in 1..(i - 1) : front[j] = s[j]
  <2>1. 1 \in Int /\ i - 1 \in Int /\ \A j \in 1..(i - 1) : s[j] \in Backend
    BY <1>1
  <2>2. /\ SubSeq(s, 1, i - 1) \in Seq(Backend)
        /\ Len(SubSeq(s, 1, i - 1)) = IF 1 <= i - 1 THEN i - 1 - 1 + 1 ELSE 0
        /\ \A j \in 1..(i - 1 - 1 + 1) : SubSeq(s, 1, i - 1)[j] = s[1 + j - 1]
    BY <2>1, SubSeqProperties
  <2> QED  BY <1>1, <1>2, <2>2
<1>5. /\ back \in Seq(Backend) /\ Len(back) = Len(s) - i
      /\ \A j \in 1..(Len(s) - i) : back[j] = s[i + j]
  <2>1. i + 1 \in Int /\ Len(s) \in Int /\ \A j \in (i + 1)..Len(s) : s[j] \in Backend
    BY <1>1
  <2>2. /\ SubSeq(s, i + 1, Len(s)) \in Seq(Backend)
        /\ Len(SubSeq(s, i + 1, Len(s))) = IF i + 1 <= Len(s) THEN Len(s) - (i + 1) + 1 ELSE 0
        /\ \A j \in 1..(Len(s) - (i + 1) + 1) : SubSeq(s, i + 1, Len(s))[j] = s[i + 1 + j - 1]
    BY <2>1, SubSeqProperties
  <2> QED  BY <1>1, <1>3, <2>2
<1>6. PICK left : left = RemoveAt(s, i)
  OBVIOUS
<1>7. left = front \o back
  BY <1>2, <1>3, <1>6 DEF RemoveAt
<1>8. /\ left \in Seq(Backend) /\ Len(left) = Len(s) - 1
      /\ \A j \in 1..(Len(s) - 1) : left[j] = IF j < i THEN s[j] ELSE s[j + 1]
  <2>1. /\ left \in Seq(Backend) /\ Len(left) = Len(front) + Len(back)
        /\ \A j \in 1..(Len(front) + Len(back)) :
              left[j] = IF j <= Len(front) THEN front[j] ELSE back[j - Len(front)]
    BY <1>4, <1>5, <1>7, ConcatProperties
  <2>2. ASSUME NEW j \in 1..(Len(s) - 1)
        PROVE  left[j] = IF j < i THEN s[j] ELSE s[j + 1]
    <3>1. CASE j < i
      BY <1>1, <1>4, <1>5, <2>1, <3>1
    <3>2. CASE j >= i
      <4>1. left[j] = back[j - (i - 1)] /\ j - (i - 1) \in 1..(Len(s) - i)
        BY <1>1, <1>4, <1>5, <2>1, <3>2
      <4> QED  BY <1>1, <1>5, <3>2, <4>1
    <3> QED  BY <1>1, <3>1, <3>2
  <2> QED  BY <1>1, <1>4, <1>5, <2>1, <2>2
<1>9. Range(s) \subseteq Range(left) \cup {s[i]}
  <2>1. ASSUME NEW j \in 1..Len(s) PROVE s[j] \in Range(left) \cup {s[i]}
    <3>1. CASE j < i
      <4>1. j \in 1..(Len(s) - 1) /\ left[j] = s[j] /\ j \in DOMAIN left
        BY <1>1, <1>8, <3>1
      <4> QED  BY <4>1 DEF Range
    <3>2. CASE j > i
      <4>1. j - 1 \in 1..(Len(s) - 1) /\ left[j - 1] = s[j] /\ j - 1 \in DOMAIN left
        BY <1>1, <1>8, <3>2
      <4> QED  BY <4>1 DEF Range
    <3> QED  BY <1>1, <3>1, <3>2
  <2> QED  BY <1>1, <2>1 DEF Range
<1>10. Range(left) \cup {s[i]} \subseteq Range(s)
  <2>1. ASSUME NEW j \in 1..(Len(s) - 1) PROVE left[j] \in Range(s)
    <3>1. j \in DOMAIN s /\ j + 1 \in DOMAIN s /\ left[j] \in {s[j], s[j + 1]}
      BY <1>1, <1>8
    <3> QED  BY <3>1 DEF Range
  <2> QED  BY <1>1, <1>8, <2>1 DEF Range
<1> QED  BY <1>6, <1>8, <1>9, <1>10

\* Where the loop stands when k models have been looked at: nothing is lost, and while
\* something remains nobody has come too often in a row.
Spread(list) ==
    \A i \in MaxConsecutive + 1..Len(list) :
        \E k \in i - MaxConsecutive..i : NameOf[list[k]] # NameOf[list[i]]
TailRepeats(list) ==
    \A i \in MaxConsecutive + 1..Len(list) :
        \/ \E k \in i - MaxConsecutive..i : NameOf[list[k]] # NameOf[list[i]]
        \/ \A j \in i..Len(list) : NameOf[list[j]] = NameOf[list[i]]
Placing(done, rest, list, k) ==
    /\ done \in Seq(Backend) /\ rest \in Seq(Backend)
    /\ Len(done) + Len(rest) = Len(list)
    /\ Range(done) \cup Range(rest) = Range(list)
    /\ rest = <<>> \/ Len(rest) = Len(list) - k
    /\ rest # <<>> => Spread(done)
    /\ TailRepeats(done)
Standing(state, list, k) == Placing(state.done, state.rest, list, k)

LEMMA StartStands ==
    ASSUME NEW list \in Seq(Backend) PROVE Standing(Start(list), list, 0)
<1>1. <<>> \in Seq(Backend) /\ Len(<<>>) = 0 /\ Range(<<>>) = {}
  BY DEF Range
<1>2. MaxConsecutive \in Nat \ {0}
  BY SelectionAssumption
<1>3. Spread(<<>>) /\ TailRepeats(<<>>)
  BY <1>1, <1>2 DEF Spread, TailRepeats
<1>4. Start(list).done = <<>> /\ Start(list).rest = list
  BY DEF Start
<1>5. Len(list) \in Nat
  OBVIOUS
<1> QED  BY <1>1, <1>3, <1>4, <1>5 DEF Standing, Placing

\* A set of indices that is not empty has a least one.
LEMMA LeastIs ==
    ASSUME NEW T \in SUBSET Nat, T # {}
    PROVE  Min(T) \in T
<1>1. IsWellFoundedOn(NatLess, Nat)
  BY NatLessThanWellFounded, Zenon DEF OpToRel, NatLess
<1>2. PICK n \in T : \A m \in T : <<m, n>> \notin NatLess
  BY <1>1, WFMin
<1>3. ASSUME NEW m \in T, ~(n <= m) PROVE FALSE
  <2>1. m \in Nat /\ n \in Nat
    OBVIOUS
  <2>2. <<m, n>> \in NatLess
    BY <1>3, <2>1 DEF NatLess
  <2> QED  BY <1>2, <2>2
<1> QED  BY <1>2, <1>3 DEF Min

LEMMA OneLess ==
    \A l, d, r, k \in Nat :
        r = l - k /\ d + r = l => r - 1 = l - (k + 1) /\ (d + 1) + (r - 1) = l
  OBVIOUS

\* The next model is the first that may be placed.
LEMMA PlacedStands ==
    ASSUME NEW list \in Seq(Backend), NEW k \in 0..(Len(list) - 1), NEW state,
           Standing(state, list, k),
           NEW i \in DOMAIN state.rest, CanPlace(state.done, NameOf[state.rest[i]]),
           NEW after, after.done = Append(state.done, state.rest[i]),
           after.rest = RemoveAt(state.rest, i)
    PROVE  Standing(after, list, k + 1)
<1>1. PICK done : done = state.done
  OBVIOUS
<1>2. PICK rest : rest = state.rest
  OBVIOUS
<1>3. PICK b : b = rest[i]
  OBVIOUS
<1>4. /\ done \in Seq(Backend) /\ rest \in Seq(Backend) /\ i \in DOMAIN rest
      /\ Len(done) \in Nat /\ Len(rest) \in Nat /\ Len(list) \in Nat /\ k \in Nat
      /\ b \in Backend /\ Len(rest) = Len(list) - k
      /\ Len(done) + Len(rest) = Len(list)
      /\ Range(done) \cup Range(rest) = Range(list) /\ Spread(done)
  <2>1. Len(list) \in Nat /\ k \in Nat
    OBVIOUS
  <2>2. /\ done \in Seq(Backend) /\ rest \in Seq(Backend)
        /\ Len(done) \in Nat /\ Len(rest) \in Nat
        /\ Len(done) + Len(rest) = Len(list)
        /\ Range(done) \cup Range(rest) = Range(list)
        /\ rest = <<>> \/ Len(rest) = Len(list) - k
        /\ rest # <<>> => Spread(done)
    <3>1. Placing(done, rest, list, k)
      BY <1>1, <1>2 DEF Standing
    <3> QED  BY <3>1 DEF Placing
  <2>3. i \in DOMAIN rest /\ rest # <<>> /\ rest[i] \in Backend
    BY <1>2, <2>2
  <2> QED  BY <1>3, <2>1, <2>2, <2>3
<1>5. PICK more : more = Append(done, b)
  OBVIOUS
<1>6. PICK left : left = RemoveAt(rest, i)
  OBVIOUS
<1>7. /\ more \in Seq(Backend) /\ Len(more) = Len(done) + 1
      /\ \A j \in 1..Len(done) : more[j] = done[j]
      /\ more[Len(done) + 1] = b
  BY <1>4, <1>5, AppendProperties
<1>8. /\ left \in Seq(Backend) /\ Len(left) = Len(rest) - 1
      /\ Range(rest) = Range(left) \cup {b}
  BY <1>3, <1>4, <1>6, RemoveAtIs
<1>9. Range(more) = Range(done) \cup {b}
  <2>1. DOMAIN more = 1..(Len(done) + 1) /\ DOMAIN done = 1..Len(done)
    BY <1>4, <1>7
  <2>2. \A j \in DOMAIN done : j \in DOMAIN more /\ more[j] = done[j]
    BY <1>4, <1>7, <2>1
  <2>3. Len(done) + 1 \in DOMAIN more
    BY <1>4, <2>1
  <2>4. \A j \in DOMAIN more : j \in DOMAIN done \/ j = Len(done) + 1
    BY <1>4, <2>1
  <2> QED  BY <1>7, <2>2, <2>3, <2>4 DEF Range
<1>10. Spread(more)
  <2> SUFFICES ASSUME NEW j \in MaxConsecutive + 1..Len(more)
               PROVE  \E l \in j - MaxConsecutive..j : NameOf[more[l]] # NameOf[more[j]]
    BY DEF Spread
  <2>1. MaxConsecutive \in Nat \ {0}
    BY SelectionAssumption
  <2>2. CASE j <= Len(done)
    <3>1. j \in MaxConsecutive + 1..Len(done)
      BY <1>4, <1>7, <2>1, <2>2
    <3>2. PICK l \in j - MaxConsecutive..j : NameOf[done[l]] # NameOf[done[j]]
      BY <1>4, <3>1 DEF Spread
    <3>3. l \in 1..Len(done) /\ j \in 1..Len(done)
      BY <1>4, <2>1, <3>1, <3>2
    <3> QED  BY <1>7, <3>2, <3>3
  <2>3. CASE j = Len(done) + 1
    <3>1. Len(done) >= MaxConsecutive
      BY <1>4, <1>7, <2>1, <2>3
    <3>2. PICK l \in (Len(done) - MaxConsecutive + 1)..Len(done) :
                NameOf[done[l]] # NameOf[b]
      BY <1>1, <1>2, <1>3, <1>4, <2>1, <3>1 DEF CanPlace
    <3>3. l \in 1..Len(done) /\ l \in j - MaxConsecutive..j
      BY <1>4, <2>1, <2>3, <3>1, <3>2
    <3> QED  BY <1>7, <2>3, <3>2, <3>3
  <2>4. j \in Int /\ j <= Len(done) + 1
    BY <1>4, <1>7, <2>1
  <2> QED  BY <1>4, <2>2, <2>3, <2>4
<1>11. TailRepeats(more)
  BY <1>10 DEF Spread, TailRepeats
<1>12. after.done = more /\ after.rest = left
  BY <1>1, <1>2, <1>3, <1>5, <1>6
<1>13. Len(left) = Len(list) - (k + 1) /\ Len(more) + Len(left) = Len(list)
  <2>1. Len(left) = Len(rest) - 1 /\ Len(more) = Len(done) + 1
    BY <1>7, <1>8
  <2>2. Len(rest) = Len(list) - k /\ Len(done) + Len(rest) = Len(list)
    BY <1>4
  <2>3. Len(list) \in Nat /\ k \in Nat /\ Len(rest) \in Nat /\ Len(done) \in Nat
    BY <1>4
  <2>4. PICK l \in Nat, d \in Nat, r \in Nat :
           l = Len(list) /\ d = Len(done) /\ r = Len(rest)
    BY <2>3
  <2>5. r = l - k /\ d + r = l
    BY <2>2, <2>4
  <2>6. r - 1 = l - (k + 1) /\ (d + 1) + (r - 1) = l
    BY <2>3, <2>5, OneLess
  <2> QED  BY <2>1, <2>4, <2>6
<1>14. Range(more) \cup Range(left) = Range(list)
  BY <1>4, <1>8, <1>9
<1> QED  BY <1>7, <1>8, <1>10, <1>11, <1>12, <1>13, <1>14 DEF Standing, Placing

\* When none may be placed, what remains is all of the last provider.
LEMMA TailStands ==
    ASSUME NEW list \in Seq(Backend), NEW k \in 0..(Len(list) - 1), NEW state,
           Standing(state, list, k), state.rest # <<>>,
           \A i \in DOMAIN state.rest : ~CanPlace(state.done, NameOf[state.rest[i]]),
           NEW after, after.done = state.done \o state.rest, after.rest = <<>>
    PROVE  Standing(after, list, k + 1)
<1>1. PICK done : done = state.done
  OBVIOUS
<1>2. PICK rest : rest = state.rest
  OBVIOUS
<1>3. /\ done \in Seq(Backend) /\ rest \in Seq(Backend) /\ rest # <<>>
      /\ Len(done) \in Nat /\ Len(rest) \in Nat /\ Len(list) \in Nat
      /\ Len(done) + Len(rest) = Len(list)
      /\ Range(done) \cup Range(rest) = Range(list) /\ Spread(done)
  <2>1. Len(list) \in Nat /\ rest # <<>>
    BY <1>2
  <2>2. /\ done \in Seq(Backend) /\ rest \in Seq(Backend)
        /\ Len(done) \in Nat /\ Len(rest) \in Nat
        /\ Len(done) + Len(rest) = Len(list)
        /\ Range(done) \cup Range(rest) = Range(list)
        /\ rest # <<>> => Spread(done)
    <3>1. Placing(done, rest, list, k)
      BY <1>1, <1>2 DEF Standing
    <3> QED  BY <3>1 DEF Placing
  <2> QED  BY <2>1, <2>2
<1>4. MaxConsecutive \in Nat \ {0}
  BY SelectionAssumption
<1>5. PICK all : all = done \o rest
  OBVIOUS
<1>6. /\ all \in Seq(Backend) /\ Len(all) = Len(done) + Len(rest)
      /\ \A i \in 1..Len(done) + Len(rest) :
            all[i] = IF i <= Len(done) THEN done[i] ELSE rest[i - Len(done)]
  BY <1>3, <1>5, ConcatProperties
<1>7. \A i \in 1..Len(done) : all[i] = done[i]
  BY <1>3, <1>6
<1>8. \A i \in 1..Len(rest) : all[Len(done) + i] = rest[i]
  BY <1>3, <1>6
<1>9. Range(all) = Range(list)
  <2>1. /\ DOMAIN all = 1..(Len(done) + Len(rest))
        /\ DOMAIN done = 1..Len(done) /\ DOMAIN rest = 1..Len(rest)
    BY <1>3, <1>6
  <2>2. \A i \in DOMAIN done : i \in DOMAIN all /\ all[i] = done[i]
    BY <1>3, <1>7, <2>1
  <2>3. \A i \in DOMAIN rest : Len(done) + i \in DOMAIN all /\ all[Len(done) + i] = rest[i]
    BY <1>3, <1>8, <2>1
  <2>4. ASSUME NEW i \in DOMAIN all
        PROVE  \/ i \in DOMAIN done /\ all[i] = done[i]
               \/ i - Len(done) \in DOMAIN rest /\ all[i] = rest[i - Len(done)]
    <3>1. i \in 1..(Len(done) + Len(rest))
      BY <2>1
    <3>2. all[i] = IF i <= Len(done) THEN done[i] ELSE rest[i - Len(done)]
      BY <1>6, <3>1
    <3>3. i <= Len(done) => i \in DOMAIN done
      BY <1>3, <2>1, <3>1
    <3>4. ~(i <= Len(done)) => i - Len(done) \in DOMAIN rest
      BY <1>3, <2>1, <3>1
    <3> QED  BY <3>2, <3>3, <3>4
  <2>5. Range(all) = Range(done) \cup Range(rest)
    BY <2>2, <2>3, <2>4 DEF Range
  <2> QED  BY <1>3, <2>5
<1>10. Len(done) >= MaxConsecutive
  <2>1. 1 \in DOMAIN rest
    BY <1>3
  <2> QED  BY <1>1, <1>2, <1>3, <1>4, <2>1 DEF CanPlace
<1>11. \A i \in 1..Len(rest) : NameOf[rest[i]] = NameOf[done[Len(done)]]
  <2> SUFFICES ASSUME NEW i \in 1..Len(rest)
               PROVE  NameOf[rest[i]] = NameOf[done[Len(done)]]
    OBVIOUS
  <2>1. i \in DOMAIN state.rest /\ ~CanPlace(done, NameOf[rest[i]])
    BY <1>1, <1>2, <1>3
  <2>2. Len(done) \in (Len(done) - MaxConsecutive + 1)..Len(done)
    BY <1>3, <1>4
  <2> QED  BY <2>1, <2>2 DEF CanPlace
<1>12. TailRepeats(all)
  <2> SUFFICES ASSUME NEW i \in MaxConsecutive + 1..Len(all)
               PROVE  \/ \E l \in i - MaxConsecutive..i :
                            NameOf[all[l]] # NameOf[all[i]]
                      \/ \A j \in i..Len(all) : NameOf[all[j]] = NameOf[all[i]]
    BY DEF TailRepeats
  <2>1. CASE i <= Len(done)
    <3>1. i \in MaxConsecutive + 1..Len(done)
      BY <1>3, <1>4, <1>6, <2>1
    <3>2. PICK l \in i - MaxConsecutive..i : NameOf[done[l]] # NameOf[done[i]]
      BY <1>3, <3>1 DEF Spread
    <3>3. l \in 1..Len(done) /\ i \in 1..Len(done)
      BY <1>3, <1>4, <3>1, <3>2
    <3> QED  BY <1>7, <3>2, <3>3
  <2>2. CASE i > Len(done)
    <3> SUFFICES ASSUME NEW j \in i..Len(all)
                 PROVE  NameOf[all[j]] = NameOf[all[i]]
      OBVIOUS
    <3>1. /\ j - Len(done) \in 1..Len(rest) /\ all[j] = rest[j - Len(done)]
          /\ i - Len(done) \in 1..Len(rest) /\ all[i] = rest[i - Len(done)]
      BY <1>3, <1>4, <1>6, <2>2
    <3> QED  BY <1>11, <3>1
  <2> QED  BY <1>3, <1>4, <2>1, <2>2
<1>13. after.done = all /\ after.rest = <<>>
  BY <1>1, <1>2, <1>5
<1>14. <<>> \in Seq(Backend) /\ Len(<<>>) = 0 /\ Range(<<>>) = {}
  BY DEF Range
<1>15. Len(all) + Len(<<>>) = Len(list) /\ Range(all) \cup Range(<<>>) = Range(list)
  BY <1>3, <1>6, <1>9, <1>14
<1> QED  BY <1>6, <1>12, <1>13, <1>14, <1>15 DEF Standing, Placing

LEMMA PlaceStands ==
    ASSUME NEW list \in Seq(Backend), NEW k \in 0..(Len(list) - 1), NEW state,
           Standing(state, list, k)
    PROVE  Standing(PlaceBest(state), list, k + 1)
<1>1. PICK fits : fits = {i \in DOMAIN state.rest : CanPlace(state.done, NameOf[state.rest[i]])}
  OBVIOUS
<1>2. PICK placed : placed = PlaceBest(state)
  OBVIOUS
<1>3. state.done \in Seq(Backend) /\ state.rest \in Seq(Backend) /\ k \in Nat
  <2>1. Placing(state.done, state.rest, list, k)
    BY DEF Standing
  <2> QED  BY <2>1 DEF Placing
<1>4. CASE fits # {}
  <2>1. fits \in SUBSET Nat
    BY <1>1, <1>3
  <2>2. PICK i : i = Min(fits)
    OBVIOUS
  <2>3. i \in fits
    BY <1>4, <2>1, <2>2, LeastIs
  <2>4. /\ placed.done = Append(state.done, state.rest[i])
        /\ placed.rest = RemoveAt(state.rest, i)
    BY <1>1, <1>2, <1>4, <2>2 DEF PlaceBest
  <2>5. i \in DOMAIN state.rest /\ CanPlace(state.done, NameOf[state.rest[i]])
    BY <1>1, <2>3
  <2> QED  BY <1>2, <2>4, <2>5, PlacedStands
<1>5. CASE fits = {}
  <2>1. placed.done = state.done \o state.rest /\ placed.rest = <<>>
    BY <1>1, <1>2, <1>5 DEF PlaceBest
  <2>2. CASE state.rest # <<>>
    <3>1. \A i \in DOMAIN state.rest : ~CanPlace(state.done, NameOf[state.rest[i]])
      BY <1>1, <1>5
    <3> QED  BY <1>2, <2>1, <2>2, <3>1, TailStands
  <2>3. CASE state.rest = <<>>
    <3>1. state.done \o <<>> = state.done
      BY <1>3, ConcatEmptySeq
    <3>2. placed.done = state.done /\ placed.rest = state.rest
      BY <2>1, <2>3, <3>1
    <3>3. Placing(state.done, <<>>, list, k)
      BY <2>3 DEF Standing
    <3>4. Placing(state.done, <<>>, list, k + 1)
      BY <3>3 DEF Placing
    <3> QED  BY <1>2, <2>3, <3>2, <3>4 DEF Standing
  <2> QED  BY <2>2, <2>3
<1> QED  BY <1>4, <1>5

\* So it stands at the end: all are placed.
LEMMA RoundsStand ==
    ASSUME NEW list \in Seq(Backend)
    PROVE  \A k \in 0..Len(list) : Standing(Rounds(list)[k], list, k)
<1> DEFINE S == {k \in Nat : k <= Len(list) => Standing(Rounds(list)[k], list, k)}
<1>1. Len(list) \in Nat
  OBVIOUS
<1>2. 0 \in S
  BY RoundsAre, StartStands
<1>3. ASSUME NEW k \in Nat, k \in S PROVE k + 1 \in S
  <2> SUFFICES ASSUME k + 1 <= Len(list) PROVE Standing(Rounds(list)[k + 1], list, k + 1)
    OBVIOUS
  <2>1. Standing(Rounds(list)[k], list, k) /\ k \in 0..(Len(list) - 1)
    BY <1>1, <1>3
  <2>2. k + 1 \in 1..Len(list) /\ (k + 1) - 1 = k
    BY <1>1
  <2>3. Rounds(list)[k + 1] = PlaceBest(Rounds(list)[(k + 1) - 1])
    BY <2>2, RoundsAre
  <2> QED  BY <2>1, <2>2, <2>3, PlaceStands
<1>4. Nat \subseteq S
  <2> HIDE DEF S
  <2> QED  BY <1>2, <1>3, Induction
<1> QED  BY <1>1, <1>4

LEMMA InterleavedIs ==
    ASSUME NEW list \in Seq(Backend)
    PROVE  /\ Interleaved(list) \in Seq(Backend)
           /\ Len(Interleaved(list)) = Len(list)
           /\ Range(Interleaved(list)) = Range(list)
           /\ Satisfiable(list) => TailRepeats(Interleaved(list))
           /\ ~Satisfiable(list) => Interleaved(list) = list
<1>1. PICK end : end = Rounds(list)[Len(list)]
  OBVIOUS
<1>2. Len(list) \in Nat /\ Len(list) \in 0..Len(list)
  OBVIOUS
<1>3. Standing(end, list, Len(list))
  BY <1>1, <1>2, RoundsStand
<1>4. PICK done : done = end.done
  OBVIOUS
<1>5. PICK rest : rest = end.rest
  OBVIOUS
<1>6. /\ done \in Seq(Backend) /\ rest \in Seq(Backend)
      /\ Len(done) \in Nat /\ Len(rest) \in Nat
      /\ Len(done) + Len(rest) = Len(list)
      /\ Range(done) \cup Range(rest) = Range(list)
      /\ rest = <<>> \/ Len(rest) = Len(list) - Len(list)
      /\ TailRepeats(done)
  <2>1. Placing(done, rest, list, Len(list))
    BY <1>3, <1>4, <1>5 DEF Standing
  <2> QED  BY <2>1 DEF Placing
<1>7. rest = <<>>
  BY <1>2, <1>6
<1>8. Range(<<>>) = {} /\ Len(<<>>) = 0
  BY DEF Range
<1>9. /\ done \in Seq(Backend) /\ Len(done) = Len(list)
      /\ Range(done) = Range(list) /\ TailRepeats(done)
  <2>1. Len(done) = Len(list)
    BY <1>2, <1>6, <1>7, <1>8
  <2>2. Range(done) = Range(list)
    BY <1>6, <1>7, <1>8
  <2> QED  BY <1>6, <2>1, <2>2
<1> QED  BY <1>1, <1>4, <1>9 DEF Interleaved

-----------------------------------------------------------------------------
LEMMA BackendFinite == IsFiniteSet(Backend)
<1>1. PICK B : B = Backend
  OBVIOUS
<1>2. Backends \in Seq(B) /\ B = Range(Backends)
  BY <1>1, SelectionAssumption DEF Backend
<1>3. Len(Backends) \in Nat /\ DOMAIN Backends = 1..Len(Backends)
  BY <1>2
<1>4. IsFiniteSet(1..Len(Backends))
  BY <1>3, FS_Interval
<1>5. Backends \in Surjection(1..Len(Backends), B)
  BY <1>2, <1>3 DEF Surjection, Range
<1> QED  BY <1>1, <1>4, <1>5, FS_Surjection

\* A list of what is scored has every model of the catalog, once each.
LEMMA ScoredIs ==
    ASSUME NEW list \in Scored
    PROVE  /\ list \in Seq(Backend) /\ Range(list) = InCatalog
           /\ Len(list) = Cardinality(InCatalog)
<1>1. PICK C : C = InCatalog
  OBVIOUS
<1>2. C \subseteq Backend /\ IsFiniteSet(C)
  BY <1>1, BackendFinite, FS_Subset DEF InCatalog
<1>3. PICK n : n = Cardinality(C)
  OBVIOUS
<1>4. n \in Nat
  BY <1>2, <1>3, FS_CardinalityType
<1>5. /\ list \in [1..n -> C]
      /\ \A i, j \in 1..n : i # j => list[i] # list[j]
  BY <1>1, <1>3 DEF Scored, SetToSeqs
<1>6. list \in Injection(1..n, C)
  BY <1>5 DEF Injection, IsInjective
<1>7. Cardinality(1..n) = n
  BY <1>4, FS_Interval
<1>8. list \in Surjection(1..n, C)
  BY <1>2, <1>3, <1>6, <1>7, FS_Injection
<1>9. list \in Seq(Backend) /\ Len(list) = n /\ DOMAIN list = 1..n
  BY <1>2, <1>4, <1>5
<1>10. Range(list) = C
  BY <1>5, <1>8 DEF Surjection, Range
<1> QED  BY <1>1, <1>3, <1>9, <1>10

\* Placing out of order loses nobody, in every step (interleave_providers).
THEOREM ListingTheorem == SelectionSpec => ListingIsWhole
<1> DEFINE Whole ==
       listing' # listing /\ phase = "idle" =>
          Range(listing') = InCatalog /\ Len(listing') = Cardinality(InCatalog)
<1>1. ASSUME [SelectionNext]_selectionVars PROVE [Whole]_selectionVars
  <2> SUFFICES ASSUME listing' # listing, phase = "idle"
               PROVE  Range(listing') = InCatalog /\ Len(listing') = Cardinality(InCatalog)
    OBVIOUS
  <2>1. SelectModels
    BY <1>1 DEF SelectionNext, Submit, Rank, Return, Surroundings, UsageChanges,
       HealthChanges, StatusChanges, SpendChanges, CatalogChanges, Change, choice,
       selectionVars
  <2>2. PICK list \in Scored : listing' = Interleaved(list)
    BY <2>1 DEF SelectModels
  <2> QED  BY <2>2, ScoredIs, InterleavedIs
<1> QED  BY <1>1, PTL DEF SelectionSpec, ListingIsWhole

LEMMA TailIs == OnlyTheTailRepeats <=> (Satisfiable(listing) => TailRepeats(listing))
  BY DEF OnlyTheTailRepeats, TailRepeats

LEMMA EmptyTail == TailRepeats(<<>>)
  BY SelectionAssumption DEF TailRepeats

\* Where the counts allow it, only the last provider may come more than MaxConsecutive
\* times in a row, for every list, allotment of providers and limit.
THEOREM TailTheorem == SelectionSpec => []OnlyTheTailRepeats
<1> DEFINE Tailed == Satisfiable(listing) => TailRepeats(listing)
<1>1. SelectionInit => Tailed
  BY EmptyTail DEF SelectionInit
<1>2. ASSUME Tailed, [SelectionNext]_selectionVars PROVE Tailed'
  <2>1. CASE SelectModels
    <3>1. PICK list \in Scored : listing' = Interleaved(list)
      BY <2>1 DEF SelectModels
    <3>2. list \in Seq(Backend)
      BY <3>1, ScoredIs
    <3>3. Satisfiable(list) => TailRepeats(listing')
      BY <3>1, <3>2, InterleavedIs
    <3>4. ~Satisfiable(list) => listing' = list
      BY <3>1, <3>2, InterleavedIs
    <3>5. Satisfiable(listing') => TailRepeats(listing')
      BY <3>3, <3>4
    <3> QED  BY <3>5
  <2>2. CASE Return
    BY <2>2, EmptyTail DEF Return
  <2>3. CASE UNCHANGED listing
    BY <1>2, <2>3
  <2> QED  BY <1>2, <2>1, <2>2, <2>3
           DEF SelectionNext, Submit, Rank, Surroundings, UsageChanges, HealthChanges,
               StatusChanges, SpendChanges, CatalogChanges, Change, choice, selectionVars
<1>3. Tailed => OnlyTheTailRepeats
  BY TailIs
<1> QED  BY <1>1, <1>2, <1>3, PTL DEF SelectionSpec
=============================================================================
