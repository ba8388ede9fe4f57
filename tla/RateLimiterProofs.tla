-------------------------- MODULE RateLimiterProofs --------------------------
(***************************************************************************)
(* Proofs that the processes together never have more slots of a key       *)
(* younger than the TTL than the limit of the key, and that a slot in use  *)
(* is counted for its whole TTL, for any number of processes, keys and     *)
(* slots, any limits, and any bound on how late an acquire's clock is.     *)
(*                                                                         *)
(* The argument: a clock that lies behind sees rows younger than they are, *)
(* so an acquire counts every slot that is live when its transaction runs  *)
(* (LiveIsCounted), and prunes none of them.                               *)
(***************************************************************************)
EXTENDS RateLimiter, FiniteSetTheorems, TLAPS

LiveOf(k) == {s \in RowsOf(k) : Live(s)}

\* The rows that acquire's SELECT counts for a clock that lies d behind.
Counted(k, d) == {s \in RowsOf(k) : ~Expired(s, d) /\ row[s].age - d < Window}

\* No slot is granted twice while it is in use.
SlotsAreOwned ==
    \A p, q \in Processes : p # q => using[p] \cap using[q] = {}

IInv == TypeOK /\ LiveWithinLimit /\ SlotsAreOwned

-----------------------------------------------------------------------------
(* The bounds on ages are natural numbers.                                 *)
LEMMA Bounds ==
    /\ MaxAge \in Nat /\ MaxDelay \in Nat /\ MaxDelay <= MaxAge
    /\ SlotTtl \in Nat /\ Window \in Nat /\ SlotTtl <= Window
BY LimiterAssumption DEF MaxAge

(* A row has a natural age.                                                *)
LEMMA RowAge ==
    ASSUME TypeOK, NEW s \in Slots
    PROVE  row[s].age \in Nat
BY Bounds DEF TypeOK, Rows, NoRow

(* Sets of slots are finite.                                               *)
LEMMA SlotSets ==
    ASSUME NEW S \in SUBSET Slots, NEW T \in SUBSET S
    PROVE  /\ IsFiniteSet(S) /\ Cardinality(S) \in Nat
           /\ IsFiniteSet(T) /\ Cardinality(T) \in Nat
           /\ Cardinality(T) <= Cardinality(S)
<1>1. IsFiniteSet(S)
  BY FS_Subset, LimiterAssumption
<1>2. IsFiniteSet(T) /\ Cardinality(T) <= Cardinality(S)
  BY <1>1, FS_Subset
<1>3. QED  BY <1>1, <1>2, FS_CardinalityType

(* A clock that lies behind counts every live slot of the key and prunes   *)
(* none (acquire, _prune_expired).                                         *)
LEMMA LiveIsCounted ==
    ASSUME TypeOK, NEW k \in Keys, NEW d \in Nat
    PROVE  /\ LiveOf(k) \subseteq Counted(k, d)
           /\ \A s \in Slots : Live(s) => ~Expired(s, d)
<1>1. ASSUME NEW s \in Slots, Live(s)
      PROVE  ~Expired(s, d) /\ row[s].age - d < Window
  BY <1>1, RowAge, Bounds DEF Live, Expired
<1>2. QED  BY <1>1 DEF LiveOf, Counted, RowsOf

(* The age of the clock of an acquire that is waiting is within its bound. *)
LEMMA Asking ==
    ASSUME TypeOK, NEW p \in Processes, ~Idle(p)
    PROVE  asking[p].key \in Keys /\ asking[p].delay \in 0 .. MaxDelay
BY DEF TypeOK, Idle

-----------------------------------------------------------------------------
(* No new live slots of a key: its count can only fall.                    *)
LEMMA FewerLive ==
    ASSUME LiveWithinLimit, NEW k \in Keys, Limit[k] # Unlimited, LiveOf(k)' \subseteq LiveOf(k)
    PROVE  Cardinality(LiveOf(k))' <= Limit[k]
<1>1. LiveOf(k) \subseteq Slots /\ Cardinality(LiveOf(k)) <= Limit[k]
  BY DEF LiveOf, RowsOf, LiveWithinLimit
<1>2. /\ Cardinality(LiveOf(k)) \in Nat
      /\ Cardinality(LiveOf(k))' \in Nat
      /\ Cardinality(LiveOf(k))' <= Cardinality(LiveOf(k))
  BY <1>1, SlotSets
<1>3. QED  BY <1>1, <1>2, LimiterAssumption

(* The limit holds after a step that adds no live slot to any key.         *)
LEMMA NoneAdded ==
    ASSUME IInv, \A k \in Keys : LiveOf(k)' \subseteq LiveOf(k)
    PROVE  LiveWithinLimit'
<1>1. ASSUME NEW k \in Keys, Limit[k] # Unlimited
      PROVE  Cardinality(LiveOf(k))' <= Limit[k]
  BY <1>1, FewerLive DEF IInv
<1>2. QED  BY <1>1 DEF LiveWithinLimit, LiveOf

(* At the start there are no rows.                                         *)
LEMMA InitIInv == Init => IInv
<1> SUFFICES ASSUME Init PROVE IInv
  OBVIOUS
<1>1. TypeOK  BY DEF Init, TypeOK, Rows
<1>2. \A k \in Keys : {s \in RowsOf(k) : Live(s)} = {}
  BY DEF Init, RowsOf, Live
<1>3. LiveWithinLimit
  BY <1>2, FS_EmptySet, LimiterAssumption DEF LiveWithinLimit
<1>4. SlotsAreOwned  BY DEF Init, SlotsAreOwned
<1>5. QED  BY <1>1, <1>3, <1>4 DEF IInv

(* acquire that finds room.                                                *)
LEMMA GrantStep ==
    ASSUME IInv, NEW p \in Processes, NEW n \in Slots, Grant(p, n)
    PROVE  IInv'
<1>0. PICK k \in Keys, d \in 0 .. MaxDelay : k = asking[p].key /\ d = asking[p].delay
  BY Asking DEF Grant, IInv
<1>1. d \in Nat /\ NewRow(k, d) \in Rows
  BY Bounds DEF NewRow, Rows
<1>2. /\ HasRoom(k, d)
      /\ row' = [t \in Slots |-> IF t = n THEN NewRow(k, d)
                                 ELSE IF Expired(t, d) THEN NoRow ELSE row[t]]
      /\ using' = [using EXCEPT ![p] = @ \cup {n}]
      /\ asking' = [asking EXCEPT ![p] = NotAsking]
  BY <1>0 DEF Grant
<1>3. TypeOK'
  <2>1. row' \in [Slots -> Rows]
    BY <1>1, <1>2 DEF IInv, TypeOK, Rows
  <2>2. asking' \in [Processes -> {NotAsking} \cup [key : Keys, delay : 0 .. MaxDelay]]
    BY <1>2 DEF IInv, TypeOK
  <2>3. using' \in [Processes -> SUBSET Slots]
    BY <1>2 DEF IInv, TypeOK
  <2>4. QED  BY <2>1, <2>2, <2>3 DEF TypeOK
<1>4. \A t \in Slots : t # n /\ Live(t)' => Live(t) /\ row'[t] = row[t]
  BY <1>2 DEF Live
<1>5. ASSUME NEW j \in Keys, j # k PROVE LiveOf(j)' \subseteq LiveOf(j)
  <2>1. row'[n].key = k
    BY <1>2 DEF NewRow
  <2>2. QED  BY <1>4, <1>5, <2>1 DEF LiveOf, RowsOf
<1>6. LiveOf(k)' \subseteq Counted(k, d) \cup {n}
  <2>1. ASSUME NEW t \in LiveOf(k)', t # n PROVE t \in LiveOf(k)
    BY <1>4, <2>1 DEF LiveOf, RowsOf
  <2>2. LiveOf(k) \subseteq Counted(k, d)
    BY <1>1, LiveIsCounted DEF IInv
  <2>3. QED  BY <2>1, <2>2
<1>7. ASSUME Limit[k] # Unlimited PROVE Cardinality(LiveOf(k))' <= Limit[k]
  <2>1. Cardinality(Counted(k, d)) < Limit[k]
    BY <1>2, <1>7 DEF HasRoom, Counted
  <2>2. /\ IsFiniteSet(Counted(k, d)) /\ Cardinality(Counted(k, d)) \in Nat
        /\ Counted(k, d) \subseteq Slots
    BY SlotSets DEF Counted, RowsOf
  <2>3. Cardinality(Counted(k, d) \cup {n}) <= Cardinality(Counted(k, d)) + 1
    <3>1. Cardinality(Counted(k, d) \cup {n}) =
            IF n \in Counted(k, d) THEN Cardinality(Counted(k, d)) ELSE Cardinality(Counted(k, d)) + 1
      BY <2>2, FS_AddElement
    <3>2. QED  BY <2>2, <3>1
  <2>4. /\ Cardinality(LiveOf(k))' \in Nat
        /\ Cardinality(Counted(k, d) \cup {n}) \in Nat
        /\ Cardinality(LiveOf(k))' <= Cardinality(Counted(k, d) \cup {n})
    BY <1>6, <2>2, SlotSets
  <2>5. QED  BY <1>1, <2>1, <2>2, <2>3, <2>4, LimiterAssumption
<1>8. LiveWithinLimit'
  <2>1. ASSUME NEW j \in Keys, Limit[j] # Unlimited PROVE Cardinality(LiveOf(j))' <= Limit[j]
    <3>1. CASE j = k
      BY <1>7, <2>1, <3>1
    <3>2. CASE j # k
      BY <1>5, <2>1, <3>2, FewerLive DEF IInv
    <3>3. QED  BY <3>1, <3>2
  <2>2. QED  BY <2>1 DEF LiveWithinLimit, LiveOf
<1>9. SlotsAreOwned'
  BY <1>2 DEF IInv, TypeOK, SlotsAreOwned, Grant, Fresh
<1>10. QED  BY <1>3, <1>8, <1>9 DEF IInv

(* Steps that insert nothing: a denied acquire, release and time.          *)
LEMMA OtherSteps ==
    ASSUME IInv,
           \/ \E p \in Processes :
                 \/ \E k \in Keys : Ask(p, k)
                 \/ Deny(p) \/ GiveUp(p) \/ Crash(p)
                 \/ \E s \in Slots : Release(p, s)
           \/ Tick
           \/ UNCHANGED vars
    PROVE  IInv'
<1> USE DEF IInv
<1>1. ASSUME NEW p \in Processes, NEW k \in Keys, Ask(p, k) PROVE IInv'
  <2>1. TypeOK'  BY <1>1, Bounds DEF TypeOK, Ask
  <2>2. LiveWithinLimit'  BY <1>1, NoneAdded DEF Ask, LiveOf, RowsOf, Live
  <2>3. QED  BY <1>1, <2>1, <2>2 DEF Ask, SlotsAreOwned
<1>2. ASSUME NEW p \in Processes, Deny(p) PROVE IInv'
  <2>1. TypeOK'  BY <1>2 DEF TypeOK, Deny, Rows
  <2>2. ASSUME NEW t \in Slots, Live(t)' PROVE Live(t) /\ row'[t] = row[t]
    BY <1>2, <2>2 DEF Deny, Live
  <2>3. \A k \in Keys : LiveOf(k)' \subseteq LiveOf(k)
    BY <2>2 DEF LiveOf, RowsOf
  <2>4. QED  BY <1>2, <2>1, <2>3, NoneAdded DEF Deny, SlotsAreOwned
<1>3. ASSUME NEW p \in Processes, GiveUp(p) \/ Crash(p) PROVE IInv'
  <2>1. TypeOK'  BY <1>3 DEF TypeOK, GiveUp, Crash
  <2>2. LiveWithinLimit'  BY <1>3, NoneAdded DEF GiveUp, Crash, LiveOf, RowsOf, Live
  <2>3. SlotsAreOwned'  BY <1>3 DEF GiveUp, Crash, TypeOK, SlotsAreOwned
  <2>4. QED  BY <2>1, <2>2, <2>3
<1>4. ASSUME NEW p \in Processes, NEW s \in Slots, Release(p, s) PROVE IInv'
  <2>1. TypeOK'  BY <1>4 DEF TypeOK, Release, Rows
  <2>2. ASSUME NEW t \in Slots, Live(t)' PROVE Live(t) /\ row'[t] = row[t]
    BY <1>4, <2>2 DEF Release, Live, TypeOK
  <2>3. \A k \in Keys : LiveOf(k)' \subseteq LiveOf(k)
    BY <2>2 DEF LiveOf, RowsOf
  <2>4. SlotsAreOwned'  BY <1>4 DEF Release, TypeOK, SlotsAreOwned
  <2>5. QED  BY <2>1, <2>3, <2>4, NoneAdded
<1>5. CASE Tick
  <2>1. ASSUME NEW t \in Slots
        PROVE  /\ row'[t] \in Rows
               /\ row'[t].key = row[t].key
               /\ Live(t)' => Live(t)
    <3>1. \/ row'[t] = row[t]
          \/ row[t] # NoRow /\ row[t].age # MaxAge /\ row'[t] = [row[t] EXCEPT !.age = @ + 1]
      BY <1>5 DEF Tick
    <3>2. CASE row'[t] = row[t]
      BY <3>2 DEF TypeOK, Live
    <3>3. CASE row[t] # NoRow /\ row[t].age # MaxAge /\ row'[t] = [row[t] EXCEPT !.age = @ + 1]
      <4>1. row[t] \in [key : Keys, age : 0 .. MaxAge]
        BY <3>3 DEF TypeOK, Rows
      <4>2. row'[t].key = row[t].key /\ row'[t].age = row[t].age + 1
        BY <3>3, <4>1
      <4>3. row'[t] \in [key : Keys, age : 0 .. MaxAge]
        BY <3>3, <4>1, Bounds
      <4>4. Live(t)' => Live(t)
        BY <3>3, <4>1, <4>2, Bounds DEF Live
      <4>5. QED  BY <4>2, <4>3, <4>4 DEF Rows
    <3>4. QED  BY <3>1, <3>2, <3>3
  <2>2. TypeOK'
    <3>1. row' \in [Slots -> Rows]
      BY <1>5, <2>1 DEF Tick
    <3>2. asking' \in [Processes -> {NotAsking} \cup [key : Keys, delay : 0 .. MaxDelay]]
      <4>1. ASSUME NEW p \in Processes, ~Idle(p)
            PROVE  [asking[p] EXCEPT !.delay = @ + 1] \in [key : Keys, delay : 0 .. MaxDelay]
        <5>1. asking[p] \in [key : Keys, delay : 0 .. MaxDelay] /\ asking[p].delay < MaxDelay
          BY <1>5, <4>1 DEF TypeOK, Idle, Tick
        <5>2. QED  BY <5>1, Bounds
      <4>2. QED  BY <1>5, <4>1 DEF Tick
    <3>3. QED  BY <1>5, <3>1, <3>2 DEF TypeOK, Tick
  <2>3. \A k \in Keys : LiveOf(k)' \subseteq LiveOf(k)
    BY <2>1 DEF LiveOf, RowsOf
  <2>4. QED  BY <1>5, <2>2, <2>3, NoneAdded DEF Tick, SlotsAreOwned
<1>6. CASE UNCHANGED vars
  <2>1. TypeOK'  BY <1>6 DEF TypeOK, vars
  <2>2. LiveWithinLimit'  BY <1>6, NoneAdded DEF vars, LiveOf, RowsOf, Live
  <2>3. QED  BY <1>6, <2>1, <2>2 DEF vars, SlotsAreOwned
<1>7. QED  BY <1>1, <1>2, <1>3, <1>4, <1>5, <1>6

(* Every step keeps the types and the limit.                               *)
LEMMA NextIInv == IInv /\ [Next]_vars => IInv'
BY GrantStep, OtherSteps DEF Next, Decide

THEOREM Invariance == Spec => []IInv
BY InitIInv, NextIInv, PTL DEF Spec

-----------------------------------------------------------------------------
(* Rows and pending acquires keep their type.                              *)
THEOREM TypeCorrect == Spec => []TypeOK
<1>1. IInv => TypeOK  BY DEF IInv
<1>2. QED  BY <1>1, Invariance, PTL

(* Slots of a key younger than the TTL never exceed its limit (acquire).   *)
THEOREM LimitTheorem == Spec => []LiveWithinLimit
<1>1. IInv => LiveWithinLimit  BY DEF IInv
<1>2. QED  BY <1>1, Invariance, PTL

(* A slot in use keeps its row for its whole TTL (acquire, release).       *)
THEOREM UsedTheorem == Spec => UsedIsCounted
<1>1. ASSUME IInv, [Next]_vars, NEW q \in Processes, NEW s \in Slots,
             s \in using[q], Live(s), s \in using'[q]
      PROVE  row'[s] # NoRow
  <2>1. row[s] # NoRow /\ s \in Slots /\ TypeOK
    BY <1>1 DEF Live, IInv
  <2>2. ASSUME NEW p \in Processes, NEW n \in Slots, Grant(p, n) PROVE row'[s] # NoRow
    <3>1. asking[p].key \in Keys /\ asking[p].delay \in Nat
      BY <2>1, <2>2, Asking, Bounds DEF Grant
    <3>2. n # s
      BY <1>1, <2>2 DEF Grant, Fresh
    <3>3. ~Expired(s, asking[p].delay)
      BY <1>1, <2>1, <3>1, LiveIsCounted
    <3>4. QED  BY <2>1, <2>2, <3>2, <3>3 DEF Grant
  <2>3. ASSUME NEW p \in Processes, Deny(p) PROVE row'[s] # NoRow
    <3>1. asking[p].key \in Keys /\ asking[p].delay \in Nat
      BY <2>1, <2>3, Asking, Bounds DEF Deny
    <3>2. ~Expired(s, asking[p].delay)
      BY <1>1, <2>1, <3>1, LiveIsCounted
    <3>3. QED  BY <2>1, <2>3, <3>2 DEF Deny
  <2>4. ASSUME NEW p \in Processes, NEW t \in Slots, Release(p, t), t # s PROVE row'[s] # NoRow
    BY <2>1, <2>4 DEF Release, TypeOK
  <2>5. CASE Tick
    <3>1. row'[s] = row[s] \/ row'[s] = [row[s] EXCEPT !.age = @ + 1]
      BY <2>1, <2>5 DEF Tick
    <3>2. row[s] \in [key : Keys, age : 0 .. MaxAge]
      BY <2>1 DEF TypeOK, Rows
    <3>3. "none" \notin Keys /\ NoRow.key = "none"
      BY LimiterAssumption DEF NoRow
    <3>4. row'[s].key = row[s].key
      BY <3>1, <3>2
    <3>5. QED  BY <3>2, <3>3, <3>4
  <2>6. ~ \E p \in Processes : Release(p, s)
    <3>1. ASSUME NEW p \in Processes, Release(p, s) PROVE FALSE
      <4>1. s \in using[p] /\ using' = [using EXCEPT ![p] = @ \ {s}]
        BY <3>1 DEF Release
      <4>2. p = q
        BY <1>1, <4>1 DEF IInv, SlotsAreOwned
      <4>3. s \notin using'[q]
        BY <2>1, <4>1, <4>2 DEF TypeOK
      <4>4. QED  BY <1>1, <4>3
    <3>2. QED  BY <3>1
  <2>7. CASE row' = row
    BY <2>1, <2>7
  <2>8. \/ row' = row \/ Tick
        \/ \E p \in Processes, n \in Slots : Grant(p, n) \/ Release(p, n)
        \/ \E p \in Processes : Deny(p)
    BY <1>1 DEF Next, Decide, Ask, GiveUp, Crash, vars
  <2>9. QED  BY <2>2, <2>3, <2>4, <2>5, <2>6, <2>7, <2>8
<1>2. IInv /\ [Next]_vars => [KeepsUsedRows]_vars
  BY <1>1 DEF KeepsUsedRows
<1>3. QED  BY <1>2, Invariance, PTL DEF Spec, UsedIsCounted
=============================================================================
