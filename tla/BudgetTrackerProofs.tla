------------------------- MODULE BudgetTrackerProofs -------------------------
(***************************************************************************)
(* Proofs that the reservations of a provider stay within its limits, that *)
(* nothing overshoots a limit but what is in flight, and that the count of *)
(* the day is exactly what was recorded since midnight, for any number of  *)
(* callers and any limits.                                                 *)
(*                                                                         *)
(* The argument: the rows of the day gain one with every insert and lose   *)
(* none to a cleanup, which takes only rows older than a day; all of them  *)
(* leave the day together at midnight.  A reservation counts every         *)
(* reservation of the window, in the transaction that adds it.             *)
(* What is pending never exceeds one dispatch of every caller, so whoever  *)
(* passes a gate restores the bound, and a request recorded uses up an     *)
(* attempt that was pending.                                               *)
(***************************************************************************)
EXTENDS BudgetTracker, FiniteSetTheorems, TLAPS

ReservedIn(rows) == rows \cap Reserved

DataOK ==
    /\ log \in [Rows -> Entries]
    /\ sinceMidnight \in 0 .. Day - 1
    /\ sinceCleanup \in [Callers -> 0 .. CleanupEvery - 1]

\* A caller has attempts left exactly while it calls, and a pinned one has one.
CallersOK ==
    /\ caller \in [Callers -> [at : {"idle", "cleared", "calling"}, left : 0 .. MaxAttempts]]
    /\ \A c \in Callers : caller[c].at = "calling" <=> caller[c].left # 0
    /\ \A c \in Pinned : caller[c].left <= 1

IInv ==
    /\ DataOK /\ CallersOK /\ DayIsComplete
    /\ ReservationsWithinLimits /\ OvershootIsBounded

-----------------------------------------------------------------------------
(* The spans of time are natural numbers.                                  *)
LEMMA Spans ==
    /\ Window \in Nat \ {0} /\ Day \in Nat \ {0} /\ Window <= Day
    /\ MaxAge \in Nat /\ MaxAge = Day + 1
    /\ CleanupEvery \in Nat \ {0} /\ MaxAttempts \in Nat \ {0}
BY BudgetAssumption DEF MaxAge

(* A row has a natural age.                                                *)
LEMMA RowAge ==
    ASSUME DataOK, NEW r \in Rows
    PROVE  log[r].age \in 0 .. MaxAge
BY Spans DEF DataOK, Entries, NoRow

(* Sets of rows are finite.                                                *)
LEMMA RowSets ==
    ASSUME NEW S \in SUBSET Rows, NEW T \in SUBSET S
    PROVE  /\ IsFiniteSet(S) /\ Cardinality(S) \in Nat
           /\ IsFiniteSet(T) /\ Cardinality(T) \in Nat
           /\ Cardinality(T) <= Cardinality(S)
<1>1. IsFiniteSet(S)
  BY FS_Subset, BudgetAssumption
<1>2. IsFiniteSet(T) /\ Cardinality(T) <= Cardinality(S)
  BY <1>1, FS_Subset
<1>3. QED  BY <1>1, <1>2, FS_CardinalityType

(* Limits are integers.                                                    *)
LEMMA LimitTypes ==
    /\ RpmLimit \in Nat /\ TpmLimit \in Nat /\ DailyTokenCap \in Nat /\ MaxTokens \in Nat
    /\ RpdLimit \in Int /\ (RpdLimit # None => RpdLimit \in Nat)
BY BudgetAssumption DEF None

(* No new reservations in the window and the day keep their limits.        *)
LEMMA NoneReserved ==
    ASSUME ReservationsWithinLimits,
           ReservedIn(InWindow)' \subseteq ReservedIn(InWindow),
           ReservedIn(InDay)' \subseteq ReservedIn(InDay)
    PROVE  ReservationsWithinLimits'
<1>1. ReservedIn(InWindow) \subseteq Rows /\ ReservedIn(InDay) \subseteq Rows
  BY DEF ReservedIn, Reserved, Logged
<1>2. /\ Cardinality(ReservedIn(InWindow)) \in Nat /\ Cardinality(ReservedIn(InWindow)') \in Nat
      /\ Cardinality(ReservedIn(InWindow)') <= Cardinality(ReservedIn(InWindow))
  BY <1>1, RowSets
<1>3. /\ Cardinality(ReservedIn(InDay)) \in Nat /\ Cardinality(ReservedIn(InDay)') \in Nat
      /\ Cardinality(ReservedIn(InDay)') <= Cardinality(ReservedIn(InDay))
  BY <1>1, RowSets
<1>4. RpmLimit # Off => Cardinality(ReservedIn(InWindow)') <= RpmLimit
  BY <1>2, LimitTypes DEF ReservationsWithinLimits, ReservedIn
<1>5. RpdLimit \notin {None, 0} => Cardinality(ReservedIn(InDay)') <= RpdLimit
  BY <1>3, LimitTypes DEF ReservationsWithinLimits, ReservedIn
<1>6. QED  BY <1>4, <1>5 DEF ReservationsWithinLimits, ReservedIn

-----------------------------------------------------------------------------
(* What counts and what is pending, one by one.                            *)

TokenPairs(rows) == {t \in rows \X (1 .. MaxTokens) : t[2] <= log[t[1]].tokens}

(* The first n numbers.                                                    *)
LEMMA UpTo ==
    ASSUME NEW n \in Nat
    PROVE  IsFiniteSet(1 .. n) /\ Cardinality(1 .. n) = n
<1>1. 1 \in Int /\ n \in Int  OBVIOUS
<1>2. /\ IsFiniteSet(1 .. n)
      /\ Cardinality(1 .. n) = IF 1 > n THEN 0 ELSE n - 1 + 1
  BY <1>1, FS_Interval
<1>3. QED  BY <1>2

(* Every count is a natural number.                                        *)
LEMMA Counts ==
    ASSUME NEW S \in SUBSET Rows
    PROVE  /\ IsFiniteSet(S \X (1 .. MaxTokens))
           /\ \A T \in SUBSET (S \X (1 .. MaxTokens)) :
                 IsFiniteSet(T) /\ Cardinality(T) \in Nat
           /\ TokensOf(S) = Cardinality(TokenPairs(S)) /\ TokensOf(S) \in Nat
<1>1. IsFiniteSet(S) /\ IsFiniteSet(1 .. MaxTokens)
  BY RowSets, BudgetAssumption, FS_Interval
<1>2. IsFiniteSet(S \X (1 .. MaxTokens))
  BY <1>1, FS_Product
<1>3. \A T \in SUBSET (S \X (1 .. MaxTokens)) : IsFiniteSet(T) /\ Cardinality(T) \in Nat
  BY <1>2, FS_Subset, FS_CardinalityType
<1>4. TokenPairs(S) \in SUBSET (S \X (1 .. MaxTokens))
  BY DEF TokenPairs
<1>5. QED  BY <1>2, <1>3, <1>4 DEF TokensOf, TokenPairs

LEMMA Counted ==
    /\ InWindow \in SUBSET Rows /\ InDay \in SUBSET Rows
    /\ Cardinality(InWindow) \in Nat /\ Cardinality(InDay) \in Nat
    /\ TokensOf(InWindow) \in Nat /\ TokensOf(InDay) \in Nat
<1>1. InWindow \in SUBSET Rows /\ InDay \in SUBSET Rows
  BY DEF InWindow, InDay, Logged
<1>2. QED  BY <1>1, RowSets, Counts

(* The attempts that callers may have are finitely many, and no more than  *)
(* a chain for each cascading caller and one for each pinned one.          *)
LEMMA AttemptsFinite ==
    \A A \in SUBSET (Callers \X (1 .. MaxAttempts)) : IsFiniteSet(A) /\ Cardinality(A) \in Nat
<1>1. IsFiniteSet(Callers) /\ IsFiniteSet(1 .. MaxAttempts)
  BY Spans, BudgetAssumption, FS_Interval
<1>2. IsFiniteSet(Callers \X (1 .. MaxAttempts))
  BY <1>1, FS_Product
<1>3. QED  BY <1>2, FS_Subset, FS_CardinalityType

LEMMA PendingFits ==
    ASSUME NEW f, \A c \in Callers : f[c].left \in Nat, \A c \in Pinned : f[c].left <= 1
    PROVE  /\ InFlight \in Nat
           /\ Cardinality({a \in Callers \X (1 .. MaxAttempts) : a[2] <= f[a[1]].left}) <= InFlight
<1> DEFINE A == {a \in Callers \X (1 .. MaxAttempts) : a[2] <= f[a[1]].left}
           C == Cascading \X (1 .. MaxAttempts)
           P == Pinned \X (1 .. 1)
<1>1. /\ IsFiniteSet(Cascading) /\ Cardinality(Cascading) \in Nat
      /\ IsFiniteSet(Pinned) /\ Cardinality(Pinned) \in Nat
  <2>1. Cascading \subseteq Callers /\ Pinned \subseteq Callers  BY DEF Callers
  <2>2. QED  BY <2>1, BudgetAssumption, FS_Subset, FS_CardinalityType
<1>2. /\ IsFiniteSet(1 .. MaxAttempts) /\ Cardinality(1 .. MaxAttempts) = MaxAttempts
      /\ IsFiniteSet(1 .. 1) /\ Cardinality(1 .. 1) = 1
  BY UpTo, Spans
<1>3. /\ IsFiniteSet(C) /\ Cardinality(C) = Cardinality(Cascading) * MaxAttempts
      /\ IsFiniteSet(P) /\ Cardinality(P) = Cardinality(Pinned)
  <2>1. IsFiniteSet(C) /\ Cardinality(C) = Cardinality(Cascading) * Cardinality(1 .. MaxAttempts)
    BY <1>1, <1>2, FS_Product
  <2>2. IsFiniteSet(P) /\ Cardinality(P) = Cardinality(Pinned) * Cardinality(1 .. 1)
    BY <1>1, <1>2, FS_Product
  <2>3. QED  BY <1>1, <1>2, <2>1, <2>2
<1>4. /\ IsFiniteSet(C \cup P)
      /\ Cardinality(C \cup P)
            = Cardinality(C) + Cardinality(P) - Cardinality(C \cap P)
      /\ Cardinality(C \cap P) \in Nat
  <2>1. IsFiniteSet(C \cap P)
    <3>1. C \cap P \subseteq C  OBVIOUS
    <3>2. QED  BY <1>3, <3>1, FS_Subset
  <2>2. QED  BY <1>3, <2>1, FS_Union, FS_CardinalityType
<1>5. A \subseteq C \cup P
  <2> SUFFICES ASSUME NEW c \in Callers, NEW n \in 1 .. MaxAttempts, n <= f[c].left
               PROVE  <<c, n>> \in C \cup P
    OBVIOUS
  <2>1. CASE c \in Cascading  BY <2>1
  <2>2. CASE c \in Pinned  BY <2>2, Spans
  <2>3. QED  BY <2>1, <2>2 DEF Callers
<1>6. Cardinality(A) <= Cardinality(C \cup P)
  BY <1>4, <1>5, FS_Subset
<1>7. Cardinality(A) \in Nat /\ InFlight = Cardinality(C) + Cardinality(P)
      /\ Cardinality(C) \in Nat /\ Cardinality(P) \in Nat
  <2>1. Cardinality(A) \in Nat  BY AttemptsFinite
  <2>2. Cardinality(C) \in Nat /\ Cardinality(P) \in Nat  BY <1>3, FS_CardinalityType
  <2>3. InFlight = Cardinality(C) + Cardinality(P)
    BY <1>1, <1>3, Spans DEF InFlight
  <2>4. QED  BY <2>1, <2>2, <2>3
<1>8. QED  BY <1>4, <1>6, <1>7

(* A caller that gives up an attempt leaves one less pending.              *)
LEMMA PendingStep ==
    ASSUME CallersOK, NEW c \in Callers, NEW at, NEW left \in 0 .. MaxAttempts,
           GoTo(c, at, left), left <= caller[c].left
    PROVE  /\ Pending \in Nat /\ Pending' \in Nat /\ Pending' <= Pending
           /\ left # caller[c].left => Pending' <= Pending - 1
<1>1. /\ \A d \in Callers : caller'[d].left = IF d = c THEN left ELSE caller[d].left
      /\ \A d \in Callers : caller[d].left \in 0 .. MaxAttempts
  BY DEF CallersOK, GoTo
<1>2. Attempts \in SUBSET (Callers \X (1 .. MaxAttempts))
      /\ Attempts' \in SUBSET (Callers \X (1 .. MaxAttempts))
  BY DEF Attempts
<1>3. IsFiniteSet(Attempts) /\ Pending \in Nat /\ Pending' \in Nat
  BY <1>2, AttemptsFinite DEF Pending
<1>4. Attempts' \subseteq Attempts
  <2> SUFFICES ASSUME NEW d \in Callers, NEW n \in 1 .. MaxAttempts, n <= caller'[d].left
               PROVE  n <= caller[d].left
    BY DEF Attempts
  <2>1. QED  BY <1>1, Spans
<1>5. Pending' <= Pending
  BY <1>3, <1>4, FS_Subset DEF Pending
<1>6. ASSUME left # caller[c].left PROVE Pending' <= Pending - 1
  <2> DEFINE last == <<c, caller[c].left>>
  <2>1. last \in Attempts  BY <1>1, <1>6, Spans DEF Attempts
  <2>2. last \notin Attempts'  BY <1>1, <1>6 DEF Attempts
  <2> HIDE DEF last
  <2>3. Attempts' \subseteq Attempts \ {last}  BY <1>4, <2>2
  <2>4. /\ IsFiniteSet(Attempts \ {last})
        /\ Cardinality(Attempts \ {last}) = Cardinality(Attempts) - 1
    BY <1>3, <2>1, FS_RemoveElement
  <2>5. Cardinality(Attempts') <= Cardinality(Attempts \ {last})
    BY <2>3, <2>4, FS_Subset
  <2>6. QED  BY <2>4, <2>5 DEF Pending
<1>7. QED  BY <1>3, <1>5, <1>6

-----------------------------------------------------------------------------
(* A step and the rows that count.                                         *)

\* Of the rows that count, all but the new ones did before, with their tokens.
Kept(new) ==
    /\ InWindow' \subseteq InWindow \cup new /\ InDay' \subseteq InDay \cup new
    /\ \A r \in Logged' \ new : log'[r].tokens = log[r].tokens

(* No row more, no token more.                                             *)
LEMMA KeptCounts ==
    ASSUME Kept({})
    PROVE  /\ Cardinality(InWindow') \in Nat /\ Cardinality(InWindow') <= Cardinality(InWindow)
           /\ Cardinality(InDay') \in Nat /\ Cardinality(InDay') <= Cardinality(InDay)
           /\ TokensOf(InWindow)' \in Nat /\ TokensOf(InWindow)' <= TokensOf(InWindow)
           /\ TokensOf(InDay)' \in Nat /\ TokensOf(InDay)' <= TokensOf(InDay)
<1>1. /\ InWindow' \subseteq InWindow /\ InDay' \subseteq InDay
      /\ InWindow' \subseteq Logged' /\ InDay' \subseteq Logged'
      /\ \A r \in Logged' : log'[r].tokens = log[r].tokens
  BY DEF Kept, InWindow, InDay
<1>2. ASSUME NEW old \in SUBSET Rows, NEW now \in SUBSET old, now \subseteq Logged'
      PROVE  LET T == {t \in now \X (1 .. MaxTokens) : t[2] <= log'[t[1]].tokens}
             IN  Cardinality(T) \in Nat /\ Cardinality(T) <= TokensOf(old)
  <2> DEFINE T == {t \in now \X (1 .. MaxTokens) : t[2] <= log'[t[1]].tokens}
  <2>1. T \subseteq TokenPairs(old)
    BY <1>1, <1>2 DEF TokenPairs
  <2>2. IsFiniteSet(TokenPairs(old)) /\ TokensOf(old) = Cardinality(TokenPairs(old))
    BY Counts DEF TokenPairs
  <2>3. QED  BY <2>1, <2>2, FS_Subset, FS_CardinalityType
<1>3. /\ TokensOf(InWindow)' \in Nat /\ TokensOf(InWindow)' <= TokensOf(InWindow)
      /\ TokensOf(InDay)' \in Nat /\ TokensOf(InDay)' <= TokensOf(InDay)
  BY <1>1, <1>2, Counted DEF TokensOf
<1>4. QED  BY <1>1, <1>3, Counted, RowSets

(* One row more, and its tokens.                                           *)
LEMMA InsertCounts ==
    ASSUME NEW row \in Rows, Kept({row}), NEW n \in 0 .. MaxTokens, log'[row].tokens = n
    PROVE  /\ Cardinality(InWindow') \in Nat /\ Cardinality(InWindow') <= Cardinality(InWindow) + 1
           /\ Cardinality(InDay') \in Nat /\ Cardinality(InDay') <= Cardinality(InDay) + 1
           /\ TokensOf(InWindow)' \in Nat /\ TokensOf(InWindow)' <= TokensOf(InWindow) + n
           /\ TokensOf(InDay)' \in Nat /\ TokensOf(InDay)' <= TokensOf(InDay) + n
<1>1. /\ InWindow' \subseteq InWindow \cup {row} /\ InDay' \subseteq InDay \cup {row}
      /\ InWindow' \subseteq Logged' /\ InDay' \subseteq Logged'
      /\ \A r \in Logged' \ {row} : log'[r].tokens = log[r].tokens
  BY DEF Kept, InWindow, InDay
<1>2. ASSUME NEW old \in SUBSET Rows, NEW now, now \subseteq old \cup {row}
      PROVE  Cardinality(now) \in Nat /\ Cardinality(now) <= Cardinality(old) + 1
  <2>1. IsFiniteSet(old) /\ Cardinality(old) \in Nat
    BY RowSets
  <2>2. IsFiniteSet(old \cup {row}) /\ Cardinality(old \cup {row}) \in Nat
        /\ Cardinality(old \cup {row}) <= Cardinality(old) + 1
    <3>1. IsFiniteSet(old \cup {row}) /\ Cardinality(old \cup {row}) \in Nat
      BY <2>1, FS_AddElement, FS_CardinalityType
    <3>2. CASE row \in old
      <4>1. old \cup {row} = old  BY <3>2
      <4>2. QED  BY <2>1, <3>1, <4>1
    <3>3. CASE row \notin old
      <4>1. Cardinality(old \cup {row}) = Cardinality(old) + 1  BY <2>1, <3>3, FS_AddElement
      <4>2. QED  BY <2>1, <3>1, <4>1
    <3>4. QED  BY <3>2, <3>3
  <2>3. Cardinality(now) <= Cardinality(old \cup {row}) /\ Cardinality(now) \in Nat
    BY <1>2, <2>2, FS_Subset, FS_CardinalityType
  <2>4. QED  BY <2>1, <2>2, <2>3
<1>3. ASSUME NEW old \in SUBSET Rows, NEW now, now \subseteq old \cup {row}, now \subseteq Logged'
      PROVE  LET T == {t \in now \X (1 .. MaxTokens) : t[2] <= log'[t[1]].tokens}
             IN  Cardinality(T) \in Nat /\ Cardinality(T) <= TokensOf(old) + n
  <2> DEFINE T == {t \in now \X (1 .. MaxTokens) : t[2] <= log'[t[1]].tokens}
             E == {row} \X (1 .. n)
             O == TokenPairs(old)
  <2>1. T \subseteq O \cup E
    <3> SUFFICES ASSUME NEW r \in now, NEW k \in 1 .. MaxTokens, k <= log'[r].tokens
                 PROVE  <<r, k>> \in O \cup E
      OBVIOUS
    <3>1. CASE r = row  BY <3>1, BudgetAssumption
    <3>2. CASE r # row
      <4>1. r \in old /\ log'[r].tokens = log[r].tokens  BY <1>1, <1>3, <3>2
      <4>2. QED  BY <4>1 DEF TokenPairs
    <3>3. QED  BY <3>1, <3>2
  <2>2. IsFiniteSet(O) /\ TokensOf(old) = Cardinality(O) /\ Cardinality(O) \in Nat
    BY Counts DEF TokenPairs
  <2>3. IsFiniteSet(E) /\ Cardinality(E) = n
    <3>1. IsFiniteSet({row}) /\ Cardinality({row}) = 1  BY FS_Singleton
    <3>2. IsFiniteSet(1 .. n) /\ Cardinality(1 .. n) = n  BY UpTo, LimitTypes
    <3>3. IsFiniteSet(E) /\ Cardinality(E) = Cardinality({row}) * Cardinality(1 .. n)
      BY <3>1, <3>2, FS_Product
    <3>4. QED  BY <3>1, <3>2, <3>3
  <2>4. /\ IsFiniteSet(O \cup E)
        /\ Cardinality(O \cup E) = Cardinality(O) + Cardinality(E) - Cardinality(O \cap E)
        /\ Cardinality(O \cap E) \in Nat
    <3>1. IsFiniteSet(O \cap E)
      <4>1. O \cap E \subseteq E  OBVIOUS
      <4>2. QED  BY <2>3, <4>1, FS_Subset
    <3>2. QED  BY <2>2, <2>3, <3>1, FS_Union, FS_CardinalityType
  <2>5. Cardinality(T) <= Cardinality(O \cup E) /\ Cardinality(T) \in Nat
    <3> HIDE DEF T, O, E
    <3>1. QED  BY <2>1, <2>4, FS_Subset, FS_CardinalityType
  <2> HIDE DEF O, E
  <2>6. Cardinality(T) <= TokensOf(old) + n
    <3> HIDE DEF T
    <3>1. QED  BY <2>2, <2>3, <2>4, <2>5
  <2>7. QED  BY <2>5, <2>6
<1>4. /\ TokensOf(InWindow)' \in Nat /\ TokensOf(InWindow)' <= TokensOf(InWindow) + n
      /\ TokensOf(InDay)' \in Nat /\ TokensOf(InDay)' <= TokensOf(InDay) + n
  BY <1>1, <1>3, Counted DEF TokensOf
<1>5. QED  BY <1>1, <1>2, <1>4, Counted

-----------------------------------------------------------------------------
(* The overshoot, when nothing is added, when an attempt is paid, and when *)
(* a gate has seen room.                                                   *)
LEMMA Weigh ==
    ASSUME NEW w \in Nat, NEW m \in Nat, NEW n \in Nat, NEW p \in Nat, NEW q \in Nat
    PROVE  /\ w * p \in Nat /\ w * q \in Nat
           /\ m <= n /\ q <= p => m + w * q <= n + w * p
           /\ m <= n + w /\ q <= p - 1 => m + w * q <= n + w * p
<1>1. w * p \in Nat /\ w * q \in Nat  OBVIOUS
<1>2. q <= p => w * q <= w * p  OBVIOUS
<1>3. ASSUME q <= p - 1 PROVE w * q <= w * p - w
  <2>1. w * q <= w * (p - 1)  BY <1>3
  <2>2. w * (p - 1) = w * p - w  OBVIOUS
  <2>3. QED  BY <2>1, <2>2
<1>4. QED  BY <1>1, <1>2, <1>3

LEMMA InFlightType == InFlight \in Nat
<1>1. Cascading \subseteq Callers /\ Pinned \subseteq Callers  BY DEF Callers
<1>2. Cardinality(Cascading) \in Nat /\ Cardinality(Pinned) \in Nat
  BY <1>1, BudgetAssumption, FS_Subset, FS_CardinalityType
<1>3. QED  BY <1>2, Spans DEF InFlight

\* Nothing added, or an attempt turned into what it may cost.
LEMMA NoFurther ==
    ASSUME OvershootIsBounded, Pending \in Nat, Pending' \in Nat,
           \/ Kept({}) /\ Pending' <= Pending
           \/ /\ Pending' <= Pending - 1
              /\ \E row \in Rows : Kept({row}) /\ log'[row].tokens \in 0 .. MaxTokens
    PROVE  OvershootIsBounded'
<1> DEFINE M == MaxTokens
<1>1. PICK d \in {0, 1} :
         /\ Pending' <= Pending - d
         /\ Cardinality(InWindow') \in Nat /\ Cardinality(InWindow') <= Cardinality(InWindow) + d
         /\ Cardinality(InDay') \in Nat /\ Cardinality(InDay') <= Cardinality(InDay) + d
         /\ TokensOf(InWindow)' \in Nat /\ TokensOf(InWindow)' <= TokensOf(InWindow) + M * d
         /\ TokensOf(InDay)' \in Nat /\ TokensOf(InDay)' <= TokensOf(InDay) + M * d
  <2>1. CASE Kept({}) /\ Pending' <= Pending
    <3>1. M * 0 = 0  BY LimitTypes
    <3>2. QED  BY <2>1, <3>1, KeptCounts, Counted
  <2>2. CASE /\ Pending' <= Pending - 1
             /\ \E row \in Rows : Kept({row}) /\ log'[row].tokens \in 0 .. MaxTokens
    <3>1. PICK row \in Rows : Kept({row}) /\ log'[row].tokens \in 0 .. MaxTokens
      BY <2>2
    <3>2. M * 1 = M  BY LimitTypes
    <3> DEFINE n == log'[row].tokens
    <3>3. n \in 0 .. M /\ n <= M  BY <3>1, LimitTypes
    <3>4. /\ Cardinality(InWindow') \in Nat /\ Cardinality(InWindow') <= Cardinality(InWindow) + 1
          /\ Cardinality(InDay') \in Nat /\ Cardinality(InDay') <= Cardinality(InDay) + 1
          /\ TokensOf(InWindow)' \in Nat /\ TokensOf(InWindow)' <= TokensOf(InWindow) + n
          /\ TokensOf(InDay)' \in Nat /\ TokensOf(InDay)' <= TokensOf(InDay) + n
      BY <3>1, <3>3, InsertCounts
    <3>5. /\ TokensOf(InWindow)' <= TokensOf(InWindow) + M
          /\ TokensOf(InDay)' <= TokensOf(InDay) + M
      <4> HIDE DEF n
      <4>1. QED  BY <3>3, <3>4, Counted, LimitTypes
    <3>6. QED  BY <2>2, <3>2, <3>4, <3>5
  <2>3. QED  BY <2>1, <2>2
<1>2. /\ Cardinality(InWindow') + Pending' <= Cardinality(InWindow) + Pending
      /\ Cardinality(InDay') + Pending' <= Cardinality(InDay) + Pending
  BY <1>1, Counted
<1>3. /\ TokensOf(InWindow)' + M * Pending' <= TokensOf(InWindow) + M * Pending
      /\ TokensOf(InDay)' + M * Pending' <= TokensOf(InDay) + M * Pending
      /\ M * Pending \in Nat /\ M * Pending' \in Nat
  <2>0. M \in Nat /\ M * 0 = 0 /\ M * 1 = M  BY LimitTypes
  <2> HIDE DEF M
  <2>1. CASE d = 0
    <3>1. /\ Pending' <= Pending
          /\ TokensOf(InWindow)' <= TokensOf(InWindow) /\ TokensOf(InDay)' <= TokensOf(InDay)
      BY <1>1, <2>0, <2>1, Counted
    <3>2. QED  BY <1>1, <2>0, <3>1, Weigh, Counted
  <2>2. CASE d = 1
    <3>1. /\ Pending' <= Pending - 1
          /\ TokensOf(InWindow)' <= TokensOf(InWindow) + M
          /\ TokensOf(InDay)' <= TokensOf(InDay) + M
      BY <1>1, <2>0, <2>2, Counted
    <3>2. QED  BY <1>1, <2>0, <3>1, Weigh, Counted
  <2>3. QED  BY <2>1, <2>2
<1>4. M * InFlight \in Nat /\ InFlight \in Nat  BY InFlightType, LimitTypes
<1>5. RpmLimit # Off => Cardinality(InWindow') + Pending' <= RpmLimit + InFlight
  BY <1>1, <1>2, <1>4, Counted, LimitTypes DEF OvershootIsBounded
<1>6. RpdLimit \notin {None, 0} => Cardinality(InDay') + Pending' <= RpdLimit + InFlight
  BY <1>1, <1>2, <1>4, Counted, LimitTypes DEF OvershootIsBounded
<1> HIDE DEF M
<1>7. TpmLimit # Off => TokensOf(InWindow)' + M * Pending' < TpmLimit + M * InFlight
  BY <1>1, <1>3, <1>4, Counted, LimitTypes DEF OvershootIsBounded, M
<1>8. DailyTokenCap # Off => TokensOf(InDay)' + M * Pending' < DailyTokenCap + M * InFlight
  BY <1>1, <1>3, <1>4, Counted, LimitTypes DEF OvershootIsBounded, M
<1>9. QED  BY <1>5, <1>6, <1>7, <1>8 DEF OvershootIsBounded, M

\* A gate has seen room for what is there and at most one request more.
LEMMA SeenRoom ==
    ASSUME CallersOK',
           RpmLimit # Off => Cardinality(InWindow') <= RpmLimit,
           RpdLimit \notin {None, 0} => Cardinality(InDay') <= RpdLimit,
           TpmLimit # Off => TokensOf(InWindow)' < TpmLimit,
           DailyTokenCap # Off => TokensOf(InDay)' < DailyTokenCap,
           Cardinality(InWindow') \in Nat, Cardinality(InDay') \in Nat,
           TokensOf(InWindow)' \in Nat, TokensOf(InDay)' \in Nat
    PROVE  OvershootIsBounded'
<1> DEFINE M == MaxTokens
<1>1. Pending' \in Nat /\ Pending' <= InFlight /\ InFlight \in Nat
  <2>1. \A c \in Callers : caller'[c].left \in Nat  BY Spans DEF CallersOK
  <2>2. Attempts' \in SUBSET (Callers \X (1 .. MaxAttempts))  BY DEF Attempts
  <2>3. QED  BY <2>1, <2>2, PendingFits, AttemptsFinite DEF CallersOK, Pending, Attempts
<1>2. M * Pending' \in Nat /\ M * InFlight \in Nat /\ M * Pending' <= M * InFlight
  <2>1. M \in Nat  BY LimitTypes
  <2> HIDE DEF M
  <2>2. \A a, b \in Nat : a <= b => M * a \in Nat /\ M * b \in Nat /\ M * a <= M * b
    BY <2>1
  <2>3. QED  BY <1>1, <2>2
<1> HIDE DEF M
<1>3. QED  BY <1>1, <1>2, LimitTypes DEF OvershootIsBounded, M

-----------------------------------------------------------------------------
(* At the start nothing is recorded.                                       *)
LEMMA InitIInv == Init => IInv
<1> SUFFICES ASSUME Init PROVE IInv
  OBVIOUS
<1>1. DataOK  BY Spans DEF Init, DataOK, Entries
<1>2. CallersOK
  <2>1. Pinned \subseteq Callers  BY DEF Callers
  <2>2. QED  BY <2>1, Spans DEF Init, CallersOK, Idle
<1>3. Logged = {} /\ InDay = {} /\ InDay \cap Reserved = {} /\ InWindow \cap Reserved = {}
  BY DEF Init, Logged, InDay, InWindow, Reserved
<1>4. Cardinality({}) = 0
  BY FS_EmptySet
<1>5. DayIsComplete
  BY <1>3, <1>4 DEF Init, DayIsComplete
<1>6. ReservationsWithinLimits
  BY <1>3, <1>4, LimitTypes DEF ReservationsWithinLimits
<1>7. OvershootIsBounded
  <2>1. TokensOf({}) = 0
    <3>1. {t \in {} \X (1 .. MaxTokens) : t[2] <= log[t[1]].tokens} = {}  OBVIOUS
    <3>2. QED  BY <1>4, <3>1 DEF TokensOf
  <2>2. Pending = 0
    <3>1. Attempts = {}  BY Spans DEF Attempts, Init, Idle
    <3>2. QED  BY <1>4, <3>1 DEF Pending
  <2>3. InFlight \in Nat /\ MaxTokens * InFlight \in Nat /\ MaxTokens * 0 = 0
    BY InFlightType, LimitTypes
  <2>4. TpmLimit # Off => TpmLimit > 0  BY LimitTypes DEF Off
  <2>5. DailyTokenCap # Off => DailyTokenCap > 0  BY LimitTypes DEF Off
  <2>6. /\ Cardinality(InWindow) = 0 /\ TokensOf(InWindow) = 0
        /\ Cardinality(InDay) = 0 /\ TokensOf(InDay) = 0
    <3>1. InWindow = {} /\ InDay = {}
      BY DEF Init, Logged, InDay, InWindow
    <3>2. QED  BY <3>1, <1>4, <2>1, Zenon
  <2>7. /\ TpmLimit # Off => 0 + 0 < TpmLimit + MaxTokens * InFlight
        /\ DailyTokenCap # Off => 0 + 0 < DailyTokenCap + MaxTokens * InFlight
    BY <2>3, <2>4, <2>5, LimitTypes
  <2>8. /\ RpmLimit # Off => 0 + 0 <= RpmLimit + InFlight
        /\ RpdLimit \notin {None, 0} => 0 + 0 <= RpdLimit + InFlight
    BY <2>3, LimitTypes
  <2>9. QED  BY <2>2, <2>3, <2>6, <2>7, <2>8 DEF OvershootIsBounded
<1>8. QED  BY <1>1, <1>2, <1>5, <1>6, <1>7 DEF IInv

(* Where a caller goes next.                                               *)
LEMMA CallersStep ==
    ASSUME CallersOK, NEW c \in Callers, NEW at \in {"idle", "cleared", "calling"},
           NEW left \in 0 .. MaxAttempts, GoTo(c, at, left),
           at = "calling" <=> left # 0, c \in Pinned => left <= 1
    PROVE  CallersOK'
BY DEF CallersOK, GoTo

(* A request or a reservation is recorded (_db_record_request,             *)
(* _db_check_and_reserve) and perhaps the old rows go (_maybe_cleanup).    *)
LEMMA InsertStep ==
    ASSUME IInv, NEW c \in Callers, NEW kind \in {"spent", "reserved"},
           NEW tokens \in Tokens \cup {0}, Insert(c, kind, tokens),
           kind = "reserved" => HasCapacityInTxn, UNCHANGED sinceMidnight
    PROVE  DataOK' /\ DayIsComplete' /\ ReservationsWithinLimits'
<1> DEFINE entry == [kind |-> kind, age |-> 0, tokens |-> tokens]
<1>1. PICK new \in Rows, cleans \in BOOLEAN :
          /\ log[new] = NoRow
          /\ log' = [r \in Rows |-> IF r = new THEN entry
                                    ELSE IF cleans /\ Stale(r) THEN NoRow ELSE log[r]]
  BY DEF Insert
<1>2. entry \in Entries /\ entry # NoRow
  BY Spans DEF Entries, NoRow
<1>3. DataOK'
  <2>1. log' \in [Rows -> Entries]
    BY <1>1, <1>2 DEF IInv, DataOK, Entries
  <2>2. NextCount(sinceCleanup[c]) \in 0 .. CleanupEvery - 1
    BY Spans DEF IInv, DataOK, NextCount
  <2>3. sinceCleanup' \in [Callers -> 0 .. CleanupEvery - 1]
    BY <2>2 DEF Insert, IInv, DataOK
  <2>4. QED  BY <2>1, <2>3 DEF IInv, DataOK
<1>4. new \notin Logged /\ Logged' \subseteq Logged \cup {new}
  BY <1>1 DEF Logged
<1>5. \A r \in Logged' : r # new => log'[r] = log[r]
  BY <1>1 DEF Logged
<1>6. log'[new] = entry /\ new \in Logged' /\ log'[new].age = 0 /\ log'[new].kind = kind
  BY <1>1, <1>2 DEF Logged
<1>7. ASSUME NEW r \in InDay PROVE r \in InDay'
  <2>1. r \in Logged /\ log[r].age <= sinceMidnight /\ r # new
    BY <1>4, <1>7 DEF InDay
  <2>2. log[r].age \in 0 .. MaxAge /\ sinceMidnight \in 0 .. Day - 1
    BY <2>1, RowAge DEF IInv, DataOK, Logged
  <2>3. ~Stale(r)
    BY <2>1, <2>2, Spans DEF Stale
  <2>4. log'[r] = log[r]
    BY <1>1, <2>1, <2>3 DEF Logged
  <2>5. QED  BY <2>1, <2>4 DEF InDay, Logged
<1>8. InDay' = InDay \cup {new} /\ new \notin InDay
  <2>1. 0 <= sinceMidnight
    BY DEF IInv, DataOK
  <2>2. new \in InDay'
    BY <1>6, <2>1 DEF InDay
  <2>3. \A r \in InDay' : r # new => r \in InDay
    BY <1>4, <1>5 DEF InDay
  <2>4. QED  BY <1>4, <1>7, <2>2, <2>3 DEF InDay
<1>9. InWindow' \subseteq InWindow \cup {new} /\ new \notin InWindow
  BY <1>4, <1>5 DEF InWindow
<1>10. InDay \subseteq Rows /\ InWindow \subseteq Rows /\ InDay' \subseteq Rows /\ InWindow' \subseteq Rows
  BY DEF InDay, InWindow, Logged
<1>11. DayIsComplete'
  <2>1. IsFiniteSet(InDay)
    BY <1>10, RowSets
  <2>2. Cardinality(InDay \cup {new}) = Cardinality(InDay) + 1
    BY <1>8, <2>1, FS_AddElement
  <2>3. QED  BY <1>8, <2>2 DEF DayIsComplete, Insert, IInv
<1>12. Reserved' \subseteq Reserved \cup {new}
  BY <1>4, <1>5 DEF Reserved
<1>13. CASE kind = "spent"
  <2>1. new \notin Reserved'
    BY <1>6, <1>13 DEF Reserved
  <2>2. /\ ReservedIn(InWindow)' \subseteq ReservedIn(InWindow)
        /\ ReservedIn(InDay)' \subseteq ReservedIn(InDay)
    BY <1>8, <1>9, <1>12, <2>1 DEF ReservedIn
  <2>3. QED  BY <1>3, <1>11, <2>2, NoneReserved DEF IInv
<1>14. CASE kind = "reserved"
  <2>1. HasCapacityInTxn
    BY <1>14
  <2>2. ASSUME NEW S \in {InWindow, InDay}, NEW T \in SUBSET (S \cup {new}),
               NEW limit \in Int, Cardinality(S) < limit
        PROVE  Cardinality(T) <= limit
    <3>1. IsFiniteSet(S) /\ Cardinality(S) \in Nat
      BY <1>10, RowSets
    <3>2. IsFiniteSet(S \cup {new}) /\ Cardinality(S \cup {new}) = Cardinality(S) + 1
      BY <1>8, <1>9, <3>1, FS_AddElement
    <3>3. Cardinality(T) <= Cardinality(S \cup {new}) /\ Cardinality(T) \in Nat
      BY <3>2, FS_Subset, FS_CardinalityType
    <3>4. QED  BY <2>2, <3>1, <3>2, <3>3
  <2>3. RpmLimit # Off => Cardinality(InWindow' \cap Reserved') <= RpmLimit
    BY <1>9, <2>1, <2>2, LimitTypes DEF HasCapacityInTxn, MinuteAndTokenRoom
  <2>4. RpdLimit \notin {None, 0} => Cardinality(InDay' \cap Reserved') <= RpdLimit
    BY <1>8, <2>1, <2>2, LimitTypes DEF HasCapacityInTxn
  <2>5. QED  BY <1>3, <1>11, <2>3, <2>4 DEF ReservationsWithinLimits
<1>15. QED  BY <1>13, <1>14

(* A process starts: the stale rows go (_init_db), none of the day.        *)
LEMMA RestartStep ==
    ASSUME IInv, NEW c \in Callers, Restart(c)
    PROVE  DataOK' /\ DayIsComplete' /\ ReservationsWithinLimits'
<1>1. DataOK'
  BY Spans DEF Restart, IInv, DataOK, Entries
<1>2. \A r \in Logged' : r \in Logged /\ log'[r] = log[r]
  BY DEF Restart, Logged
<1>3. ASSUME NEW r \in InDay PROVE r \in InDay'
  <2>1. log[r].age \in 0 .. MaxAge /\ sinceMidnight \in 0 .. Day - 1
    BY RowAge DEF IInv, DataOK, InDay, Logged
  <2>2. ~Stale(r)
    BY <2>1, Spans DEF Stale, InDay
  <2>3. QED  BY <2>2 DEF Restart, InDay, Logged
<1>4. InDay' = InDay
  BY <1>2, <1>3 DEF InDay, Restart
<1>5. InWindow' \subseteq InWindow /\ Reserved' \subseteq Reserved
  BY <1>2 DEF InWindow, Reserved
<1>6. ReservationsWithinLimits'
  BY <1>4, <1>5, NoneReserved DEF IInv, ReservedIn
<1>7. QED  BY <1>1, <1>4, <1>6 DEF IInv, DayIsComplete, Restart

(* A row grows one tick older, up to the age at which it counts nowhere.   *)
LEMMA OlderRow ==
    ASSUME IInv, Tick, NEW r \in Rows
    PROVE  /\ log'[r] \in Entries
           /\ log'[r] = NoRow <=> log[r] = NoRow
           /\ log'[r].tokens = log[r].tokens
           /\ log'[r] # NoRow => /\ log'[r].kind = log[r].kind
                                 /\ log'[r].age \in 1 .. MaxAge
                                 /\ log[r].age # MaxAge => log'[r].age = log[r].age + 1
                                 /\ log[r].age = MaxAge => log'[r].age = MaxAge
<1>1. log'[r] = Older(log[r])
  BY DEF Tick
<1>2. log[r] \in Entries
  BY DEF IInv, DataOK
<1>3. CASE log[r] = NoRow
  BY <1>1, <1>3 DEF Older, Entries
<1>4. CASE log[r] # NoRow
  <2>1. /\ log[r].kind \in {"spent", "reserved"} /\ log[r].age \in 0 .. MaxAge
        /\ log[r].tokens \in Tokens \cup {0}
        /\ log[r] = [kind |-> log[r].kind, age |-> log[r].age, tokens |-> log[r].tokens]
    BY <1>2, <1>4 DEF Entries
  <2>2. CASE log[r].age = MaxAge
    BY <1>1, <1>2, <1>4, <2>1, <2>2, Spans DEF Older
  <2>3. CASE log[r].age # MaxAge
    <3>1. log'[r] = [kind |-> log[r].kind, age |-> log[r].age + 1, tokens |-> log[r].tokens]
      BY <1>1, <1>4, <2>1, <2>3 DEF Older
    <3>2. log[r].age + 1 \in 1 .. MaxAge /\ log[r].age + 1 \in 0 .. MaxAge
      BY <2>1, <2>3, Spans
    <3>3. log'[r] # NoRow
      BY <2>1, <3>1 DEF NoRow
    <3>4. QED  BY <1>4, <2>1, <2>3, <3>1, <3>2, <3>3 DEF Entries
  <2>4. QED  BY <2>2, <2>3
<1>5. QED  BY <1>3, <1>4

(* Time passes: the rows grow older together, and at midnight every row    *)
(* is of yesterday.                                                        *)
LEMMA TickStep ==
    ASSUME IInv, Tick
    PROVE  DataOK' /\ DayIsComplete' /\ ReservationsWithinLimits'
<1>1. ASSUME NEW r \in Rows
      PROVE  /\ log'[r] \in Entries
             /\ log'[r] = NoRow <=> log[r] = NoRow
             /\ log'[r] # NoRow => /\ log'[r].kind = log[r].kind
                                   /\ log'[r].age \in 1 .. MaxAge
                                   /\ log[r].age # MaxAge => log'[r].age = log[r].age + 1
                                   /\ log[r].age = MaxAge => log'[r].age = MaxAge
  BY OlderRow
<1>2. /\ sinceMidnight \in 0 .. Day - 1
      /\ sinceMidnight' = IF sinceMidnight + 1 = Day THEN 0 ELSE sinceMidnight + 1
      /\ today' = IF sinceMidnight' = 0 THEN 0 ELSE today
      /\ sinceCleanup' = sinceCleanup
  BY DEF Tick, IInv, DataOK
<1>3. DataOK'
  <2>1. log' \in [Rows -> Entries]
    BY <1>1 DEF Tick
  <2>2. sinceMidnight' \in 0 .. Day - 1
    BY <1>2, Spans
  <2>3. QED  BY <1>2, <2>1, <2>2 DEF IInv, DataOK
<1>4. Logged' = Logged /\ Reserved' = Reserved
  BY <1>1 DEF Logged, Reserved
<1>5. InWindow' \subseteq InWindow
  <2>1. ASSUME NEW r \in Logged', log'[r].age < Window PROVE log[r].age < Window
    BY <1>1, <2>1, RowAge, Spans DEF Logged, IInv
  <2>2. QED  BY <1>4, <2>1 DEF InWindow
<1>6. CASE sinceMidnight' = 0
  <2>1. InDay' = {}
    <3>1. ASSUME NEW r \in Logged' PROVE ~(log'[r].age <= sinceMidnight')
      BY <1>1, <1>6, Spans DEF Logged
    <3>2. QED  BY <3>1 DEF InDay
  <2>2. DayIsComplete'
    BY <1>2, <1>6, <2>1, FS_EmptySet DEF DayIsComplete
  <2>3. QED  BY <1>3, <1>4, <1>5, <2>1, <2>2, NoneReserved DEF IInv, ReservedIn
<1>7. CASE sinceMidnight' # 0
  <2>1. sinceMidnight' = sinceMidnight + 1 /\ today' = today
    BY <1>2, <1>7
  <2>2. ASSUME NEW r \in Logged
        PROVE  log'[r].age <= sinceMidnight' <=> log[r].age <= sinceMidnight
    <3>1. log[r].age \in 0 .. MaxAge /\ r \in Rows /\ log'[r] # NoRow
      BY <1>1, RowAge DEF Logged, IInv
    <3>2. CASE log[r].age = MaxAge
      BY <1>1, <1>2, <2>1, <3>1, <3>2, <1>3, Spans DEF DataOK
    <3>3. CASE log[r].age # MaxAge
      BY <1>1, <1>2, <2>1, <3>1, <3>3
    <3>4. QED  BY <3>2, <3>3
  <2>3. InDay' = InDay
    BY <1>4, <2>2 DEF InDay
  <2>4. DayIsComplete'
    BY <2>1, <2>3 DEF DayIsComplete, IInv
  <2>5. QED  BY <1>3, <1>4, <1>5, <2>3, <2>4, NoneReserved DEF IInv, ReservedIn
<1>8. QED  BY <1>6, <1>7

(* A step that changes nothing but where a caller is.                      *)
LEMMA QuietStep ==
    ASSUME IInv, UNCHANGED <<log, sinceMidnight, sinceCleanup, today>>
    PROVE  DataOK' /\ DayIsComplete' /\ ReservationsWithinLimits'
BY DEF IInv, DataOK, DayIsComplete, ReservationsWithinLimits,
       InDay, InWindow, Reserved, Logged

(* The rows that count after a step are the ones that did, and the new one. *)
LEMMA QuietKept == UNCHANGED <<log, sinceMidnight>> => Kept({})
BY DEF Kept, InWindow, InDay, Logged

LEMMA InsertKept ==
    ASSUME IInv, NEW c \in Callers, NEW kind \in {"spent", "reserved"},
           NEW tokens \in 0 .. MaxTokens, Insert(c, kind, tokens), UNCHANGED sinceMidnight
    PROVE  \E row \in Rows : Kept({row}) /\ log'[row].tokens = tokens
<1>1. PICK row \in Rows, cleans \in BOOLEAN :
          /\ log[row] = NoRow
          /\ log' = [r \in Rows |-> IF r = row THEN [kind |-> kind, age |-> 0, tokens |-> tokens]
                                    ELSE IF cleans /\ Stale(r) THEN NoRow ELSE log[r]]
  BY DEF Insert
<1>2. \A r \in Logged' \ {row} : r \in Logged /\ log'[r] = log[r]
  BY <1>1 DEF Logged
<1>3. log'[row].tokens = tokens
  BY <1>1
<1>4. QED  BY <1>2, <1>3 DEF Kept, InWindow, InDay

LEMMA RestartKept ==
    ASSUME NEW c \in Callers, Restart(c)
    PROVE  Kept({})
<1>1. \A r \in Logged' : r \in Logged /\ log'[r] = log[r]
  BY DEF Restart, Logged
<1>2. QED  BY <1>1 DEF Restart, Kept, InWindow, InDay

LEMMA TickKept == ASSUME IInv, Tick PROVE Kept({})
<1>1. ASSUME NEW r \in Logged'
      PROVE  /\ r \in Logged /\ log'[r].tokens = log[r].tokens
             /\ log'[r].age < Window => log[r].age < Window
             /\ log'[r].age <= sinceMidnight' => log[r].age <= sinceMidnight
  <2>1. r \in Rows /\ r \in Logged /\ log'[r].tokens = log[r].tokens
        /\ log'[r].age \in 1 .. MaxAge /\ log[r].age \in 0 .. MaxAge
        /\ (log[r].age # MaxAge => log'[r].age = log[r].age + 1)
        /\ (log[r].age = MaxAge => log'[r].age = MaxAge)
    BY OlderRow, RowAge DEF Logged, IInv
  <2>2. sinceMidnight \in 0 .. Day - 1
        /\ sinceMidnight' = IF sinceMidnight + 1 = Day THEN 0 ELSE sinceMidnight + 1
    BY DEF Tick, IInv, DataOK
  <2>3. QED  BY <2>1, <2>2, Spans
<1>2. QED  BY <1>1 DEF Kept, InWindow, InDay

(* A caller passes the gate: has_capacity saw room.                        *)
LEMMA GateStep ==
    ASSUME HasCapacity, Kept({}), CallersOK'
    PROVE  OvershootIsBounded'
<1>1. /\ RpmLimit # Off => Cardinality(InWindow') <= RpmLimit
      /\ RpdLimit \notin {None, 0} => Cardinality(InDay') <= RpdLimit
      /\ TpmLimit # Off => TokensOf(InWindow)' < TpmLimit
      /\ DailyTokenCap # Off => TokensOf(InDay)' < DailyTokenCap
  BY KeptCounts, Counted, LimitTypes DEF HasCapacity, MinuteAndTokenRoom
<1>2. QED  BY <1>1, KeptCounts, SeenRoom

(* A reservation: the transaction saw room for one.                        *)
LEMMA ReserveStep ==
    ASSUME HasCapacityInTxn, CallersOK',
           NEW row \in Rows, Kept({row}), log'[row].tokens = 0
    PROVE  OvershootIsBounded'
<1>1. 0 \in 0 .. MaxTokens  BY LimitTypes
<1>2. /\ Cardinality(InWindow') \in Nat /\ Cardinality(InWindow') <= Cardinality(InWindow) + 1
      /\ Cardinality(InDay') \in Nat /\ Cardinality(InDay') <= Cardinality(InDay) + 1
      /\ TokensOf(InWindow)' \in Nat /\ TokensOf(InWindow)' <= TokensOf(InWindow) + 0
      /\ TokensOf(InDay)' \in Nat /\ TokensOf(InDay)' <= TokensOf(InDay) + 0
  BY <1>1, InsertCounts
<1>3. /\ RpmLimit # Off => Cardinality(InWindow') <= RpmLimit
      /\ RpdLimit \notin {None, 0} => Cardinality(InDay') <= RpdLimit
      /\ TpmLimit # Off => TokensOf(InWindow)' < TpmLimit
      /\ DailyTokenCap # Off => TokensOf(InDay)' < DailyTokenCap
  BY <1>2, Counted, LimitTypes DEF HasCapacityInTxn, MinuteAndTokenRoom
<1>4. QED  BY <1>2, <1>3, SeenRoom

(* A caller gives up an attempt, or its process, without recording.        *)
LEMMA GiveUpStep ==
    ASSUME IInv, NEW c \in Callers, NEW at, NEW left \in 0 .. MaxAttempts,
           GoTo(c, at, left), left <= caller[c].left, Kept({})
    PROVE  OvershootIsBounded'
BY PendingStep, NoFurther DEF IInv

(* A request succeeds and is recorded, and an attempt is gone.             *)
LEMMA SpendStep ==
    ASSUME IInv, NEW c \in Callers, NEW at, NEW left \in 0 .. MaxAttempts,
           GoTo(c, at, left), left < caller[c].left,
           NEW t \in Tokens, Insert(c, "spent", t), UNCHANGED sinceMidnight
    PROVE  OvershootIsBounded'
<1>1. t \in 0 .. MaxTokens  BY BudgetAssumption
<1>2. \E row \in Rows : Kept({row}) /\ log'[row].tokens \in 0 .. MaxTokens
  BY <1>1, InsertKept
<1>3. caller[c].left \in Nat  BY Spans DEF IInv, CallersOK
<1>4. Pending \in Nat /\ Pending' \in Nat /\ Pending' <= Pending - 1
  BY <1>3, PendingStep DEF IInv
<1>5. QED  BY <1>2, <1>4, NoFurther DEF IInv

(* Every step of a caller keeps the invariant.                             *)
LEMMA CallerStep ==
    ASSUME IInv, NEW c \in Callers,
           \/ Select(c) \/ AttemptSucceeds(c) \/ AttemptFails(c)
           \/ Preflight(c) \/ Reserve(c) \/ PinnedSucceeds(c) \/ PinnedFails(c)
           \/ Restart(c)
    PROVE  IInv'
<1>0. /\ 0 \in 0 .. MaxAttempts /\ 1 \in 0 .. MaxAttempts
      /\ caller[c].left \in 0 .. MaxAttempts
      /\ caller[c].at = "calling" => caller[c].left # 0
      /\ c \in Pinned => caller[c].left <= 1
      /\ c \in Cascading => c \notin Pinned
  BY Spans, BudgetAssumption DEF IInv, CallersOK
<1>1. CASE Select(c)
  <2>1. PICK n \in 1 .. MaxAttempts : GoTo(c, "calling", n)
    BY <1>1 DEF Select
  <2>2. n \in 0 .. MaxAttempts /\ n # 0 /\ c \notin Pinned
    BY <1>0, <1>1, Spans DEF Select
  <2>3. CallersOK'
    BY <2>1, <2>2, CallersStep DEF IInv
  <2>4. OvershootIsBounded'
    BY <1>1, <2>3, QuietKept, GateStep DEF Select
  <2>5. QED  BY <1>1, <2>3, <2>4, QuietStep DEF Select, IInv
<1>2. CASE AttemptSucceeds(c)
  <2>1. PICK t \in Tokens : Insert(c, "spent", t)
    BY <1>2 DEF AttemptSucceeds
  <2>2. PICK at \in {"idle", "calling"}, left \in 0 .. MaxAttempts :
           /\ GoTo(c, at, left) /\ left < caller[c].left
           /\ at = "calling" <=> left # 0
    <3>1. 0 < caller[c].left  BY <1>0, <1>2, Spans DEF AttemptSucceeds
    <3>2. caller[c].left > 1 => caller[c].left - 1 \in 0 .. MaxAttempts
      BY <1>0, Spans
    <3>3. QED  BY <1>0, <1>2, <3>1, <3>2, Spans DEF AttemptSucceeds
  <2>3. c \notin Pinned /\ UNCHANGED sinceMidnight
    BY <1>0, <1>2 DEF AttemptSucceeds
  <2>4. CallersOK'
    BY <2>2, <2>3, CallersStep DEF IInv
  <2>5. DataOK' /\ DayIsComplete' /\ ReservationsWithinLimits'
    BY <2>1, <2>3, InsertStep
  <2>6. OvershootIsBounded'
    BY <2>1, <2>2, <2>3, SpendStep
  <2>7. QED  BY <2>4, <2>5, <2>6 DEF IInv
<1>3. CASE AttemptFails(c)
  <2>1. PICK at \in {"idle", "calling"}, left \in 0 .. MaxAttempts :
           /\ GoTo(c, at, left) /\ left <= caller[c].left
           /\ at = "calling" <=> left # 0
    <3>1. caller[c].left > 1 => caller[c].left - 1 \in 0 .. MaxAttempts
      BY <1>0, Spans
    <3>2. QED  BY <1>0, <1>3, <3>1, Spans DEF AttemptFails
  <2>2. c \notin Pinned /\ UNCHANGED <<log, sinceMidnight, sinceCleanup, today>>
    BY <1>0, <1>3 DEF AttemptFails
  <2>3. CallersOK'
    BY <2>1, <2>2, CallersStep DEF IInv
  <2>4. OvershootIsBounded'
    BY <2>1, <2>2, QuietKept, GiveUpStep
  <2>5. QED  BY <2>2, <2>3, <2>4, QuietStep DEF IInv
<1>4. CASE Preflight(c)
  <2>1. GoTo(c, "cleared", 0) /\ UNCHANGED <<log, sinceMidnight, sinceCleanup, today>>
    BY <1>4 DEF Preflight
  <2>2. CallersOK'
    BY <1>0, <2>1, CallersStep DEF IInv
  <2>3. OvershootIsBounded'
    BY <1>0, <2>1, QuietKept, GiveUpStep, Spans
  <2>4. QED  BY <2>1, <2>2, <2>3, QuietStep DEF IInv
<1>5. CASE Reserve(c)
  <2>1. CASE HasCapacityInTxn
    <3>1. Insert(c, "reserved", 0) /\ GoTo(c, "calling", 1) /\ UNCHANGED sinceMidnight
      BY <1>5, <2>1 DEF Reserve
    <3>2. DataOK' /\ DayIsComplete' /\ ReservationsWithinLimits'
      BY <2>1, <3>1, InsertStep
    <3>3. CallersOK'
      BY <1>0, <3>1, CallersStep DEF IInv
    <3>4. \E row \in Rows : Kept({row}) /\ log'[row].tokens = 0
      <4>1. 0 \in 0 .. MaxTokens  BY LimitTypes
      <4>2. QED  BY <3>1, <4>1, InsertKept
    <3>5. OvershootIsBounded'
      BY <2>1, <3>3, <3>4, ReserveStep
    <3>6. QED  BY <3>2, <3>3, <3>5 DEF IInv
  <2>2. CASE ~HasCapacityInTxn
    <3>1. GoTo(c, "idle", 0) /\ UNCHANGED <<log, sinceMidnight, sinceCleanup, today>>
      BY <1>5, <2>2 DEF Reserve
    <3>2. CallersOK'
      BY <1>0, <3>1, CallersStep DEF IInv
    <3>3. OvershootIsBounded'
      BY <1>0, <3>1, QuietKept, GiveUpStep, Spans
    <3>4. QED  BY <3>1, <3>2, <3>3, QuietStep DEF IInv
  <2>3. QED  BY <2>1, <2>2
<1>6. CASE PinnedSucceeds(c)
  <2>1. PICK t \in Tokens : Insert(c, "spent", t)
    BY <1>6 DEF PinnedSucceeds
  <2>2. GoTo(c, "idle", 0) /\ UNCHANGED sinceMidnight
    BY <1>6 DEF PinnedSucceeds
  <2>3. DataOK' /\ DayIsComplete' /\ ReservationsWithinLimits'
    BY <2>1, <2>2, InsertStep
  <2>4. CallersOK'
    BY <1>0, <2>2, CallersStep DEF IInv
  <2>5. 0 < caller[c].left
    BY <1>0, <1>6, Spans DEF PinnedSucceeds
  <2>6. OvershootIsBounded'
    BY <1>0, <2>1, <2>2, <2>5, SpendStep
  <2>7. QED  BY <2>3, <2>4, <2>6 DEF IInv
<1>7. CASE PinnedFails(c)
  <2>1. GoTo(c, "idle", 0) /\ UNCHANGED <<log, sinceMidnight, sinceCleanup, today>>
    BY <1>7 DEF PinnedFails
  <2>2. CallersOK'
    BY <1>0, <2>1, CallersStep DEF IInv
  <2>3. OvershootIsBounded'
    BY <1>0, <2>1, QuietKept, GiveUpStep, Spans
  <2>4. QED  BY <2>1, <2>2, <2>3, QuietStep DEF IInv
<1>8. CASE Restart(c)
  <2>1. GoTo(c, "idle", 0)
    BY <1>8 DEF Restart
  <2>2. CallersOK'
    BY <1>0, <2>1, CallersStep DEF IInv
  <2>3. OvershootIsBounded'
    BY <1>0, <1>8, <2>1, RestartKept, GiveUpStep, Spans
  <2>4. QED  BY <1>8, <2>2, <2>3, RestartStep DEF IInv
<1>9. QED
  BY <1>1, <1>2, <1>3, <1>4, <1>5, <1>6, <1>7, <1>8

-----------------------------------------------------------------------------
(* The inductive invariant of every behaviour.                             *)
THEOREM Invariance == Spec => []IInv
<1>1. Init => IInv
  BY InitIInv
<1>2. IInv /\ [Next]_vars => IInv'
  <2> SUFFICES ASSUME IInv, [Next]_vars PROVE IInv'
    OBVIOUS
  <2>0. ASSUME UNCHANGED caller, Kept({}) PROVE CallersOK' /\ OvershootIsBounded'
    <3>1. Attempts \in SUBSET (Callers \X (1 .. MaxAttempts))  BY DEF Attempts
    <3>2. Pending \in Nat /\ Pending' = Pending
      BY <2>0, <3>1, AttemptsFinite DEF Pending, Attempts
    <3>3. OvershootIsBounded'  BY <2>0, <3>2, NoFurther DEF IInv
    <3>4. QED  BY <2>0, <3>3 DEF IInv, CallersOK
  <2>1. CASE UNCHANGED vars
    BY <2>0, <2>1, QuietStep, QuietKept DEF vars, IInv
  <2>2. CASE Tick
    <3>1. CallersOK' /\ OvershootIsBounded'
      BY <2>0, <2>2, TickKept DEF Tick
    <3>2. QED  BY <2>2, <3>1, TickStep DEF IInv
  <2>3. CASE Next /\ ~Tick
    BY <2>3, CallerStep DEF Next
  <2>4. QED  BY <2>1, <2>2, <2>3
<1>3. QED  BY <1>1, <1>2, PTL DEF Spec

(* The log, the counters and the callers keep their types.                 *)
THEOREM TypeCorrect == Spec => []TypeOK
<1>1. IInv => TypeOK
  <2> SUFFICES ASSUME IInv PROVE TypeOK
    OBVIOUS
  <2>1. InDay \subseteq Rows
    BY DEF InDay, Logged
  <2>2. /\ Cardinality(InDay) \in Nat /\ Cardinality(Rows) \in Nat
        /\ Cardinality(InDay) <= Cardinality(Rows)
    BY <2>1, RowSets
  <2>3. today \in 0 .. Cardinality(Rows)
    BY <2>2 DEF IInv, DayIsComplete
  <2>4. QED  BY <2>3 DEF IInv, DataOK, CallersOK, TypeOK
<1>2. QED  BY <1>1, Invariance, PTL

(* check_and_reserve never lets the reservations of a provider exceed its  *)
(* limits per minute and per day, however many processes call it.          *)
THEOREM ReservationTheorem == Spec => []ReservationsWithinLimits
<1>1. IInv => ReservationsWithinLimits  BY DEF IInv
<1>2. QED  BY <1>1, Invariance, PTL

(* The count of the day is what was recorded since midnight: no cleanup or *)
(* restart of any process takes from it.                                   *)
THEOREM DayTheorem == Spec => []DayIsComplete
<1>1. IInv => DayIsComplete  BY DEF IInv
<1>2. QED  BY <1>1, Invariance, PTL

(* No number of callers overshoots a limit by more than what they had in   *)
(* flight when they saw room, in requests or in tokens.                    *)
THEOREM OvershootTheorem == Spec => []OvershootIsBounded
<1>1. IInv => OvershootIsBounded  BY DEF IInv
<1>2. QED  BY <1>1, Invariance, PTL

=============================================================================
