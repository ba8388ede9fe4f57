---------------------------- MODULE BudgetTracker ----------------------------
(***************************************************************************)
(* The budget of one provider (budget/tracker.py) in the shared mode, the  *)
(* one RouterEngine uses: a request_log in SQLite that every process       *)
(* checks before it calls the provider and adds to afterwards.  Providers  *)
(* share nothing, so one is enough.                                        *)
(*                                                                         *)
(* Two kinds of caller, as in dispatch/: a cascading one passes the        *)
(* capacity gate of LBR when backends are selected and records a request   *)
(* when an attempt succeeds; a pinned one checks, reserves in one          *)
(* IMMEDIATE transaction, and records again when its call succeeds.        *)
(* A caller stands for a process with one dispatch in flight; between its  *)
(* steps the others run.                                                   *)
(*                                                                         *)
(* A row is kept as its age in ticks: Window ticks make the minute, Day    *)
(* ticks the day, and midnight is sinceMidnight ticks ago.                 *)
(***************************************************************************)
EXTENDS Integers, FiniteSets

CONSTANTS
    Cascading, Pinned,      \* callers
    Rows,                   \* ids of request_log
    Tokens, MaxTokens,      \* token counts a response may cost, and the largest
    MaxAttempts,            \* candidates of the provider in one fallback chain
    RpmLimit, TpmLimit, DailyTokenCap,   \* Off when not configured
    RpdLimit,               \* None when not configured; 0 is a value of its own
    Window, Day,
    CleanupEvery            \* _CLEANUP_EVERY_N_REQUESTS

Off == 0
None == -1

Callers == Cascading \cup Pinned

ASSUME BudgetAssumption ==
    /\ IsFiniteSet(Rows) /\ IsFiniteSet(Callers) /\ Cascading \cap Pinned = {}
    /\ MaxTokens \in Nat /\ Tokens \subseteq 0 .. MaxTokens /\ Tokens # {}
    /\ {RpmLimit, TpmLimit, DailyTokenCap} \subseteq Nat
    /\ RpdLimit \in Nat \cup {None}
    /\ {Window, Day, CleanupEvery, MaxAttempts} \subseteq Nat \ {0}
    /\ Window <= Day

VARIABLES
    log,            \* row id -> the row, or NoRow
    sinceMidnight,
    caller,         \* caller -> where it is and the attempts it may still make
    sinceCleanup,   \* caller -> requests its process has recorded since it cleaned up
    \* History, read by the properties only.
    today           \* requests recorded since midnight

vars == <<log, sinceMidnight, caller, sinceCleanup, today>>

NoRow == [kind |-> "none", age |-> 0, tokens |-> 0]
Idle == [at |-> "idle", left |-> 0]

MaxAge == Day + 1       \* older rows count nowhere

Entries == {NoRow} \cup
    [kind : {"spent", "reserved"}, age : 0 .. MaxAge, tokens : Tokens \cup {0}]

TypeOK ==
    /\ log \in [Rows -> Entries]
    /\ sinceMidnight \in 0 .. Day - 1
    /\ caller \in [Callers -> [at : {"idle", "cleared", "calling"}, left : 0 .. MaxAttempts]]
    /\ sinceCleanup \in [Callers -> 0 .. CleanupEvery - 1]
    /\ today \in 0 .. Cardinality(Rows)

Init ==
    /\ log = [r \in Rows |-> NoRow]
    /\ sinceMidnight = 0
    /\ caller = [c \in Callers |-> Idle]
    /\ sinceCleanup = [c \in Callers |-> 0]
    /\ today = 0

-----------------------------------------------------------------------------
(* What the queries of the tracker see.                                    *)
Logged == {r \in Rows : log[r] # NoRow}

InWindow == {r \in Logged : log[r].age < Window}

InDay == {r \in Logged : log[r].age <= sinceMidnight}

\* SUM(tokens), counted token by token.
TokensOf(rows) ==
    Cardinality({t \in rows \X (1 .. MaxTokens) : t[2] <= log[t[1]].tokens})

\* The checks has_capacity and _has_capacity_in_txn share.
MinuteAndTokenRoom ==
    /\ RpmLimit # Off => Cardinality(InWindow) < RpmLimit
    /\ TpmLimit # Off => TokensOf(InWindow) < TpmLimit
    /\ DailyTokenCap # Off => TokensOf(InDay) < DailyTokenCap

\* Mutant: the gate looks at the minute only.
HasCapacity_MinuteOnly ==
    /\ RpmLimit # Off => Cardinality(InWindow) < RpmLimit
    /\ TpmLimit # Off => TokensOf(InWindow) < TpmLimit

\* has_capacity: a limit of no requests a day leaves none.
HasCapacity ==
    /\ MinuteAndTokenRoom
    /\ RpdLimit # None => Cardinality(InDay) < RpdLimit

\* _has_capacity_in_txn: a limit of no requests a day is no limit.
HasCapacityInTxn ==
    /\ MinuteAndTokenRoom
    /\ RpdLimit \notin {None, 0} => Cardinality(InDay) < RpdLimit

\* Mutant: cleaning up with the cutoff of the minute.
Stale_Minute(r) == log[r].age >= Window

\* _cleanup_old_entries: older than a day.
Stale(r) == log[r].age > Day

\* _maybe_cleanup's counter.
NextCount(n) == IF n + 1 >= CleanupEvery THEN 0 ELSE n + 1

\* record_request or the insert of check_and_reserve, by the process of c: a
\* row, and every CleanupEvery-th time the stale rows go.
Insert(c, kind, tokens) ==
    LET cleans == sinceCleanup[c] + 1 >= CleanupEvery
    IN  /\ \E new \in Rows :
              /\ log[new] = NoRow
              /\ log' = [r \in Rows |->
                    IF r = new THEN [kind |-> kind, age |-> 0, tokens |-> tokens]
                    ELSE IF cleans /\ Stale(r) THEN NoRow ELSE log[r]]
        /\ sinceCleanup' = [sinceCleanup EXCEPT ![c] = NextCount(@)]
        /\ today' = today + 1

GoTo(c, at, left) == caller' = [caller EXCEPT ![c] = [at |-> at, left |-> left]]

-----------------------------------------------------------------------------
(* Cascading callers.                                                      *)

\* _hard_capacity_gate keeps the provider among the candidates, or the caller
\* does without it.
Select(c) ==
    /\ c \in Cascading /\ caller[c] = Idle
    /\ HasCapacity
    /\ \E n \in 1 .. MaxAttempts : GoTo(c, "calling", n)
    /\ UNCHANGED <<log, sinceMidnight, sinceCleanup, today>>

\* An attempt succeeds and is recorded.  If its output is too short the chain
\* goes on to the next candidate, else the dispatch is over.
AttemptSucceeds(c) ==
    /\ c \in Cascading /\ caller[c].at = "calling"
    /\ \E t \in Tokens : Insert(c, "spent", t)
    /\ \/ GoTo(c, "idle", 0)
       \/ caller[c].left > 1 /\ GoTo(c, "calling", caller[c].left - 1)
    /\ UNCHANGED sinceMidnight

\* An attempt fails: the budget does not learn of it.
AttemptFails(c) ==
    /\ c \in Cascading /\ caller[c].at = "calling"
    /\ IF caller[c].left > 1 THEN GoTo(c, "calling", caller[c].left - 1) ELSE GoTo(c, "idle", 0)
    /\ UNCHANGED <<log, sinceMidnight, sinceCleanup, today>>

(* Pinned callers.                                                         *)

\* _pinned_preflight.
Preflight(c) ==
    /\ c \in Pinned /\ caller[c] = Idle
    /\ HasCapacity
    /\ GoTo(c, "cleared", 0)
    /\ UNCHANGED <<log, sinceMidnight, sinceCleanup, today>>

\* check_and_reserve, with the estimate of 0 tokens that dispatch passes.
Reserve(c) ==
    /\ caller[c].at = "cleared"
    /\ IF HasCapacityInTxn
       THEN Insert(c, "reserved", 0) /\ GoTo(c, "calling", 1)
       ELSE GoTo(c, "idle", 0) /\ UNCHANGED <<log, sinceCleanup, today>>
    /\ UNCHANGED sinceMidnight

PinnedSucceeds(c) ==
    /\ c \in Pinned /\ caller[c].at = "calling"
    /\ \E t \in Tokens : Insert(c, "spent", t)
    /\ GoTo(c, "idle", 0)
    /\ UNCHANGED sinceMidnight

PinnedFails(c) ==
    /\ c \in Pinned /\ caller[c].at = "calling"
    /\ GoTo(c, "idle", 0)
    /\ UNCHANGED <<log, sinceMidnight, sinceCleanup, today>>

\* The process of c dies and starts again: _init_db cleans up.
Restart(c) ==
    /\ GoTo(c, "idle", 0)
    /\ sinceCleanup' = [sinceCleanup EXCEPT ![c] = 0]
    /\ log' = [r \in Rows |-> IF Stale(r) THEN NoRow ELSE log[r]]
    /\ UNCHANGED <<sinceMidnight, today>>

Older(row) == IF row = NoRow \/ row.age = MaxAge THEN row ELSE [row EXCEPT !.age = @ + 1]

Tick ==
    /\ log' = [r \in Rows |-> Older(log[r])]
    /\ sinceMidnight' = IF sinceMidnight + 1 = Day THEN 0 ELSE sinceMidnight + 1
    /\ today' = IF sinceMidnight' = 0 THEN 0 ELSE today
    /\ UNCHANGED <<caller, sinceCleanup>>

-----------------------------------------------------------------------------
Next ==
    \/ \E c \in Callers :
          \/ Select(c) \/ AttemptSucceeds(c) \/ AttemptFails(c)
          \/ Preflight(c) \/ Reserve(c) \/ PinnedSucceeds(c) \/ PinnedFails(c)
          \/ Restart(c)
    \/ Tick

Spec == Init /\ [][Next]_vars

-----------------------------------------------------------------------------
(* Properties.                                                             *)

Reserved == {r \in Logged : log[r].kind = "reserved"}

\* check_and_reserve is atomic across processes: whatever is recorded beside
\* it, the reservations alone never exceed a limit per minute or per day.
ReservationsWithinLimits ==
    /\ RpmLimit # Off => Cardinality(InWindow \cap Reserved) <= RpmLimit
    /\ RpdLimit \notin {None, 0} => Cardinality(InDay \cap Reserved) <= RpdLimit

\* What the dispatches in flight may still record, and what they may at most.
Attempts == {a \in Callers \X (1 .. MaxAttempts) : a[2] <= caller[a[1]].left}
Pending == Cardinality(Attempts)

InFlight == MaxAttempts * Cardinality(Cascading) + Cardinality(Pinned)

\* Nothing but what is in flight overshoots a limit: once a gate has seen room,
\* the requests recorded and those the dispatches in flight may still record,
\* and their tokens, exceed it by at most one dispatch of every caller.
OvershootIsBounded ==
    /\ RpmLimit # Off => Cardinality(InWindow) + Pending <= RpmLimit + InFlight
    /\ RpdLimit \notin {None, 0} => Cardinality(InDay) + Pending <= RpdLimit + InFlight
    /\ TpmLimit # Off =>
          TokensOf(InWindow) + MaxTokens * Pending < TpmLimit + MaxTokens * InFlight
    /\ DailyTokenCap # Off =>
          TokensOf(InDay) + MaxTokens * Pending < DailyTokenCap + MaxTokens * InFlight

\* Every request recorded since midnight counts today, whatever cleanups and
\* restarts have removed, and none of yesterday's does.
DayIsComplete == Cardinality(InDay) = today

=============================================================================
