----------------------------- MODULE RateLimiter -----------------------------
(***************************************************************************)
(* The cross-process rate limiter (rate/limiter.py): rows of rate_slots in *)
(* one SQLite file, shared by the processes that call acquire before and   *)
(* release after a request.  A row is kept as its age, the time since its  *)
(* acquired_at; expires_at is always acquired_at + SlotTtl.                *)
(*                                                                         *)
(* acquire reads the clock before BEGIN IMMEDIATE and may then wait for    *)
(* the lock, so its "now" lies up to MaxDelay behind when the transaction  *)
(* runs; the transaction itself is one step.  get_usage prunes in a        *)
(* transaction it never commits, and so changes nothing.                   *)
(***************************************************************************)
EXTENDS Integers, FiniteSets

CONSTANTS
    Processes,
    Keys,        \* rate_key: the env variable of an API key, or a provider
    Slots,       \* slot ids; a uuid in the code, here reused once nobody has it
    Limit,       \* key -> RPM, or Unlimited
    SlotTtl,     \* _DEFAULT_SLOT_TTL_SECONDS
    Window,      \* _WINDOW_SECONDS
    MaxDelay     \* bound on the wait for the write lock (busy_timeout)

Unlimited == 0

ASSUME LimiterAssumption ==
    /\ IsFiniteSet(Slots)
    /\ Limit \in [Keys -> Nat]
    /\ "none" \notin Keys
    /\ SlotTtl \in Nat \ {0} /\ Window \in Nat \ {0} /\ MaxDelay \in Nat
    /\ SlotTtl <= Window

\* No comparison of the code tells two older ages apart.
MaxAge == (IF SlotTtl < Window THEN Window ELSE SlotTtl) + MaxDelay

NoRow == [key |-> "none", age |-> 0]
NotAsking == [key |-> "none", delay |-> 0]

VARIABLES
    row,        \* slot id -> its row, or NoRow
    asking,     \* process -> key of the acquire it is in and age of its "now"
    using       \* process -> slots granted to it and not yet released

vars == <<row, asking, using>>

Rows == {NoRow} \cup [key : Keys, age : 0 .. MaxAge]

TypeOK ==
    /\ row \in [Slots -> Rows]
    /\ asking \in [Processes -> {NotAsking} \cup [key : Keys, delay : 0 .. MaxDelay]]
    /\ using \in [Processes -> SUBSET Slots]

Init ==
    /\ row = [s \in Slots |-> NoRow]
    /\ asking = [p \in Processes |-> NotAsking]
    /\ using = [p \in Processes |-> {}]

-----------------------------------------------------------------------------
Idle(p) == asking[p] = NotAsking

\* Below, d is how far the reader's clock lies behind.
RowsOf(k) == {s \in Slots : row[s].key = k}

\* _prune_expired's WHERE.
Expired(s, d) == row[s] # NoRow /\ row[s].age - d >= SlotTtl

\* Mutant: the limit is compared with the rows beside the new one.
HasRoom_OffByOne(k, d) ==
    \/ Limit[k] = Unlimited
    \/ Cardinality({s \in RowsOf(k) : ~Expired(s, d) /\ row[s].age - d < Window}) <= Limit[k]

\* What acquire's transaction counts, once it has pruned.
HasRoom(k, d) ==
    \/ Limit[k] = Unlimited
    \/ Cardinality({s \in RowsOf(k) : ~Expired(s, d) /\ row[s].age - d < Window}) < Limit[k]

\* A new id: one that nobody holds and no row has once the expired are pruned.
Fresh(d) ==
    {s \in Slots : (row[s] = NoRow \/ Expired(s, d)) /\ \A p \in Processes : s \notin using[p]}

\* acquire, up to reading the clock.
Ask(p, k) ==
    /\ Idle(p)
    /\ asking' = [asking EXCEPT ![p] = [key |-> k, delay |-> 0]]
    /\ UNCHANGED <<row, using>>

\* The row a grant inserts, stamped with the "now" it read.
NewRow(k, d) == [key |-> k, age |-> d]

\* acquire's transaction finds room: prune, count, insert, commit.
Grant(p, s) ==
    LET k == asking[p].key
        d == asking[p].delay
    IN  /\ ~Idle(p) /\ s \in Fresh(d) /\ HasRoom(k, d)
        /\ row' = [t \in Slots |-> IF t = s THEN NewRow(k, d)
                                   ELSE IF Expired(t, d) THEN NoRow ELSE row[t]]
        /\ using' = [using EXCEPT ![p] = @ \cup {s}]
        /\ asking' = [asking EXCEPT ![p] = NotAsking]

\* Mutant: a refusal touches the key's rows.
Deny_Renews(p) ==
    LET k == asking[p].key
        d == asking[p].delay
    IN  /\ ~Idle(p) /\ ~HasRoom(k, d)
        /\ row' = [t \in Slots |-> IF Expired(t, d) THEN NoRow
                                   ELSE IF row[t].key = k THEN NewRow(k, d) ELSE row[t]]
        /\ asking' = [asking EXCEPT ![p] = NotAsking]
        /\ UNCHANGED using

\* It finds none: the pruning is committed, the caller is told to retry.
Deny(p) ==
    LET d == asking[p].delay
    IN  /\ ~Idle(p) /\ ~HasRoom(asking[p].key, d)
        /\ row' = [t \in Slots |-> IF Expired(t, d) THEN NoRow ELSE row[t]]
        /\ asking' = [asking EXCEPT ![p] = NotAsking]
        /\ UNCHANGED using

\* The lock does not come within busy_timeout: sqlite3 raises, acquire with it.
GiveUp(p) ==
    /\ ~Idle(p) /\ asking[p].delay = MaxDelay
    /\ asking' = [asking EXCEPT ![p] = NotAsking]
    /\ UNCHANGED <<row, using>>

\* release, by slot id, whether the row is still there or not.
Release(p, s) ==
    /\ Idle(p) /\ s \in using[p]
    /\ row' = [row EXCEPT ![s] = NoRow]
    /\ using' = [using EXCEPT ![p] = @ \ {s}]
    /\ UNCHANGED asking

\* A process dies: its rows stay.
Crash(p) ==
    /\ asking' = [asking EXCEPT ![p] = NotAsking]
    /\ using' = [using EXCEPT ![p] = {}]
    /\ UNCHANGED row

Tick ==
    /\ \A p \in Processes : asking[p].delay < MaxDelay
    /\ row' = [s \in Slots |->
                  IF row[s] = NoRow \/ row[s].age = MaxAge THEN row[s]
                  ELSE [row[s] EXCEPT !.age = @ + 1]]
    /\ asking' = [p \in Processes |->
                     IF Idle(p) THEN NotAsking ELSE [asking[p] EXCEPT !.delay = @ + 1]]
    /\ UNCHANGED using

-----------------------------------------------------------------------------
Decide(p) == Deny(p) \/ \E s \in Slots : Grant(p, s)

Next ==
    \/ \E p \in Processes :
          \/ \E k \in Keys : Ask(p, k)
          \/ Decide(p)
          \/ GiveUp(p)
          \/ \E s \in Slots : Release(p, s)
          \/ Crash(p)
    \/ Tick

Spec == Init /\ [][Next]_vars

(* Fairness: time passes, and an acquire ends, at the latest with the      *)
(* timeout of its lock.  Nobody has to ask or to release.                  *)
Fairness == WF_vars(Tick) /\ \A p \in Processes : WF_vars(Decide(p) \/ GiveUp(p))

FairSpec == Spec /\ Fairness

-----------------------------------------------------------------------------
(* Properties.                                                             *)

Live(s) == row[s] # NoRow /\ row[s].age < SlotTtl

\* However late the clock of an acquire, the processes together never have
\* more slots of a key that are younger than the TTL than its limit.
LiveWithinLimit ==
    \A k \in Keys : Limit[k] # Unlimited =>
        Cardinality({s \in RowsOf(k) : Live(s)}) <= Limit[k]

\* A slot somebody still uses is counted for its whole TTL: no other release,
\* no pruning with another process's clock drops it early.
KeepsUsedRows ==
    \A p \in Processes, s \in Slots :
        (s \in using[p] /\ Live(s) /\ s \in using'[p]) => row'[s] # NoRow

\* No step drops the row of a slot in use (acquire, release, _prune_expired).
UsedIsCounted == [][KeepsUsedRows]_vars

\* "If a process crashes without releasing, the slot auto-expires after 30
\* seconds" (factory-router-service-boundary.md:253): as long as somebody gets
\* an answer now and then, somebody gets a slot, though nobody ever releases.
AskersAreServed ==
    []<><<\E p \in Processes : Decide(p)>>_vars
        => []<><<\E p \in Processes, s \in Slots : Grant(p, s)>>_vars

=============================================================================
