-------------------------- MODULE CandidateSelection --------------------------
(***************************************************************************)
(* How candidates are chosen and put in order, in both of the router's     *)
(* ways: the cascade of a dispatch (selection/mbr.py, cbr.py, scoring.py,  *)
(* lbr.py, driven by dispatch/cascade.py) and the ranked list of a role    *)
(* (RouterEngine.select_models with selection/interleave.py).              *)
(*                                                                         *)
(* A dispatch filters by tier and health, then gives way to the event loop *)
(* while its intent is classified, then scores and filters by load: what   *)
(* the two halves read of the registry, the trackers and the catalog may   *)
(* differ.  Here the registry, the trackers and the catalog change at any  *)
(* time; the modules of those components say how.                          *)
(*                                                                         *)
(* Scores are integers: percents for the dimensions, hundredths for the    *)
(* weights; the scale of a composite is 20000, so that it can be halved.   *)
(***************************************************************************)
EXTENDS Integers, Sequences, FiniteSets, SequencesExt, FiniteSetsExt

CONSTANTS
    Backends,        \* the registered model ids, a sequence
    Tier,            \* Tier[b]: position in TIER_ORDER, 0 for LOCAL
    ProviderOf,      \* the adapter key that BackendConfig.provider holds
    NameOf,          \* the name of its provider in the configuration (_resolve_provider)
    Cost,            \* average of the two prices per million tokens
    Priority,        \* the best rank of the role matrix, 0..100
    ToolUsers,       \* backends with supports_tool_use
    Window,          \* max_context_tokens, the same for every registered backend
    Dear,            \* backends above their provider's max_cost_per_mtok
    Limit,           \* rpm_limit of a provider; 0 stands for an rpd_limit of 0
    Tracked,         \* names under which the budget tracker knows a provider
    Heard,           \* backends whose model name is also their id, see HealthAsked
    FloorOf,         \* category -> tier, _INTENT_TIER_FLOOR, 0 when not listed
    StakesOf,        \* category -> 0, 1, 2 (low, mid, high), Unlisted otherwise
    Orders,          \* DispatchOrders: category, tokens, long, tools, trust
    Matches,         \* spectrograph scores the intent stage may come back with
    RoleRank,        \* rank in the matrix of the role asked for, or the default
    MaxConsecutive,  \* max_consecutive_same_provider
    MaxChanges       \* bound: changes of the surroundings

Backend == Range(Backends)
Names == {NameOf[b] : b \in Backend}
Providers == {ProviderOf[b] : b \in Backend} \cup Names
Local == 0
Unlisted == -1
Statuses == {"available", "degraded", "circuit_open", "key_invalid", "retired"}
Healths == {"good", "fair", "bad", "open", "gone"}

ASSUME SelectionAssumption ==
    /\ MaxConsecutive \in Nat \ {0} /\ Window \in Nat
    /\ Backends \in Seq(Backend) /\ IsInjective(Backends)
    /\ \A b \in Backend : Tier[b] \in 0..3 /\ Priority[b] \in 0..100 /\ Cost[b] \in Nat
    \* The percents of CostScore tell prices apart, as the floats of the code do.
    /\ \A b, c \in Backend :
          Cost[b] < Cost[c] => 100 \div (Cost[b] + 1) > 100 \div (Cost[c] + 1)
    /\ \A m \in Matches : m \in [Backend -> 0..100]
    /\ \A p \in Providers : Limit[p] \in Nat
    /\ Orders # {}
    /\ \A o \in Orders : /\ o.tokens \in Nat /\ o.trust \in 0..3
                         /\ FloorOf[o.category] \in 0..3
                         /\ StakesOf[o.category] \in (0..2) \cup {Unlisted}

VARIABLES
    status,     \* BackendState.status in the registry
    health,     \* what the health tracker holds of a model id, in five classes
    used,       \* requests of the minute, per name they are recorded under
    governor,   \* cost_governor_active: the spend is over a threshold
    fetched,    \* providers in the catalog
    live,       \* models in the catalog
    phase, order,
    kept,       \* the dispatch: what is left when the intent stage begins
    match,      \* the spectrograph scores it came back with
    outcome,    \* the dispatch: the ranked candidates, or why there are none
    listing,    \* select_models: the interleaved list; its first top_n are returned
    changes

surroundings == <<status, health, used, governor, fetched, live>>
choice == <<phase, order, kept, match, outcome, listing>>
selectionVars == <<surroundings, choice, changes>>

-----------------------------------------------------------------------------
(* Lists.  They are written by the place of each element, without recursion, so that *)
(* what they contain and in which order can be proved.                               *)

\* Among T, the one with k - 1 others before it.
Nth(T, Before, k) == CHOOSE i \in T : Cardinality({j \in T : <<j, i>> \in Before}) = k - 1

\* f of the elements of T, one after the other.
Arranged(f, T, Before) == [k \in 1..Cardinality(T) |-> f[Nth(T, Before, k)]]

\* [b for b in list if b in S]
Filtered(list, S) ==
    LET T == {i \in DOMAIN list : list[i] \in S}
    IN  Arranged(list, T, {p \in T \X T : p[1] < p[2]})

\* list.sort(key, reverse=True): what is equal keeps its order.
Sooner(list, key) ==
    {p \in (DOMAIN list) \X (DOMAIN list) :
        LET one == key[list[p[1]]]
            two == key[list[p[2]]]
        IN  one > two \/ (one = two /\ p[1] < p[2])}
Sorted(list, key) == Arranged(list, DOMAIN list, Sooner(list, key))

\* Twice the median of f[1], f[2], ...: the middle, or the two in the middle.
Median2(f) ==
    LET n     == Len(f)
        lined == Sorted(f, [v \in Range(f) |-> v])
    IN  IF n % 2 = 1 THEN 2 * lined[(n + 1) \div 2]
        ELSE lined[n \div 2] + lined[n \div 2 + 1]

-----------------------------------------------------------------------------
(* MBR: tier, capability, health *)

\* estimate_complexity, _apply_intent_floor
RequestedTier(o) ==
    LET estimate == IF o.tokens > 8192 THEN 3
                    ELSE IF o.tools = "required" THEN 2
                    ELSE IF o.long \/ o.tokens > 4096 THEN 1 ELSE Local
    IN  Max({estimate, FloorOf[o.category]})

\* _resolve_tiers_to_try: the requested tier and all above it.
TiersToTry(tier) == [i \in 1..(4 - tier) |-> tier + i - 1]

\* _meets_requirements
Capable(b, o) == o.tokens <= Window /\ (o.tools # "none" => b \in ToolUsers)

\* _filter_healthy, _is_backend_healthy
Healthy(b) == Tier[b] = Local \/ status[b] \notin {"circuit_open", "key_invalid"}

\* filter_by_capabilities: _try_tiers collects every tier, the lowest first.
MbrStage(o) ==
    LET tiers == TiersToTry(RequestedTier(o))
        found == {p \in (DOMAIN tiers) \X (DOMAIN Backends) :
                     LET b == Backends[p[2]]
                     IN  Tier[b] = tiers[p[1]] /\ Capable(b, o) /\ Healthy(b)}
    IN  Arranged([p \in found |-> Backends[p[2]]], found,
                 {q \in found \X found : \/ q[1][1] < q[2][1]
                                         \/ q[1][1] = q[2][1] /\ q[1][2] < q[2][2]})

\* _tier_to_provider_trust: LOCAL is trusted most, then COMPLEX.
TrustOf(b) == IF Tier[b] = Local THEN 3 ELSE IF Tier[b] = 3 THEN 2 ELSE 1

\* _run_cascade before its await: not retired, trusted enough, not too dear.
Admitted(b, o) == health[b] # "gone" /\ TrustOf(b) >= o.trust /\ b \notin Dear

-----------------------------------------------------------------------------
(* Scores *)

\* BudgetTracker.score; a provider it does not know, or without a limit, scores 100.
BudgetScore(p) ==
    IF p \notin Tracked \/ Limit[p] = 0 THEN 100
    ELSE (100 * Max({0, Limit[p] - used[p]})) \div Limit[p]

\* BudgetTracker.has_capacity, where a daily limit of 0 means no request at all.
HasCapacity(p) == p \notin Tracked \/ used[p] < Limit[p]

\* HealthTracker.score
HealthScore(b) ==
    CASE health[b] = "good" -> 100 [] health[b] = "fair" -> 70
      [] health[b] = "bad" -> 30 [] OTHER -> 0

\* _extract_raw_scores asks for config.model; outcomes are recorded under the id.
HealthAsked(b) == IF b \in Heard THEN HealthScore(b) ELSE 100

\* Mutant: the dearer, the better.
DearScore(b) == Min({Cost[b], 100})

CostScore(b) == 100 \div (Cost[b] + 1)

Weights(c, l, p, q, h, m) ==
    [cost |-> c, latency |-> l, priority |-> p, queue |-> q, health |-> h, match |-> m]
DefaultWeights == Weights(20, 25, 20, 10, 10, 15)
StakesWeights ==
    [s \in 0..2 |-> CASE s = 0 -> Weights(35, 30, 10, 10, 5, 10)
                      [] s = 1 -> Weights(15, 20, 25, 10, 10, 20)
                      [] s = 2 -> Weights(10, 10, 30, 10, 15, 25)]

\* cost_adjusted_weights
Governed(w) ==
    IF ~governor THEN w
    ELSE IF w.match > 0 THEN Weights(65, 10, 10, 5, 5, 5) ELSE Weights(70, 10, 10, 5, 5, 0)

\* Mutant: the use of tools sets the stakes instead of raising them.
StakesSet(o) ==
    IF o.tools = "required" THEN 1
    ELSE Max({IF StakesOf[o.category] = Unlisted THEN 1 ELSE StakesOf[o.category],
              IF o.tokens > 32000 THEN 2 ELSE IF o.tokens > 8000 THEN 1 ELSE 0,
              IF o.trust >= 2 THEN 2 ELSE 0})

\* classify_request_stakes: the category, raised by what else the order says.
Stakes(o) ==
    Max({IF StakesOf[o.category] = Unlisted THEN 1 ELSE StakesOf[o.category],
         IF o.tokens > 32000 THEN 2 ELSE IF o.tokens > 8000 THEN 1 ELSE 0,
         IF o.tools = "required" THEN 1 ELSE 0,
         IF o.trust >= 2 THEN 2 ELSE 0})

\* _resolve_cbr_weights: there is always an order and its stakes are always listed,
\* so that neither the weights of the intent stage nor the default are ever used.
WeightsFor(o) ==
    LET byStakes == StakesWeights[Stakes(o)]
        byIntent == StakesWeights[StakesOf[o.category]]
    IN  IF StakesOf[o.category] = Unlisted THEN byStakes
        ELSE IF byStakes.match > byIntent.match THEN byStakes ELSE byIntent

\* score_candidate: the latency is the health score once more.
Composite(b, w, m) ==
    2 * (CostScore(b) * w.cost + HealthAsked(b) * (w.latency + w.health)
         + Priority[b] * w.priority + BudgetScore(ProviderOf[b]) * w.queue + m * w.match)

\* _apply_degraded_penalty
Penalised(b, score) == IF status[b] = "degraded" THEN score \div 2 ELSE score

\* filter_by_cost, then _score_and_rank_candidates: two sorts, one after the other.
CbrStage(list, o, m) ==
    LET paid  == Filtered(list, {b \in Backend : BudgetScore(ProviderOf[b]) > 0})
        first  == [b \in Range(paid) |-> Composite(b, Governed(DefaultWeights), 0)]
        second == [b \in Range(paid) |->
                      Penalised(b, Composite(b, Governed(WeightsFor(o)), m[b]))]
    IN  Sorted(Sorted(paid, first), second)

-----------------------------------------------------------------------------
(* LBR: load *)

\* Mutants: a score has to be above the median; the loaded half is kept.
Above(score, median2) == 2 * score > median2
Loaded(score, median2) == 2 * score <= median2

Retained(score, median2) == 2 * score >= median2

\* filter_by_rate_limit: a hard gate, then the median of what is left.
LbrStage(list) ==
    LET open   == Filtered(list, {b \in Backend : Tier[b] = Local \/ HasCapacity(ProviderOf[b])})
        scores == [i \in DOMAIN open |-> BudgetScore(ProviderOf[open[i]])]
    IN  IF open = <<>> THEN <<>>
        ELSE Filtered(open, {b \in Backend :
                 Tier[b] = Local \/ Retained(BudgetScore(ProviderOf[b]), Median2(scores))})

-----------------------------------------------------------------------------
(* The list of a role *)

\* compute_composite_score on the scale of 100.
RoleScore(b) == RoleRank[b] * 60 + BudgetScore(NameOf[b]) * 25 + HealthScore(b) * 15

\* _filter_by_catalog
InCatalog ==
    {b \in Backend : /\ NameOf[b] \in fetched => b \in live
                     /\ status[b] # "key_invalid"}

\* _score_candidates sorts a set, so that models of one score come in any order.
Scored ==
    {list \in SetToSeqs(InCatalog) :
        \A i, j \in DOMAIN list : i < j => RoleScore(list[i]) >= RoleScore(list[j])}

CountOf(list, p) == Cardinality({i \in DOMAIN list : NameOf[list[i]] = p})

\* _is_constraint_satisfiable
Satisfiable(list) ==
    \A p \in {NameOf[b] : b \in Range(list)} :
        CountOf(list, p) <= MaxConsecutive * (Len(list) - CountOf(list, p) + 1)

\* Mutant: one too many in a row.
CanPlaceOneMore(done, p) ==
    \/ Len(done) < MaxConsecutive + 1
    \/ \E k \in (Len(done) - MaxConsecutive)..Len(done) : NameOf[done[k]] # p

\* _can_place: the last MaxConsecutive models are not all of p.
CanPlace(done, p) ==
    \/ Len(done) < MaxConsecutive
    \/ \E k \in (Len(done) - MaxConsecutive + 1)..Len(done) : NameOf[done[k]] # p

\* Mutant: the model that was placed is not the one that is taken off.
PlaceAndForget(state) ==
    LET fits == {i \in DOMAIN state.rest : CanPlace(state.done, NameOf[state.rest[i]])}
    IN  IF fits = {} THEN [done |-> state.done \o state.rest, rest |-> <<>>]
        ELSE [done |-> Append(state.done, state.rest[Min(fits)]), rest |-> Tail(state.rest)]

\* _try_place_best: the first model that fits; when none does, all that is left.
PlaceBest(state) ==
    LET fits == {i \in DOMAIN state.rest : CanPlace(state.done, NameOf[state.rest[i]])}
        best == Min(fits)
    IN  IF fits = {} THEN [done |-> state.done \o state.rest, rest |-> <<>>]
        ELSE [done |-> Append(state.done, state.rest[best]),
              rest |-> RemoveAt(state.rest, best)]

\* _build_interleaved: what is placed and what remains, round by round.
Rounds(list) ==
    LET round[k \in 0..Len(list)] ==
            IF k = 0 THEN [done |-> <<>>, rest |-> list] ELSE PlaceBest(round[k - 1])
    IN  round

\* interleave_providers
Interleaved(list) == IF Satisfiable(list) THEN Rounds(list)[Len(list)].done ELSE list

-----------------------------------------------------------------------------

NoOutcome == [kind |-> "none", list |-> <<>>]
NoMatch == [b \in Backend |-> 0]
Nobody == CHOOSE o \in Orders : TRUE

SelectionInit ==
    /\ status = [b \in Backend |-> "available"]
    /\ health = [b \in Backend |-> "good"]
    /\ used = [p \in Providers |-> 0]
    /\ governor = FALSE
    /\ fetched = {} /\ live = {}
    /\ phase = "idle" /\ order = Nobody
    /\ kept = <<>> /\ match = NoMatch /\ outcome = NoOutcome /\ listing = <<>>
    /\ changes = 0

\* _run_cascade up to its await.
Submit(o) ==
    LET left == Filtered(MbrStage(o), {b \in Backend : Admitted(b, o)})
    IN  /\ phase = "idle"
        /\ order' = o /\ kept' = left
        /\ \/ left = <<>> /\ phase' = "done"
              /\ outcome' = [kind |-> "no_candidates", list |-> <<>>]
           \/ left # <<>> /\ phase' = "classifying" /\ UNCHANGED outcome
        /\ UNCHANGED <<surroundings, match, listing, changes>>

\* _run_cascade after its await; without an active intent stage every match is 0.
Rank(m) ==
    LET paid == CbrStage(kept, order, m)
        left == LbrStage(paid)
    IN  /\ phase = "classifying"
        /\ phase' = "done" /\ match' = m
        /\ outcome' = [kind |-> IF paid = <<>> THEN "no_budget"
                                ELSE IF left = <<>> THEN "no_capacity" ELSE "ranked",
                       list |-> left]
        /\ UNCHANGED <<surroundings, order, kept, listing, changes>>

SelectModels ==
    /\ phase = "idle"
    /\ \E list \in Scored : listing' = Interleaved(list)
    /\ phase' = "done"
    /\ UNCHANGED <<surroundings, order, kept, match, outcome, changes>>

Return ==
    /\ phase = "done" /\ phase' = "idle"
    /\ order' = Nobody /\ kept' = <<>> /\ match' = NoMatch
    /\ outcome' = NoOutcome /\ listing' = <<>>
    /\ UNCHANGED <<surroundings, changes>>

Change == changes < MaxChanges /\ changes' = changes + 1 /\ UNCHANGED choice

\* Requests are counted, and leave the window of the minute.
UsageChanges(p) ==
    /\ Change
    /\ used' \in {[used EXCEPT ![p] = @ - 1], [used EXCEPT ![p] = @ + 1]}
    /\ used'[p] \in 0..(Limit[p] + 1)
    /\ UNCHANGED <<status, health, governor, fetched, live>>

\* Models fail, recover, are retired and reinstated by the health tracker.
HealthChanges(b, h) ==
    /\ Change
    /\ h # health[b] /\ health' = [health EXCEPT ![b] = h]
    /\ UNCHANGED <<status, used, governor, fetched, live>>

\* The check loop, a refresh of the catalog and an administrator set a status.
StatusChanges(b, s) ==
    /\ Change
    /\ s # status[b] /\ status' = [status EXCEPT ![b] = s]
    /\ UNCHANGED <<health, used, governor, fetched, live>>

\* The spend crosses a threshold of the day, or a new day begins.
SpendChanges ==
    /\ Change
    /\ governor' = ~governor
    /\ UNCHANGED <<status, health, used, fetched, live>>

\* A refresh replaces what the catalog knows of a provider.
CatalogChanges(p, found) ==
    /\ Change
    /\ fetched' = fetched \cup {p}
    /\ live' = {b \in live : NameOf[b] # p} \cup found
    /\ UNCHANGED <<status, health, used, governor>>

Surroundings ==
    \/ \E p \in Providers : UsageChanges(p)
    \/ \E b \in Backend, h \in Healths : HealthChanges(b, h)
    \/ \E b \in Backend, s \in Statuses : StatusChanges(b, s)
    \/ SpendChanges
    \/ \E p \in Names : \E found \in SUBSET {b \in Backend : NameOf[b] = p} :
          CatalogChanges(p, found)

SelectionNext ==
    \/ \E o \in Orders : Submit(o)
    \/ \E m \in Matches : Rank(m)
    \/ SelectModels
    \/ Return
    \/ Surroundings

SelectionSpec == SelectionInit /\ [][SelectionNext]_selectionVars

-----------------------------------------------------------------------------

\* The type invariant; a dispatch never has a candidate twice.
SelectionTypeOK ==
    /\ status \in [Backend -> Statuses] /\ health \in [Backend -> Healths]
    /\ DOMAIN used = Providers /\ \A p \in Providers : used[p] \in 0..(Limit[p] + 1)
    /\ governor \in BOOLEAN /\ fetched \subseteq Providers /\ live \subseteq Backend
    /\ phase \in {"idle", "classifying", "done"} /\ order \in Orders
    /\ \A list \in {kept, outcome.list} : list \in Seq(Backend) /\ IsInjective(list)
    /\ match \in Matches \cup {NoMatch}
    /\ outcome.kind \in {"none", "no_candidates", "no_budget", "no_capacity", "ranked"}

Choosing == outcome' # outcome /\ phase = "classifying"

\* A dispatch is refused only when nobody could serve it: neither the two sorts nor the
\* median filter ever lose the last candidate that has budget and capacity, whatever
\* changed while the intent was classified (_run_cascade).
RefusalIsEarned ==
    [][/\ outcome'.kind = "no_candidates" /\ phase = "idle" =>
             \A b \in Backend :
                 ~(/\ Tier[b] >= RequestedTier(order') /\ Capable(b, order')
                   /\ Healthy(b) /\ Admitted(b, order'))
       /\ Choosing /\ outcome'.list = <<>> =>
             \A b \in Range(kept) :
                 \/ BudgetScore(ProviderOf[b]) = 0
                 \/ Tier[b] # Local /\ ~HasCapacity(ProviderOf[b])]_selectionVars

\* The median filter takes from the loaded end: a candidate with capacity is left out only
\* if its provider has less budget than that of every remote candidate that stays.
LoadedIsLeft ==
    [][Choosing => \A b \in Range(kept) \ Range(outcome'.list), c \in Range(outcome'.list) :
          LET p == ProviderOf[b] q == ProviderOf[c] IN
          \/ ~HasCapacity(p) \/ BudgetScore(p) = 0 \/ Tier[c] = Local
          \/ BudgetScore(p) < BudgetScore(q)]_selectionVars

\* A candidate that is at least as good as another in all that the router knows of it, and
\* better in something, comes first, for every order and every weighting: two sorts, a
\* penalty and a filter do not turn that around (score_candidate).
NoWorse(c, b, m) ==
    /\ Cost[c] <= Cost[b] /\ HealthAsked(c) >= HealthAsked(b) /\ Priority[c] >= Priority[b]
    /\ BudgetScore(ProviderOf[c]) >= BudgetScore(ProviderOf[b]) /\ m[c] >= m[b]
    /\ status[c] = "degraded" => status[b] = "degraded"
Better(c, b, m) == NoWorse(c, b, m) /\ ~NoWorse(b, c, m)
BetterRanksFirst ==
    [][Choosing => \A i, j \in DOMAIN outcome'.list :
          Better(outcome'.list[j], outcome'.list[i], match') => j < i]_selectionVars

\* HAZ-013: an order that asks for more never gets the tier or the weights of lower stakes:
\* the signals of an order only ever raise each other (classify_request_stakes).
AsksMore(o, q) ==
    /\ o.category = q.category /\ o.tokens >= q.tokens /\ o.trust >= q.trust
    /\ q.long => o.long
    /\ q.tools = "required" => o.tools = "required"
EscalationIsMonotone ==
    \A o \in Orders : AsksMore(o, order) =>
        /\ RequestedTier(o) >= RequestedTier(order)
        /\ WeightsFor(o).match >= WeightsFor(order).match

\* What is interleaved is still every model of the catalog, each of them once: placing out
\* of order loses nobody (interleave_providers).
ListingIsWhole ==
    [][listing' # listing /\ phase = "idle" =>
          Range(listing') = InCatalog /\ Len(listing') = Cardinality(InCatalog)]_selectionVars

\* Where the counts allow it, a provider comes more than MaxConsecutive times in a row only
\* at the end, when nobody else is left (interleave_providers).
OnlyTheTailRepeats ==
    Satisfiable(listing) => \A i \in MaxConsecutive + 1..Len(listing) :
        \/ \E k \in i - MaxConsecutive..i : NameOf[listing[k]] # NameOf[listing[i]]
        \/ \A j \in i..Len(listing) : NameOf[listing[j]] = NameOf[listing[i]]

=============================================================================
