------------------------- MODULE SpectrographyScores -------------------------
(***************************************************************************)
(* The arithmetic of the spectrography reports                             *)
(* (spectrography/analyzer.py, merge_incremental of                        *)
(* spectrography/lifecycle.py): the results of a run become a profile per  *)
(* model, ranked against the other models of the same run.                 *)
(*                                                                         *)
(* A result is a record of the model, the probe, the judge's normalized    *)
(* score and whether the evaluation failed.  The three                     *)
(* tables of a profile (task, domain, quality/speed) are one function of   *)
(* the dimensions; a score is a natural number on the scale 0..Unit, and   *)
(* Unit stands for 1.0.                                                    *)
(***************************************************************************)
EXTENDS Integers, FiniteSets, FiniteSetsExt

CONSTANTS
    Dim,        \* the dimensions of the three tables together
    DimsOf,     \* DimsOf[p]: the dimensions that probe p measures
    Unit,       \* the score 1.0; even, so that Neutral is exact
    Confirm,    \* _CONFIRM_THRESHOLD on the scale of Unit
    Review      \* _REVIEW_THRESHOLD on the scale of Unit

\* IBR_NEUTRAL_SPECTROGRAPH: what a dimension nobody measured is worth.
Neutral == Unit \div 2

Valid(results) == {r \in results : ~r.failed}

Measured(results) == {r.model : r \in Valid(results)}

\* The valid results of model m that count for dimension d.
Evidence(results, m, d) ==
    {r \in Valid(results) : r.model = m /\ d \in DimsOf[r.probe]}

Total(evidence) == MapThenSumSet(LAMBDA r : r.score, evidence)

\* Mean of a below mean of b, without a division.
MeanBelow(a, b) == Total(a) * Cardinality(b) < Total(b) * Cardinality(a)
MeanEqual(a, b) == Total(a) * Cardinality(b) = Total(b) * Cardinality(a)

\* aggregate_scores keeps the models in the order of their first valid result.
Earlier(results, m, n) ==
    \E r \in Valid(results) :
        /\ r.model = m
        /\ \A s \in Valid(results) : s.model = n => r.at < s.at

\* sorted() is stable: of two models with one mean the earlier one ranks lower.
RanksBelow(results, d, m, n) ==
    LET a == Evidence(results, m, d)
        b == Evidence(results, n, d)
    IN  \/ MeanBelow(a, b)
        \/ MeanEqual(a, b) /\ Earlier(results, m, n)

\* The models that were measured in dimension d at all.
Ranked(results, d) == {m \in Measured(results) : Evidence(results, m, d) # {}}

\* One model alone gets 0.5; of several, the worst 0.0 and the best 1.0.
RankScore(results, m, d) ==
    LET others == Ranked(results, d) \ {m}
        below  == {n \in others : RanksBelow(results, d, n, m)}
    IN  IF m \notin Ranked(results, d) \/ others = {} THEN Neutral
        ELSE (Cardinality(below) * Unit) \div Cardinality(others)

\* rank_normalize: every measured model gets every dimension, the ones this run
\* has no evidence for as neutral.
Profiles(results) ==
    [m \in Measured(results) |-> [d \in Dim |-> RankScore(results, m, d)]]

Delta(a, b) == IF a < b THEN b - a ELSE a - b

\* _delta_recommendation
Recommend(delta) ==
    IF delta <= Confirm THEN "confirm"
    ELSE IF delta <= Review THEN "review" ELSE "update"

\* compute_calibration_deltas: only models with a declared profile are compared.
Deltas(profiles, declared) ==
    [m \in DOMAIN profiles \cap DOMAIN declared |->
        [d \in Dim |-> Recommend(Delta(profiles[m][d], declared[m][d]))]]

\* merge_incremental: a measured model replaces its entry, every other is kept.
Merge(existing, new) ==
    [m \in DOMAIN existing \cup DOMAIN new |->
        IF m \in DOMAIN new THEN new[m] ELSE existing[m]]
=============================================================================
