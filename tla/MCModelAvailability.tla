------------------------- MODULE MCModelAvailability -------------------------
(***************************************************************************)
(* Model-checking instance of ModelAvailability: two models of one         *)
(* provider, or one model, as the configuration says.                      *)
(***************************************************************************)
EXTENDS ModelAvailability, TLC

CONSTANT OneProvider

MCProviders == {OneProvider}
MCProviderOf == [m \in Models |-> OneProvider]

\* Every model is of the one provider.
Symmetry == Permutations(Processes) \cup Permutations(Models)
=============================================================================
