--------------------------- MODULE MCBudgetTracker ---------------------------
(***************************************************************************)
(* Model-checking instance of BudgetTracker.                               *)
(***************************************************************************)
EXTENDS BudgetTracker, TLC

Symmetry == Permutations(Rows) \cup Permutations(Pinned)
=============================================================================
