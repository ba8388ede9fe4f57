-------------------------- MODULE MCMatrixLifecycle --------------------------
(***************************************************************************)
(* Model-checking instance of MatrixLifecycle: one model the profile knows *)
(* and one it does not, two roles with different ranks, so that a model    *)
(* leaves one role while it still decays in the other.                     *)
(***************************************************************************)
EXTENDS MatrixLifecycle

CONSTANTS profiled, plain, coding, review

MCModels == {profiled, plain}
MCRoles == {coding, review}
MCHeuristic == [r \in Roles |-> [m \in Models |-> IF r = coding THEN 40 ELSE 20]]
MCProfile == [r \in Roles |-> [m \in Models |-> IF m = profiled THEN {30} ELSE {}]]
=============================================================================
