-------------------------- MODULE MCCascadeDispatch --------------------------
(***************************************************************************)
(* Model-checking instance of CascadeDispatch: one backend of one tier,    *)
(* the others of another; one of a provider of its own.                    *)
(***************************************************************************)
EXTENDS CascadeDispatch

CONSTANTS
    Odd,        \* the backend of a tier of its own
    Alone       \* the backend of a provider of its own

MCProviderOf == [b \in Backends |-> IF b = Alone THEN "alone" ELSE "both"]
MCTier == [b \in Backends |-> IF b = Odd THEN "complex" ELSE "moderate"]
=============================================================================
