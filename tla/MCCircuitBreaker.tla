-------------------------- MODULE MCCircuitBreaker --------------------------
(***************************************************************************)
(* Model-checking instance of CircuitBreaker: the configurations           *)
(* MCBreaker*.cfg choose the callers and the durations.                    *)
(***************************************************************************)
EXTENDS CircuitBreaker

=============================================================================
