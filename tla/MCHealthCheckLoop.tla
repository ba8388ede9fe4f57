-------------------------- MODULE MCHealthCheckLoop --------------------------
(***************************************************************************)
(* Model-checking instance of HealthCheckLoop.                             *)
(***************************************************************************)
EXTENDS HealthCheckLoop

=============================================================================
