---------------------------- MODULE MCRateLimiter ----------------------------
(***************************************************************************)
(* Model-checking instance of RateLimiter: one key of limit OneLimit, and  *)
(* the others without a limit.                                             *)
(***************************************************************************)
EXTENDS RateLimiter

CONSTANTS OneKey, OneLimit

MCLimit == [k \in Keys |-> IF k = OneKey THEN OneLimit ELSE Unlimited]
=============================================================================
