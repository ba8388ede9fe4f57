--------------------------- MODULE DispatchPromise ---------------------------
(***************************************************************************)
(* What the cascade promises of a dispatch (dispatch/cascade.py), whatever *)
(* the order of its backends and the reasons to pass over one: it asks     *)
(* backends one after the other, never one a second time, and ends with    *)
(* the answer of the one it waits for, with a failure, because the caller  *)
(* went away, or because of an error it does not handle.                   *)
(***************************************************************************)
CONSTANTS Backends, Calls

VARIABLES
    tried,          \* call -> backends it has asked
    waiting,        \* call -> the one it waits for (a set of one, or of none)
    verdict         \* call -> how it ended, or none

vars == <<tried, waiting, verdict>>

Init ==
    /\ tried = [c \in Calls |-> {}]
    /\ waiting = [c \in Calls |-> {}]
    /\ verdict = [c \in Calls |-> "none"]

Open(c) == verdict[c] = "none"

Try(c, b) ==
    /\ Open(c) /\ b \notin tried[c]
    /\ tried' = [tried EXCEPT ![c] = @ \cup {b}]
    /\ waiting' = [waiting EXCEPT ![c] = {b}]
    /\ UNCHANGED verdict

End(c, reason) ==
    /\ Open(c)
    /\ waiting' = [waiting EXCEPT ![c] = {}]
    /\ verdict' = [verdict EXCEPT ![c] = reason]
    /\ UNCHANGED tried

Answer(c) == waiting[c] # {} /\ End(c, "answered")

GiveUp(c) == \E reason \in {"rejected", "exhausted", "cancelled", "raised"} : End(c, reason)

Next == \E c \in Calls : (\E b \in Backends : Try(c, b)) \/ Answer(c) \/ GiveUp(c)

Spec == Init /\ [][Next]_vars
=============================================================================
