------------------------- MODULE AvailabilityPromise -------------------------
(***************************************************************************)
(* What HealthTracker promises to the calls of one process about the       *)
(* models that is_retired says "yes" to (health/tracker.py), whatever      *)
(* dictionary or table the answer comes from and whatever other processes  *)
(* do: only a failure puts a model out, and no other models with it than   *)
(* those of its provider; a model that is gone comes back only when it is  *)
(* reinstated, one that is suspended by itself.  Nothing is said of how    *)
(* long a suspension lasts.                                                *)
(***************************************************************************)
CONSTANTS Models, ProviderOf

VARIABLES gone, suspended       \* what is_retired says "yes" to

vars == <<gone, suspended>>

Init == gone = {} /\ suspended = {}

Siblings(m) == {n \in Models : ProviderOf[n] = ProviderOf[m]}

\* A model has answered 404 or 410, to this process or to another.
Retire(m) == gone' = gone \cup {m} /\ UNCHANGED suspended

\* It has answered 403, 429 or 5xx; so many 403s put out its provider.
Suspend(m, others) ==
    /\ others \subseteq Siblings(m)
    /\ suspended' = suspended \cup {m} \cup others
    /\ UNCHANGED gone

Fail(m) == Retire(m) \/ \E others \in SUBSET Siblings(m) : Suspend(m, others)

\* Suspensions run out.
Recover(over) == suspended' = suspended \ over /\ UNCHANGED gone

\* Somebody reinstates a model.
Reinstate(m) ==
    /\ gone' = gone \ {m}
    /\ suspended' \in {suspended, suspended \ {m}}

Next ==
    \/ \E m \in Models : Fail(m) \/ Reinstate(m)
    \/ \E over \in SUBSET Models : Recover(over)

\* The process starts again, and has what the database tells it.
StartAgain == gone' \subseteq gone /\ suspended' \subseteq suspended

Spec == Init /\ [][Next \/ StartAgain]_vars
=============================================================================
