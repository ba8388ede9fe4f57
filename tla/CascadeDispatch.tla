--------------------------- MODULE CascadeDispatch ---------------------------
(***************************************************************************)
(* The cascade's way through its backends (dispatch/cascade.py: dispatch   *)
(* and dispatch_stream): concurrent calls on one event loop choose and     *)
(* rank candidates, then ask one backend after the other until one         *)
(* answers.  A call gives way at two awaits only: the classification of    *)
(* the intent, between the filtering and the ranking, and the request to a *)
(* backend.  What it read before an await may be out of date after it.     *)
(*                                                                         *)
(* HealthTracker.is_retired is a set of backends here: those that are gone *)
(* for good and those that are suspended for a while, by failures of these *)
(* calls and of other processes, as AvailabilityPromise.tla says, which is *)
(* what ModelAvailability.tla is shown to promise to each process.         *)
(* Which backends meet an order (capabilities, trust floor, cost ceiling,  *)
(* key_invalid) and pass the gates of cost and rate is any set, and the    *)
(* ranking is any order.  The response cache is off, as nothing outside    *)
(* the tests configures it; pinned calls are not modelled here.            *)
(***************************************************************************)
EXTENDS Integers, FiniteSets, SequencesExt

CONSTANTS
    Backends,
    Calls,
    Tier,           \* backend -> BackendTier
    ProviderOf      \* backend -> the part of its name before the slash

ASSUME DispatchAssumption == IsFiniteSet(Backends)

VARIABLES
    gone, suspended,    \* what is_retired says "yes" to
    phase,              \* call -> where it is
    mode, policy,       \* call -> kind of request; fallback_policy of the order
    demanding,          \* calls whose order sets min_output_tokens
    candidates,         \* call -> backends kept while the intent is classified
    eligible,           \* call -> the backends to ask, best first
    at,                 \* call -> position in eligible
    chain,              \* call -> fallback_chain
    verdict,            \* call -> how it ended
    \* History, read by the properties only.
    primary,            \* call -> the backend that was ranked first
    asked,              \* call -> backends it sent a request to
    told,               \* call -> those of them the health tracker heard of
    missed              \* call -> backends that were out at some time since the ranking

health == <<gone, suspended>>
orders == <<mode, policy, demanding>>
history == <<primary, asked, told, missed>>
vars == <<health, phase, orders, candidates, eligible, at, chain, verdict, history>>

\* The health tracker, as the calls of this process see it.
Health == INSTANCE AvailabilityPromise WITH Models <- Backends

Modes == {"text", "tools", "stream"}
Policies == {"allow", "deny", "same_tier"}
Verdicts == {"none", "answered", "rejected", "exhausted", "cancelled", "raised"}

TypeOK ==
    /\ gone \subseteq Backends /\ suspended \subseteq Backends
    /\ phase \in [Calls -> {"idle", "classifying", "asking", "done"}]
    /\ mode \in [Calls -> Modes] /\ policy \in [Calls -> Policies]
    /\ demanding \subseteq Calls
    /\ candidates \in [Calls -> SUBSET Backends]
    /\ eligible \in [Calls -> Seq(Backends)]
    /\ at \in [Calls -> Nat]
    /\ \A c \in Calls : phase[c] = "asking" => at[c] \in 1 .. Len(eligible[c])
    /\ chain \in [Calls -> Seq(Backends)]
    /\ verdict \in [Calls -> Verdicts]
    /\ primary \in [Calls -> SUBSET Backends]
    /\ asked \in [Calls -> SUBSET Backends]
    /\ told \in [Calls -> SUBSET Backends]
    /\ missed \in [Calls -> SUBSET Backends]

Init ==
    /\ Health!Init
    /\ phase = [c \in Calls |-> "idle"]
    /\ mode \in [Calls -> Modes] /\ policy \in [Calls -> Policies]
    /\ demanding \in SUBSET Calls
    /\ candidates = [c \in Calls |-> {}]
    /\ eligible = [c \in Calls |-> <<>>]
    /\ at = [c \in Calls |-> 0]
    /\ chain = [c \in Calls |-> <<>>]
    /\ verdict = [c \in Calls |-> "none"]
    /\ primary = [c \in Calls |-> {}] /\ asked = [c \in Calls |-> {}]
    /\ told = [c \in Calls |-> {}] /\ missed = [c \in Calls |-> {}]

-----------------------------------------------------------------------------
Out == gone \cup suspended

\* Every call that has ranked its backends and not ended notes who is out.
Ranked(c) == phase[c] = "asking"

Noted == [c \in Calls |-> IF Ranked(c) THEN missed[c] \cup gone' \cup suspended' ELSE missed[c]]

Close(c, reason) ==
    /\ phase' = [phase EXCEPT ![c] = "done"]
    /\ verdict' = [verdict EXCEPT ![c] = reason]

\* Mutant: the loop ends at a backend that is out.
IsTurn_Stops(list, from, k) ==
    k = IF from <= Len(list) /\ list[from] \notin gone' \cup suspended'
        THEN from ELSE Len(list) + 1

\* Mutant: who is out is looked up before the failure is recorded.
IsTurn_Stale(list, from, k) ==
    /\ \A j \in from .. k - 1 : list[j] \in Out
    /\ k <= Len(list) => list[k] \notin Out

\* The loop of _handle_fallback_chain, at position from, gets to position k:
\* it skips the backends that are out.
IsTurn(list, from, k) ==
    /\ \A j \in from .. k - 1 : list[j] \in gone' \cup suspended'
    /\ k <= Len(list) => list[k] \notin gone' \cup suspended'

\* Goes on with list from position from: to the next await, or to the end.  The
\* backends it skips are appended to the chain it has got so far.
GoOn(c, list, from, chained) ==
    \E k \in from .. Len(list) + 1 :
        /\ IsTurn(list, from, k)
        /\ at' = [at EXCEPT ![c] = k]
        /\ chain' = [chain EXCEPT ![c] = chained \o SubSeq(list, from, k - 1)]
        /\ IF k <= Len(list)
           THEN /\ phase' = [phase EXCEPT ![c] = "asking"]
                /\ asked' = [asked EXCEPT ![c] = @ \cup {list[k]}]
                /\ UNCHANGED verdict
           ELSE Close(c, "exhausted") /\ UNCHANGED asked

\* _run_cascade up to the await: the backends that meet the order and are not out.
Submit(c) ==
    /\ phase[c] = "idle"
    /\ \E fit \in SUBSET Backends :
          IF fit \ Out = {}
          THEN Close(c, "rejected") /\ UNCHANGED candidates
          ELSE /\ candidates' = [candidates EXCEPT ![c] = fit \ Out]
               /\ phase' = [phase EXCEPT ![c] = "classifying"]
               /\ UNCHANGED verdict
    /\ UNCHANGED <<health, orders, eligible, at, chain, history>>

\* Mutant: same_tier is read as allow.
Permitted_AnyTier(kept, best, p) == IF p = "deny" THEN {best} ELSE kept

\* _apply_fallback_policy, where best is ranked first.
Permitted(kept, best, p) ==
    IF p = "deny" THEN {best}
    ELSE IF p = "same_tier" THEN {b \in kept : Tier[b] = Tier[best]}
    ELSE kept

\* The rest of _run_cascade, then the first round of the loop.  Nobody asks
\* again whether the candidates are out before the loop does.
Rank(c) ==
    /\ phase[c] = "classifying"
    /\ UNCHANGED health
    /\ \E kept \in SUBSET candidates[c] :
          \/ /\ kept = {}
             /\ Close(c, "rejected")
             /\ UNCHANGED <<eligible, at, chain, primary, asked, missed>>
          \/ \E best \in kept : \E list \in SetToSeqs(Permitted(kept, best, policy[c])) :
                /\ list[1] = best
                /\ eligible' = [eligible EXCEPT ![c] = list]
                /\ primary' = [primary EXCEPT ![c] = {best}]
                /\ missed' = [missed EXCEPT ![c] = Out]
                /\ GoOn(c, list, 1, <<>>)
    /\ candidates' = [candidates EXCEPT ![c] = {}]
    /\ UNCHANGED <<orders, told>>

Asking(c) == eligible[c][at[c]]

\* Mutant: the backend that failed is not appended.
GoOnAfter_Unchained(c, chained) == GoOn(c, eligible[c], at[c] + 1, chain[c])

\* "continue", with the chain as it is by then.
GoOnAfter(c, chained) == GoOn(c, eligible[c], at[c] + 1, chained)

Tell(c) == told' = [told EXCEPT ![c] = @ \cup {Asking(c)}]

\* The request fails, and record_error may put the backend out: 404 and 410 for
\* good, 403, 429 and 5xx for a while, the 403 with which its provider is
\* suspended others too; other failures put nobody out.
Fail(c) ==
    /\ phase[c] = "asking"
    /\ Health!Fail(Asking(c)) \/ UNCHANGED health
    /\ Tell(c)
    /\ GoOnAfter(c, Append(chain[c], Asking(c)))
    /\ missed' = Noted
    /\ UNCHANGED <<orders, candidates, eligible, primary>>

\* The backend answers; success is recorded.
Answer(c) ==
    /\ phase[c] = "asking"
    /\ Tell(c)
    /\ Close(c, "answered")
    /\ UNCHANGED <<health, orders, candidates, eligible, at, chain, primary, asked, missed>>

\* The answer has fewer tokens than the order demands: an error is recorded after
\* the success, and the loop continues.  Streams are not looked at.
AnswerShort(c) ==
    /\ phase[c] = "asking" /\ c \in demanding /\ mode[c] # "stream"
    /\ UNCHANGED health
    /\ Tell(c)
    /\ GoOnAfter(c, Append(chain[c], Asking(c)))
    /\ UNCHANGED <<orders, candidates, eligible, primary, missed>>

\* Mutant: when the ranking is through, the call starts over.
AnswerWithoutTools_Round(c) ==
    /\ phase[c] = "asking" /\ mode[c] = "tools"
    /\ UNCHANGED health
    /\ IF at[c] < Len(eligible[c])
       THEN GoOnAfter(c, chain[c])
       ELSE GoOn(c, eligible[c], 1, <<>>)
    /\ UNCHANGED <<orders, candidates, eligible, primary, told, missed>>

\* The answer to a request with tools is cut off or calls none: the attempt ends
\* in an Err that the loop passes over in silence.
AnswerWithoutTools(c) ==
    /\ phase[c] = "asking" /\ mode[c] = "tools"
    /\ UNCHANGED health
    /\ GoOnAfter(c, chain[c])
    /\ UNCHANGED <<orders, candidates, eligible, primary, told, missed>>

\* The call ends at an await, and nothing is recorded.
Abort(c, reason) ==
    /\ phase[c] \in {"classifying", "asking"}
    /\ Close(c, reason)
    /\ candidates' = [candidates EXCEPT ![c] = {}]
    /\ UNCHANGED <<health, orders, eligible, at, chain, history>>

\* The caller goes away: the task is cancelled, or the stream closed.
Cancel(c) == Abort(c, "cancelled")

\* The classification or the request raises an error of a kind the cascade does not
\* name: a connection that breaks (httpx.ReadError, RemoteProtocolError), which most
\* adapters do not wrap, or a body of an unexpected shape (IndexError, AttributeError).
Escape(c) == Abort(c, "raised")

-----------------------------------------------------------------------------
(* The rest of the world: failures of pinned calls and other processes,    *)
(* suspensions that run out, reinstatements.  A restart ends the calls.    *)

Elsewhere ==
    /\ Health!Next
    /\ missed' = Noted
    /\ UNCHANGED <<phase, orders, candidates, eligible, at, chain, verdict, primary, asked, told>>

-----------------------------------------------------------------------------
Next ==
    \/ \E c \in Calls :
          \/ Submit(c) \/ Rank(c) \/ Cancel(c) \/ Escape(c)
          \/ Fail(c) \/ Answer(c) \/ AnswerShort(c) \/ AnswerWithoutTools(c)
    \/ Elsewhere

Spec == Init /\ [][Next]_vars

AwaitEnds(c) ==
    Rank(c) \/ Fail(c) \/ Answer(c) \/ AnswerShort(c) \/ AnswerWithoutTools(c) \/ Escape(c)

\* The classification and the requests end, by their timeouts at the latest.
Fairness == \A c \in Calls : WF_vars(AwaitEnds(c))

FairSpec == Spec /\ Fairness

-----------------------------------------------------------------------------
(* Properties.                                                             *)

\* The calls keep the promise of DispatchPromise.tla.
Promise == INSTANCE DispatchPromise WITH
    tried <- asked,
    waiting <- [c \in Calls |-> IF phase[c] = "asking" THEN {Asking(c)} ELSE {}]

KeepsPromise == Promise!Spec

\* Every backend that call c might ask has been asked, or has been out at some time
\* since the ranking.
AllTried(c) == \A i \in 1 .. Len(eligible[c]) : eligible[c][i] \in asked[c] \cup missed[c]

\* A call that reports exhaustion (_handle_fallback_chain, _stream_with_fallback) has
\* tried all, whatever the others did to the health of the backends meanwhile.  One that
\* an error escapes from reports no exhaustion, and may have tried one backend only.
ExhaustionIsEarned == \A c \in Calls : verdict[c] = "exhausted" => AllTried(c)

\* fallback_policy holds for everything that is sent, although the backend ranked
\* first may be skipped: "deny" asks no other, "same_tier" only its like.
PolicyIsHonoured ==
    \A c \in Calls : \A b \in asked[c], p \in primary[c] :
        /\ policy[c] = "deny" => b = p
        /\ policy[c] = "same_tier" => Tier[b] = Tier[p]

\* The backend a call is at, if it is at one; and the one whose attempt is not
\* accounted for, as it goes on, or as the caller went away or an error escaped.
Latest(c) == {eligible[c][i] : i \in {at[c]} \cap DOMAIN eligible[c]}

InDoubt(c) ==
    IF phase[c] = "asking" \/ verdict[c] \in {"cancelled", "raised"} THEN Latest(c) ELSE {}

\* Without tools in play the chain is what lies behind the call in its ranking,
\* and the health tracker has heard of every backend that was asked, but for the
\* last one of a call that goes on, that was cancelled or that raised.
TextCallsAreAccounted ==
    \A c \in Calls : mode[c] # "tools" =>
        /\ eligible[c] # <<>> => chain[c] = SubSeq(eligible[c], 1, at[c] - 1)
        /\ asked[c] \subseteq told[c] \cup InDoubt(c)

\* No request is sent to a backend that is out by then: what a call learns from
\* one failure counts for its next attempt.
NothingAskedWhileOut ==
    [][\A c \in Calls : (asked'[c] \ asked[c]) \cap (gone' \cup suspended') = {}]_vars

\* Every call that has found candidates ends.
EveryCallEnds == \A c \in Calls : phase[c] = "classifying" ~> phase[c] = "done"

=============================================================================
