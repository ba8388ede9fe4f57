------------------------------ MODULE PinnedCall ------------------------------
(***************************************************************************)
(* Calls to one pinned model, without a fallback (dispatch/pinned.py), and *)
(* the adapters that carry them to the provider (adapters/).               *)
(*                                                                         *)
(* A call passes the preflight, reserves a place in the budget, and asks   *)
(* the provider, up to three times, for an answer that comes in pieces; a  *)
(* streaming client gets each piece as it arrives.  Requests of several    *)
(* workers run at once and share the budget of the provider; the client of *)
(* a request may leave, and its worker may be killed, at any moment.  What *)
(* happens is that of one minute: nothing leaves the window of the budget. *)
(*                                                                         *)
(* Responses are not cached: nothing in the router configures the cache.   *)
(***************************************************************************)
EXTENDS Integers, Sequences, FiniteSets

CONSTANTS
    Request,      \* requests
    Backend,      \* registered model ids
    Provider,
    ProviderOf,   \* ProviderOf[b]: BackendConfig.provider
    AdapterOf,    \* AdapterOf[b]: one of Adapters
    ModelName,    \* ModelName[b]: BackendConfig.model, which need not be the id b
    Limit,        \* rpm_limit of a provider; 0 stands for an rpd_limit of 0
    HonorHealth,  \* pinned_dispatch.honor_health
    MaxPieces,    \* bound: pieces of one answer, which max_tokens bounds
    MaxOthers     \* bound: calls the cascade records meanwhile

\* What the dispatch sees of the adapters: requests to the provider per call, whether
\* there is a way to use tools, whether a broken connection becomes an error of the kinds that
\* the dispatch catches, and whether they need a key.
OpenAICompatible == [attempts |-> 3, tools |-> TRUE, wraps |-> FALSE, keyed |-> TRUE]
Anthropic == [attempts |-> 1, tools |-> FALSE, wraps |-> FALSE, keyed |-> TRUE]
Cohere == [attempts |-> 1, tools |-> FALSE, wraps |-> FALSE, keyed |-> TRUE]
Google == [attempts |-> 1, tools |-> FALSE, wraps |-> TRUE, keyed |-> TRUE]
LocalServer == [attempts |-> 1, tools |-> FALSE, wraps |-> TRUE, keyed |-> FALSE]
Adapters == {OpenAICompatible, Anthropic, Cohere, Google, LocalServer}

Kinds == {"text", "tools", "stream"}
Event == {"token", "metadata", "error"}
Statuses == {"available", "circuit_open", "retired", "key_invalid"}
Nothing == [kind |-> "text", model |-> CHOOSE b \in Backend : TRUE]

ASSUME PinnedAssumption ==
    /\ AdapterOf \in [Backend -> Adapters] /\ ProviderOf \in [Backend -> Provider]
    /\ Limit \in [Provider -> Nat] /\ HonorHealth \in BOOLEAN
    /\ IsFiniteSet(Request) /\ Backend # {}
    /\ MaxPieces \in Nat /\ MaxOthers \in Nat

VARIABLES
    rows,      \* requests the budget has counted for a provider
    heard,     \* heard[<<name, verdict>>]: what the health tracker was told of a name
    pc,        \* where a request is
    order,     \* what it asks for
    reserved,  \* it holds a place in the budget
    attempt,   \* requests its adapter made
    body,      \* pieces of the answer of this attempt
    content,   \* the pieces collected so far, each named by its attempt
    events,    \* a stream: what the client got
    torn,      \* history: an answer timed out after it had begun
    others     \* history: calls of the cascade

books == <<rows, heard>>
progress == <<attempt, body, content, events, torn>>
vars == <<books, pc, order, reserved, progress, others>>

Names == Backend \cup {ModelName[b] : b \in Backend}
Over == {"refused", "answered", "failed", "raised", "gone"}

Config(r) == AdapterOf[order[r].model]
Place(r) == ProviderOf[order[r].model]

\* The name under which an answer is reported: the model's id or, after a stream, the name
\* it has at its provider.
ReportedAs(r) ==
    IF order[r].kind = "stream" THEN ModelName[order[r].model] ELSE order[r].model

\* Only an adapter that has a way to use tools answers in one piece.
InOnePiece(r) == order[r].kind = "tools" /\ Config(r).tools

Init ==
    /\ rows = [p \in Provider |-> 0]
    /\ heard = [n \in Names \X {"success", "error"} |-> 0]
    /\ pc = [r \in Request |-> "new"]
    /\ order = [r \in Request |-> Nothing]
    /\ reserved = [r \in Request |-> FALSE]
    /\ attempt = [r \in Request |-> 0]
    /\ body = [r \in Request |-> 0]
    /\ content = [r \in Request |-> <<>>]
    /\ events = [r \in Request |-> <<>>]
    /\ torn = [r \in Request |-> FALSE]
    /\ others = 0

-----------------------------------------------------------------------------
(* Preflight and reservation *)

\* Only a stream has events.
Told(r, kind, event) ==
    IF kind = "stream" THEN [events EXCEPT ![r] = Append(@, event)] ELSE events

\* has_capacity, where a daily limit of 0 means no request at all, and
\* _has_capacity_in_txn, where it means no limit.
HasCapacity(p) == rows[p] < Limit[p]
HasCapacityInTxn(p) == Limit[p] = 0 \/ rows[p] < Limit[p]

\* _pinned_preflight, past the lookup in the registry, which has some status for b.
Preflight(b, status) ==
    /\ status \notin {"retired", "key_invalid"}
    /\ HonorHealth => status # "circuit_open"
    /\ HasCapacity(ProviderOf[b])

Submit(r, kind, b, status) ==
    /\ pc[r] = "new"
    /\ order' = [order EXCEPT ![r] = [kind |-> kind, model |-> b]]
    /\ \/ /\ Preflight(b, status)
          /\ pc' = [pc EXCEPT ![r] = "reserving"]
          /\ UNCHANGED events
       \/ /\ ~Preflight(b, status)
          /\ pc' = [pc EXCEPT ![r] = "refused"]
          /\ events' = Told(r, kind, "error")
    /\ UNCHANGED <<books, reserved, attempt, body, content, torn, others>>

\* Mutant: the place is taken on the word of the preflight.
NoSecondLook(r) ==
    /\ rows' = [rows EXCEPT ![Place(r)] = @ + 1]
    /\ reserved' = [reserved EXCEPT ![r] = TRUE]
    /\ pc' = [pc EXCEPT ![r] = "ready"]
    /\ UNCHANGED events

\* check_and_reserve: another worker may have taken the last place.
Take(r) ==
    \/ /\ HasCapacityInTxn(Place(r))
       /\ rows' = [rows EXCEPT ![Place(r)] = @ + 1]
       /\ reserved' = [reserved EXCEPT ![r] = TRUE]
       /\ pc' = [pc EXCEPT ![r] = "ready"]
       /\ UNCHANGED events
    \/ /\ ~HasCapacityInTxn(Place(r))
       /\ pc' = [pc EXCEPT ![r] = "refused"]
       /\ events' = Told(r, order[r].kind, "error")
       /\ UNCHANGED <<rows, reserved>>

Reserve(r) ==
    /\ pc[r] = "reserving"
    /\ Take(r)
    /\ UNCHANGED <<heard, order, attempt, body, content, torn, others>>

-----------------------------------------------------------------------------
(* How a call ends *)

\* Mutant: the stream goes on to its last chunk after the error.
FailGoesOn(r) ==
    /\ pc' = [pc EXCEPT ![r] = "failed"]
    /\ heard' = [heard EXCEPT ![<<order[r].model, "error">>] = @ + 1]
    /\ events' = IF order[r].kind = "stream"
                 THEN [events EXCEPT ![r] = @ \o <<"error", "metadata">>] ELSE events
    /\ UNCHANGED rows

\* The failure is told to the health tracker; the place in the budget stays taken.
Fail(r) ==
    /\ pc' = [pc EXCEPT ![r] = "failed"]
    /\ heard' = [heard EXCEPT ![<<order[r].model, "error">>] = @ + 1]
    /\ events' = Told(r, order[r].kind, "error")
    /\ UNCHANGED rows

\* The budget counts the call a second time, and the health tracker hears of it.
Answered(r) ==
    /\ pc' = [pc EXCEPT ![r] = "answered"]
    /\ rows' = [rows EXCEPT ![Place(r)] = @ + 1]
    /\ heard' = [heard EXCEPT ![<<ReportedAs(r), "success">>] = @ + 1]

\* An exception that no handler names: the request ends without a word.
Raise(r) ==
    /\ pc' = [pc EXCEPT ![r] = "raised"]
    /\ UNCHANGED <<books, events>>

-----------------------------------------------------------------------------
(* The adapter *)

\* Mutant: what was tried before does not count.
AskUncounted(r) ==
    /\ pc[r] = "ready"
    /\ pc' = [pc EXCEPT ![r] = "asked"]
    /\ attempt' = [attempt EXCEPT ![r] = 1]
    /\ body' = [body EXCEPT ![r] = 0]
    /\ UNCHANGED <<books, order, reserved, content, events, torn, others>>

\* A request to the provider: the first one, or the next one after the back-off.
Ask(r) ==
    /\ pc[r] = "ready"
    /\ pc' = [pc EXCEPT ![r] = "asked"]
    /\ attempt' = [attempt EXCEPT ![r] = @ + 1]
    /\ body' = [body EXCEPT ![r] = 0]
    /\ UNCHANGED <<books, order, reserved, content, events, torn, others>>

\* Nothing was sent: there is no key in the environment.
Unkeyed(r) ==
    /\ pc[r] = "ready" /\ attempt[r] = 0 /\ Config(r).keyed
    /\ Fail(r)
    /\ UNCHANGED <<order, reserved, attempt, body, content, torn, others>>

\* _handle_http_retry, _handle_connection_retry, _raise_retries_exhausted
TryAgain(r) ==
    \/ /\ attempt[r] < Config(r).attempts
       /\ pc' = [pc EXCEPT ![r] = "ready"]
       /\ UNCHANGED <<books, events>>
    \/ /\ attempt[r] >= Config(r).attempts
       /\ Fail(r)

Silent(r) ==
    UNCHANGED <<order, reserved, attempt, body, content, others>>

\* A status comes before the body; 429 and 5xx are tried again, other errors are not.
ErrorStatus(r, retryable) ==
    /\ pc[r] = "asked" /\ body[r] = 0
    /\ IF retryable THEN TryAgain(r) ELSE Fail(r)
    /\ Silent(r) /\ UNCHANGED torn

\* No connection, or no answer in time, at the beginning or between two pieces.
TimeOut(r) ==
    /\ pc[r] = "asked"
    /\ TryAgain(r)
    /\ torn' = [torn EXCEPT ![r] = @ \/ body[r] > 0]
    /\ Silent(r)

\* A piece of the answer is collected, or handed to the client at once.
Piece(r) ==
    /\ pc[r] = "asked" /\ ~InOnePiece(r) /\ body[r] < MaxPieces
    /\ body' = [body EXCEPT ![r] = @ + 1]
    /\ content' = [content EXCEPT ![r] = Append(@, attempt[r])]
    /\ events' = Told(r, order[r].kind, "token")
    /\ UNCHANGED <<books, pc, order, reserved, attempt, torn, others>>

\* The body ends, with or without its last line.
Complete(r) ==
    /\ pc[r] = "asked"
    /\ Answered(r)
    /\ content' = IF InOnePiece(r) THEN [content EXCEPT ![r] = <<attempt[r]>>] ELSE content
    /\ events' = Told(r, order[r].kind, "metadata")
    /\ UNCHANGED <<order, reserved, attempt, body, torn, others>>

\* An answer that cannot be read: it is not JSON, which is a ValueError, or its parts are
\* not where they should be, and an IndexError, KeyError or AttributeError escapes.
Unreadable(r) ==
    /\ pc[r] = "asked"
    /\ Fail(r) \/ Raise(r)
    /\ Silent(r) /\ UNCHANGED torn

\* Mutant: a broken connection is tried again, like a time-out.
BreakAgain(r) ==
    /\ pc[r] = "asked"
    /\ TryAgain(r)
    /\ Silent(r) /\ UNCHANGED torn

\* The connection breaks in the middle: some adapters catch every error of httpx.
Break(r) ==
    /\ pc[r] = "asked"
    /\ IF Config(r).wraps THEN Fail(r) ELSE Raise(r)
    /\ Silent(r) /\ UNCHANGED torn

-----------------------------------------------------------------------------

\* The client of a stream leaves, or the worker is killed.
Leave(r) ==
    /\ pc[r] \in {"reserving", "ready", "asked"}
    /\ pc' = [pc EXCEPT ![r] = "gone"]
    /\ UNCHANGED <<books, order, reserved, progress, others>>

\* The cascade counts a call of its own, without asking for a place.
OtherCall(p) ==
    /\ others < MaxOthers /\ others' = others + 1
    /\ rows' = [rows EXCEPT ![p] = @ + 1]
    /\ UNCHANGED <<heard, pc, order, reserved, progress>>

Step(r) ==
    \/ Reserve(r) \/ Ask(r) \/ Unkeyed(r)
    \/ \E retryable \in BOOLEAN : ErrorStatus(r, retryable)
    \/ TimeOut(r) \/ Piece(r) \/ Complete(r) \/ Unreadable(r) \/ Break(r)

Next ==
    \/ \E r \in Request, kind \in Kinds, b \in Backend, status \in Statuses :
          Submit(r, kind, b, status)
    \/ \E r \in Request : Step(r) \/ Leave(r)
    \/ \E p \in Provider : OtherCall(p)

\* A step of a call is due: every request to a provider has a time-out.
Spec == Init /\ [][Next]_vars /\ \A r \in Request : WF_vars(Step(r))

-----------------------------------------------------------------------------

\* The type invariant.
TypeOK ==
    /\ rows \in [Provider -> Nat]
    /\ heard \in [Names \X {"success", "error"} -> Nat]
    /\ pc \in [Request -> {"new", "reserving", "ready", "asked"} \cup Over]
    /\ order \in [Request -> [kind : Kinds, model : Backend]]
    /\ reserved \in [Request -> BOOLEAN] /\ torn \in [Request -> BOOLEAN]
    /\ attempt \in [Request -> Nat] /\ body \in [Request -> 0..MaxPieces]
    /\ content \in [Request -> Seq(Nat)]
    /\ events \in [Request -> Seq(Event)]
    /\ \A r \in Request :
          attempt[r] <= Config(r).attempts /\ content[r] \in Seq(1..attempt[r])
    /\ others \in 0..MaxOthers

\* The books of a provider are those of its calls, whatever fails, is repeated or is left
\* in the middle: every call that was begun has taken a place, no more calls than the limit
\* were begun, every answer counts once more; and the health tracker heard once of every
\* call that was answered or failed, of no other, and of failures under the model's id
\* (check_and_reserve, _record_adapter_failure, _record_dispatch_success).
Having(S, p) == Cardinality({r \in S : Place(r) = p})
In(where) == {r \in Request : pc[r] = where}
Held == {r \in Request : reserved[r]}
BooksBalance ==
    /\ \A r \in Request : attempt[r] > 0 => reserved[r]
    /\ \A p \in Provider : Having(Held, p) <= Limit[p]
    /\ \A p \in Provider : LET counted == Having(Held, p) + Having(In("answered"), p)
                           IN  rows[p] \in counted..(counted + others)
    /\ \A n \in Names :
          /\ heard[<<n, "success">>] = Cardinality({r \in In("answered") : ReportedAs(r) = n})
          /\ heard[<<n, "error">>] = Cardinality({r \in In("failed") : order[r].model = n})

\* An answer is the answer to one request to the provider, unless an earlier one timed out
\* when some of its answer had come: only then does a client get the beginning twice (the
\* retry loop of OpenAICompatibleBackend.generate).
AnswerIsOneAttempt ==
    \A r \in Request : pc[r] = "answered" /\ ~torn[r] =>
        \A i, j \in DOMAIN content[r] : content[r][i] = content[r][j]

Tokens(n) == [i \in 1..n |-> "token"]
LastEvent(r) ==
    CASE pc[r] = "answered" -> <<"metadata">>
      [] pc[r] \in {"failed", "refused"} -> <<"error">>
      [] OTHER -> <<>>

\* A client of a stream gets one last event, metadata after an answer and an error after
\* a refusal or a failure, and none when the exception escapes; no token comes after it,
\* and the tokens are those the adapter gave (_pinned_dispatch_stream).
StreamEndsOnce ==
    \A r \in Request :
        order[r].kind = "stream" => events[r] = Tokens(Len(content[r])) \o LastEvent(r)

\* Every call that was submitted ends, however often it is tried again.
EveryCallEnds == \A r \in Request : pc[r] # "new" ~> pc[r] \in Over
=============================================================================
