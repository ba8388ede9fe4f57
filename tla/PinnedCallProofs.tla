-------------------------- MODULE PinnedCallProofs --------------------------
(***************************************************************************)
(* Proofs about pinned calls (PinnedCall), for any requests, models,       *)
(* providers, adapters, names, limits and bounds: the books of a provider  *)
(* are those of its calls, an answer is that of one attempt unless it was  *)
(* torn, and a stream ends once.                                           *)
(*                                                                         *)
(* The properties are inductive together with what is true of one call at  *)
(* each point of its way (CallOK): in particular, that nothing of an       *)
(* answer is there before a request that is not torn gets its body, and    *)
(* that nobody gets past the preflight of a provider whose limit is 0,     *)
(* which the transaction that reserves would let pass.                     *)
(***************************************************************************)
EXTENDS PinnedCall, FiniteSetTheorems, SequenceTheorems, TLAPS

Begun == {"ready", "asked", "answered", "failed", "raised"}
Unbegun == {"new", "reserving", "refused"}

CallOK(r) ==
    /\ pc[r] \in Unbegun => ~reserved[r]
    /\ ~reserved[r] => attempt[r] = 0 /\ content[r] = <<>>
    /\ pc[r] \in Begun => reserved[r]
    /\ pc[r] = "new" => events[r] = <<>>
    /\ pc[r] = "reserving" => Limit[Place(r)] > 0
    /\ pc[r] = "ready" => attempt[r] < Config(r).attempts
    /\ pc[r] = "asked" => attempt[r] > 0
    /\ ~torn[r] => \A i \in DOMAIN content[r] : content[r][i] = attempt[r]
    /\ ~torn[r] /\ pc[r] = "ready" => content[r] = <<>>
    /\ ~torn[r] /\ pc[r] = "asked" /\ body[r] = 0 => content[r] = <<>>

StreamOK(r) ==
    order[r].kind = "stream" => events[r] = Tokens(Len(content[r])) \o LastEvent(r)

Calls == \A r \in Request : CallOK(r) /\ StreamOK(r)

(* The books, by the sets of calls they count.                             *)
HeldAt(p) == {r \in Held : Place(r) = p}
AnsweredAt(p) == {r \in In("answered") : Place(r) = p}
AnsweredAs(n) == {r \in In("answered") : ReportedAs(r) = n}
FailedAs(n) == {r \in In("failed") : order[r].model = n}

Books ==
    /\ \A p \in Provider :
          /\ Cardinality(HeldAt(p)) <= Limit[p]
          /\ rows[p] >= Cardinality(HeldAt(p)) + Cardinality(AnsweredAt(p))
          /\ rows[p] <= Cardinality(HeldAt(p)) + Cardinality(AnsweredAt(p)) + others
    /\ \A n \in Names :
          /\ heard[<<n, "success">>] = Cardinality(AnsweredAs(n))
          /\ heard[<<n, "error">>] = Cardinality(FailedAs(n))

IInv == TypeOK /\ Calls /\ Books

-----------------------------------------------------------------------------
(* Facts about sets of calls and about streams.                            *)
LEMMA Counts ==
    ASSUME NEW A \in SUBSET Request
    PROVE  IsFiniteSet(A) /\ Cardinality(A) \in Nat
BY PinnedAssumption, FS_Subset, FS_CardinalityType

LEMMA OneMore ==
    ASSUME NEW A \in SUBSET Request, NEW r \in Request \ A
    PROVE  Cardinality(A \cup {r}) = Cardinality(A) + 1
BY Counts, FS_AddElement

LEMMA CallSets ==
    /\ \A p : HeldAt(p) \in SUBSET Request /\ AnsweredAt(p) \in SUBSET Request
    /\ \A n : AnsweredAs(n) \in SUBSET Request /\ FailedAs(n) \in SUBSET Request
BY DEF HeldAt, AnsweredAt, AnsweredAs, FailedAs, Held, In

LEMMA SeqOfMore ==
    ASSUME NEW S, NEW T, S \subseteq T, NEW s \in Seq(S)
    PROVE  s \in Seq(T)
<1>1. Len(s) \in Nat /\ s \in [1..Len(s) -> S]
  BY LenProperties
<1>2. s \in [1..Len(s) -> T]
  BY <1>1
<1>3. QED  BY <1>1, <1>2

LEMMA TokensType ==
    ASSUME NEW n \in Nat
    PROVE  Tokens(n) \in Seq(Event) /\ Len(Tokens(n)) = n /\ DOMAIN Tokens(n) = 1..n
<1>1. Tokens(n) \in [1..n -> Event]  BY DEF Tokens, Event
<1>2. Tokens(n) \in Seq(Event)  BY <1>1
<1>3. QED  BY <1>1, <1>2, LenProperties

\* One more token, and the last event.
LEMMA TokensGrow ==
    ASSUME NEW n \in Nat
    PROVE  /\ Tokens(n) \o <<>> = Tokens(n)
           /\ Append(Tokens(n) \o <<>>, "token") = Tokens(n + 1) \o <<>>
           /\ \A e \in Event : Append(Tokens(n) \o <<>>, e) = Tokens(n) \o <<e>>
<1>1. Tokens(n) \in Seq(Event) /\ Len(Tokens(n)) = n
      /\ Tokens(n + 1) \in Seq(Event) /\ Len(Tokens(n + 1)) = n + 1
  BY TokensType
<1>2. Tokens(n) \o <<>> = Tokens(n) /\ Tokens(n + 1) \o <<>> = Tokens(n + 1)
  BY <1>1, ConcatEmptySeq
<1>3. Append(Tokens(n), "token") = Tokens(n + 1)
  BY <1>1 DEF Tokens, Event
<1>4. \A e \in Event : Append(Tokens(n), e) = Tokens(n) \o <<e>>
  BY <1>1, AppendIsConcat
<1>5. QED  BY <1>2, <1>3, <1>4

-----------------------------------------------------------------------------
(* What a step does to the calls it is not about, and to the books.        *)
StepOf(r) ==
    \A q \in Request \ {r} :
        /\ pc'[q] = pc[q] /\ order'[q] = order[q] /\ reserved'[q] = reserved[q]
        /\ attempt'[q] = attempt[q] /\ body'[q] = body[q] /\ content'[q] = content[q]
        /\ events'[q] = events[q] /\ torn'[q] = torn[q]

LEMMA CallsStep ==
    ASSUME IInv, NEW r \in Request, StepOf(r), CallOK(r)', StreamOK(r)'
    PROVE  Calls'
<1> SUFFICES ASSUME NEW q \in Request \ {r} PROVE CallOK(q)' /\ StreamOK(q)'
  BY DEF Calls
<1>1. CallOK(q) /\ StreamOK(q)  BY DEF IInv, Calls
<1>2. CallOK(q)'  BY <1>1 DEF StepOf, CallOK, Config, Place
<1>3. StreamOK(q)'  BY <1>1 DEF StepOf, StreamOK, LastEvent
<1>4. QED  BY <1>2, <1>3

\* Nothing is counted.
LEMMA QuietBooks ==
    ASSUME IInv, UNCHANGED <<rows, heard, reserved, others>>,
           \A q \in Request : reserved[q] => order'[q] = order[q],
           \A q \in Request, w \in {"answered", "failed"} : pc'[q] = w <=> pc[q] = w
    PROVE  Books'
<1>1. \A q \in Request : pc[q] \in {"answered", "failed"} => reserved[q]
  BY DEF IInv, Calls, CallOK, Begun
<1>2. \A p : HeldAt(p)' = HeldAt(p)
  BY DEF HeldAt, Held, Place
<1>3. \A p : AnsweredAt(p)' = AnsweredAt(p)
  BY <1>1 DEF AnsweredAt, In, Place
<1>4. \A n : AnsweredAs(n)' = AnsweredAs(n)
  BY <1>1 DEF AnsweredAs, In, ReportedAs
<1>5. \A n : FailedAs(n)' = FailedAs(n)
  BY <1>1 DEF FailedAs, In
<1>6. QED  BY <1>2, <1>3, <1>4, <1>5 DEF IInv, Books

\* A call fails: one more error of its model.
LEMMA FailBooks ==
    ASSUME IInv, NEW r \in Request, pc[r] \in {"ready", "asked"}, Fail(r),
           UNCHANGED <<order, reserved, others>>
    PROVE  Books'
<1>1. /\ pc' = [pc EXCEPT ![r] = "failed"] /\ rows' = rows
      /\ heard' = [heard EXCEPT ![<<order[r].model, "error">>] = @ + 1]
      /\ order[r].model \in Names
      /\ pc \in [Request -> {"new", "reserving", "ready", "asked"} \cup Over]
      /\ heard \in [Names \X {"success", "error"} -> Nat]
  BY DEF Fail, IInv, TypeOK, Names
<1>2. \A p : HeldAt(p)' = HeldAt(p) /\ AnsweredAt(p)' = AnsweredAt(p)
  BY <1>1 DEF HeldAt, Held, AnsweredAt, In, Place
<1>3. \A n : AnsweredAs(n)' = AnsweredAs(n)
  BY <1>1 DEF AnsweredAs, In, ReportedAs
<1>4. \A n \in Names : heard'[<<n, "success">>] = heard[<<n, "success">>]
  BY <1>1
<1>5. ASSUME NEW n \in Names PROVE heard'[<<n, "error">>] = Cardinality(FailedAs(n)')
  <2>1. heard[<<n, "error">>] = Cardinality(FailedAs(n))
    BY DEF IInv, Books
  <2>2. CASE n = order[r].model
    <3>1. FailedAs(n)' = FailedAs(n) \cup {r} /\ r \notin FailedAs(n)
      BY <1>1, <2>2 DEF FailedAs, In
    <3>2. heard'[<<n, "error">>] = heard[<<n, "error">>] + 1
      BY <1>1, <2>2
    <3>3. QED  BY <2>1, <3>1, <3>2, OneMore, CallSets
  <2>3. CASE n # order[r].model
    <3>1. FailedAs(n)' = FailedAs(n)
      BY <1>1, <2>3 DEF FailedAs, In
    <3>2. heard'[<<n, "error">>] = heard[<<n, "error">>]
      BY <1>1, <2>3
    <3>3. QED  BY <2>1, <3>1, <3>2
  <2>4. QED  BY <2>2, <2>3
<1>6. QED  BY <1>1, <1>2, <1>3, <1>4, <1>5 DEF IInv, Books

\* A call is answered: one more row of its provider, one more success of the name.
LEMMA AnswerBooks ==
    ASSUME IInv, NEW r \in Request, pc[r] = "asked", Answered(r),
           UNCHANGED <<order, reserved, others>>
    PROVE  Books'
<1> DEFINE name == ReportedAs(r)
<1>0. order[r].model \in Backend /\ name \in Names /\ Place(r) \in Provider
  <2>1. order[r].model \in Backend
    BY DEF IInv, TypeOK
  <2>2. QED  BY <2>1, PinnedAssumption DEF Names, ReportedAs, Place
<1>1. /\ pc' = [pc EXCEPT ![r] = "answered"]
      /\ rows' = [rows EXCEPT ![Place(r)] = @ + 1]
      /\ heard' = [heard EXCEPT ![<<name, "success">>] = @ + 1]
      /\ name \in Names /\ Place(r) \in Provider
      /\ pc \in [Request -> {"new", "reserving", "ready", "asked"} \cup Over]
      /\ heard \in [Names \X {"success", "error"} -> Nat]
      /\ rows \in [Provider -> Nat] /\ others \in Nat
  BY <1>0 DEF Answered, IInv, TypeOK
<1> HIDE DEF name
<1>2. \A p : HeldAt(p)' = HeldAt(p)
  BY DEF HeldAt, Held, Place
<1>3. \A n : FailedAs(n)' = FailedAs(n)
  BY <1>1 DEF FailedAs, In
<1>4. \A n \in Names : heard'[<<n, "error">>] = heard[<<n, "error">>]
  BY <1>1
<1>5. ASSUME NEW n \in Names PROVE heard'[<<n, "success">>] = Cardinality(AnsweredAs(n)')
  <2>1. heard[<<n, "success">>] = Cardinality(AnsweredAs(n))
    BY DEF IInv, Books
  <2>2. CASE n = name
    <3>1. AnsweredAs(n)' = AnsweredAs(n) \cup {r} /\ r \notin AnsweredAs(n)
      BY <1>1, <2>2 DEF AnsweredAs, In, ReportedAs, name
    <3>2. heard'[<<n, "success">>] = heard[<<n, "success">>] + 1
      BY <1>1, <2>2
    <3>3. QED  BY <2>1, <3>1, <3>2, OneMore, CallSets
  <2>3. CASE n # name
    <3>1. AnsweredAs(n)' = AnsweredAs(n)
      BY <1>1, <2>3 DEF AnsweredAs, In, ReportedAs, name
    <3>2. heard'[<<n, "success">>] = heard[<<n, "success">>]
      BY <1>1, <2>3
    <3>3. QED  BY <2>1, <3>1, <3>2
  <2>4. QED  BY <2>2, <2>3
<1>6. ASSUME NEW p \in Provider
      PROVE  /\ rows'[p] >= Cardinality(HeldAt(p)) + Cardinality(AnsweredAt(p)')
             /\ rows'[p] <= Cardinality(HeldAt(p)) + Cardinality(AnsweredAt(p)') + others
  <2>1. /\ rows[p] >= Cardinality(HeldAt(p)) + Cardinality(AnsweredAt(p))
        /\ rows[p] <= Cardinality(HeldAt(p)) + Cardinality(AnsweredAt(p)) + others
        /\ rows[p] \in Nat /\ Cardinality(HeldAt(p)) \in Nat
        /\ Cardinality(AnsweredAt(p)) \in Nat
    BY <1>1, Counts, CallSets DEF IInv, Books
  <2>2. CASE p = Place(r)
    <3>1. AnsweredAt(p)' = AnsweredAt(p) \cup {r} /\ r \notin AnsweredAt(p)
      BY <1>1, <2>2 DEF AnsweredAt, In, Place
    <3>2. rows'[p] = rows[p] + 1
      BY <1>1, <2>2
    <3>3. Cardinality(AnsweredAt(p)') = Cardinality(AnsweredAt(p)) + 1
      BY <3>1, OneMore, CallSets
    <3>4. QED  BY <1>1, <2>1, <3>2, <3>3
  <2>3. CASE p # Place(r)
    <3>1. AnsweredAt(p)' = AnsweredAt(p)
      BY <1>1, <2>3 DEF AnsweredAt, In, Place
    <3>2. rows'[p] = rows[p]
      BY <1>1, <2>3
    <3>3. QED  BY <2>1, <3>1, <3>2
  <2>4. QED  BY <2>2, <2>3
<1>7. QED  BY <1>2, <1>3, <1>4, <1>5, <1>6 DEF IInv, Books

-----------------------------------------------------------------------------
(* One lemma per action.                                                   *)
LEMMA InitIInv == Init => IInv
<1> SUFFICES ASSUME Init PROVE IInv
  OBVIOUS
<1>1. TypeOK
  <2>1. \A r \in Request : order[r] \in [kind : Kinds, model : Backend]
    BY PinnedAssumption DEF Init, Nothing, Kinds
  <2>2. \A r \in Request : Config(r).attempts \in Nat
    BY <2>1, PinnedAssumption
    DEF Config, Adapters, OpenAICompatible, Anthropic, Cohere, Google, LocalServer
  <2>3. <<>> \in Seq(Nat) /\ <<>> \in Seq(Event) /\ \A k \in Nat : <<>> \in Seq(1..k)
    OBVIOUS
  <2>4. /\ content \in [Request -> Seq(Nat)] /\ events \in [Request -> Seq(Event)]
        /\ \A r \in Request : attempt[r] = 0 /\ content[r] = <<>>
    BY <2>3 DEF Init
  <2>5. \A r \in Request :
           attempt[r] <= Config(r).attempts /\ content[r] \in Seq(1..attempt[r])
    BY <2>2, <2>3, <2>4
  <2>6. QED  BY <2>1, <2>4, <2>5, PinnedAssumption DEF Init, TypeOK
<1>2. Calls
  <2>1. \A r \in Request : CallOK(r)
    BY DEF Init, CallOK, Begun
  <2>2. \A r \in Request : order[r].kind # "stream"
    BY DEF Init, Nothing
  <2>3. QED  BY <2>1, <2>2 DEF Calls, StreamOK
<1>3. Books
  <2>1. \A p \in Provider : HeldAt(p) = {} /\ AnsweredAt(p) = {}
    BY DEF Init, HeldAt, Held, AnsweredAt, In
  <2>2. \A n \in Names : AnsweredAs(n) = {} /\ FailedAs(n) = {}
    BY DEF Init, AnsweredAs, FailedAs, In
  <2>3. Cardinality({}) = 0  BY FS_EmptySet
  <2>4. \A p \in Provider : rows[p] = 0 /\ others = 0 /\ Limit[p] \in Nat
    BY PinnedAssumption DEF Init
  <2>5. \A n \in Names : heard[<<n, "success">>] = 0 /\ heard[<<n, "error">>] = 0
    BY DEF Init
  <2>6. ASSUME NEW p \in Provider
        PROVE  /\ Cardinality(HeldAt(p)) <= Limit[p]
               /\ rows[p] >= Cardinality(HeldAt(p)) + Cardinality(AnsweredAt(p))
               /\ rows[p] <= Cardinality(HeldAt(p)) + Cardinality(AnsweredAt(p)) + others
    BY <2>1, <2>3, <2>4
  <2>7. ASSUME NEW n \in Names
        PROVE  /\ heard[<<n, "success">>] = Cardinality(AnsweredAs(n))
               /\ heard[<<n, "error">>] = Cardinality(FailedAs(n))
    BY <2>2, <2>3, <2>5
  <2>8. QED  BY <2>6, <2>7 DEF Books
<1>4. QED  BY <1>1, <1>2, <1>3 DEF IInv

LEMMA Attempts ==
    ASSUME TypeOK, NEW r \in Request
    PROVE  Config(r).attempts \in Nat \ {0}
<1>1. Config(r) \in Adapters  BY PinnedAssumption DEF TypeOK, Config
<1>2. QED
  BY <1>1 DEF Adapters, OpenAICompatible, Anthropic, Cohere, Google, LocalServer

\* A call of a new client: refused at once, or on its way to the budget.
LEMMA SubmitStep ==
    ASSUME IInv, NEW r \in Request, NEW kind \in Kinds, NEW b \in Backend,
           NEW status \in Statuses, Submit(r, kind, b, status)
    PROVE  IInv'
<1>1. /\ pc[r] = "new" /\ order' = [order EXCEPT ![r] = [kind |-> kind, model |-> b]]
      /\ UNCHANGED <<rows, heard, reserved, attempt, body, content, torn, others>>
      /\ \/ pc' = [pc EXCEPT ![r] = "reserving"] /\ events' = events /\ HasCapacity(ProviderOf[b])
         \/ pc' = [pc EXCEPT ![r] = "refused"] /\ events' = Told(r, kind, "error")
  BY DEF Submit, Preflight, books
<1>2. TypeOK /\ CallOK(r)  BY DEF IInv, Calls
<1>3. /\ ~reserved[r] /\ attempt[r] = 0 /\ content[r] = <<>> /\ events[r] = <<>>
  BY <1>1, <1>2 DEF CallOK, Unbegun
<1>4. /\ events' \in [Request -> Seq(Event)]
      /\ \A q \in Request \ {r} : events'[q] = events[q]
      /\ pc'[r] = "refused" /\ kind = "stream" => events'[r] = Append(<<>>, "error")
      /\ pc'[r] # "refused" => events'[r] = <<>>
  <2>1. "error" \in Event /\ events \in [Request -> Seq(Event)]
    BY <1>2 DEF Event, TypeOK
  <2>2. Append(events[r], "error") \in Seq(Event)
    BY <2>1
  <2>3. QED  BY <1>1, <1>2, <1>3, <2>1, <2>2 DEF Told, TypeOK
<1>5. TypeOK'
  <2>1. order' \in [Request -> [kind : Kinds, model : Backend]]
    BY <1>1, <1>2 DEF TypeOK
  <2>2. pc' \in [Request -> {"new", "reserving", "ready", "asked"} \cup Over]
    BY <1>1, <1>2 DEF TypeOK, Over
  <2>3. \A q \in Request : Config(q)'.attempts >= attempt[q]
    <3> SUFFICES ASSUME NEW q \in Request PROVE Config(q)'.attempts >= attempt[q]
      OBVIOUS
    <3>1. CASE q = r
      <4>1. Config(r)' \in Adapters
        BY <2>1, PinnedAssumption DEF Config
      <4>2. QED
        BY <1>3, <3>1, <4>1
        DEF Adapters, OpenAICompatible, Anthropic, Cohere, Google, LocalServer
    <3>2. CASE q # r
      <4>1. order'[q] = order[q]  BY <1>1, <1>2, <3>2 DEF TypeOK
      <4>2. QED  BY <1>2, <4>1, Attempts DEF TypeOK, Config
    <3>3. QED  BY <3>1, <3>2
  <2>4. QED  BY <1>1, <1>2, <1>4, <2>1, <2>2, <2>3 DEF TypeOK
<1>6. StepOf(r)
  BY <1>1, <1>2, <1>4 DEF StepOf, TypeOK
<1>7. CallOK(r)'
  <2>1. pc'[r] = "reserving" => Limit[Place(r)'] > 0
    <3>1. Place(r)' = ProviderOf[b] /\ ProviderOf[b] \in Provider
      BY <1>1, <1>2, PinnedAssumption DEF Place, TypeOK
    <3>2. rows[ProviderOf[b]] \in Nat /\ Limit[ProviderOf[b]] \in Nat
      BY <1>2, <3>1, PinnedAssumption DEF TypeOK
    <3>3. pc'[r] = "reserving" => HasCapacity(ProviderOf[b])
      BY <1>1, <1>2 DEF TypeOK
    <3>4. QED  BY <3>1, <3>2, <3>3 DEF HasCapacity
  <2>2. QED  BY <1>1, <1>2, <1>3, <1>4, <2>1 DEF CallOK, TypeOK, Unbegun, Begun
<1>8. StreamOK(r)'
  <2>1. order'[r].kind = kind /\ content'[r] = <<>> /\ Len(content'[r]) = 0
    BY <1>1, <1>2, <1>3 DEF TypeOK
  <2>2. Tokens(0) = <<>>
    BY DEF Tokens
  <2>3. /\ Tokens(0) \o <<>> = <<>>
        /\ Append(<<>>, "error") = Tokens(0) \o <<"error">>
    BY <2>2, TokensGrow DEF Event
  <2>4. CASE pc'[r] = "refused"
    BY <1>4, <2>1, <2>3, <2>4 DEF StreamOK, LastEvent
  <2>5. CASE pc'[r] = "reserving"
    BY <1>4, <2>1, <2>3, <2>5 DEF StreamOK, LastEvent
  <2>6. QED  BY <1>1, <1>2, <2>4, <2>5 DEF TypeOK
<1>9. Calls'  BY <1>6, <1>7, <1>8, CallsStep
<1>10. Books'
  <2>1. \A q \in Request : reserved[q] => order'[q] = order[q]
    BY <1>1, <1>2, <1>3 DEF TypeOK
  <2>2. \A q \in Request, w \in {"answered", "failed"} : pc'[q] = w <=> pc[q] = w
    BY <1>1, <1>2 DEF TypeOK
  <2>3. QED  BY <1>1, <2>1, <2>2, QuietBooks
<1>11. QED  BY <1>5, <1>9, <1>10 DEF IInv

\* The budget gives a place or not.
LEMMA ReserveStep ==
    ASSUME IInv, NEW r \in Request, Reserve(r)
    PROVE  IInv'
<1>1. /\ pc[r] = "reserving"
      /\ UNCHANGED <<heard, order, attempt, body, content, torn, others>>
      /\ TypeOK /\ CallOK(r) /\ StreamOK(r)
  BY DEF Reserve, IInv, Calls
<1>2. ~reserved[r] /\ attempt[r] = 0 /\ content[r] = <<>> /\ Place(r) \in Provider
  BY <1>1, PinnedAssumption DEF CallOK, Unbegun, TypeOK, Place
<1>3. Config(r)' = Config(r) /\ \A q \in Request : Config(q)' = Config(q)
  BY <1>1 DEF Config
<1>4. CASE ~HasCapacityInTxn(Place(r))
  <2>1. /\ pc' = [pc EXCEPT ![r] = "refused"]
        /\ events' = Told(r, order[r].kind, "error")
        /\ rows' = rows /\ reserved' = reserved
    BY <1>4 DEF Reserve, Take
  <2>2. /\ events' \in [Request -> Seq(Event)]
        /\ \A q \in Request \ {r} : events'[q] = events[q]
        /\ order[r].kind = "stream" => events'[r] = Append(events[r], "error")
    BY <1>1, <2>1 DEF Told, TypeOK, Event
  <2>3. TypeOK'  BY <1>1, <1>3, <2>1, <2>2 DEF TypeOK, Over
  <2>4. StepOf(r)  BY <1>1, <2>1, <2>2 DEF StepOf, TypeOK
  <2>5. CallOK(r)'
    BY <1>1, <1>2, <2>1 DEF CallOK, TypeOK, Unbegun, Begun
  <2>6. StreamOK(r)'
    <3>1. Append(Tokens(0) \o <<>>, "error") = Tokens(0) \o <<"error">>
      BY TokensGrow DEF Event
    <3>2. Len(content[r]) = 0
      BY <1>2
    <3>3. QED
      BY <1>1, <2>1, <2>2, <3>1, <3>2 DEF StreamOK, LastEvent, TypeOK
  <2>7. Calls'  BY <2>4, <2>5, <2>6, CallsStep
  <2>8. Books'
    <3>1. \A q \in Request, w \in {"answered", "failed"} : pc'[q] = w <=> pc[q] = w
      BY <1>1, <2>1 DEF TypeOK
    <3>2. QED  BY <1>1, <2>1, <3>1, QuietBooks
  <2>9. QED  BY <2>3, <2>7, <2>8 DEF IInv
<1>5. CASE HasCapacityInTxn(Place(r))
  <2>1. /\ pc' = [pc EXCEPT ![r] = "ready"] /\ events' = events
        /\ rows' = [rows EXCEPT ![Place(r)] = @ + 1]
        /\ reserved' = [reserved EXCEPT ![r] = TRUE]
    BY <1>5 DEF Reserve, Take
  <2>2. TypeOK'
    <3>1. rows' \in [Provider -> Nat]
      BY <1>1, <1>2, <2>1 DEF TypeOK
    <3>2. reserved' \in [Request -> BOOLEAN]
      BY <1>1, <2>1 DEF TypeOK
    <3>3. pc' \in [Request -> {"new", "reserving", "ready", "asked"} \cup Over]
      BY <1>1, <2>1 DEF TypeOK
    <3>4. QED  BY <1>1, <1>3, <2>1, <3>1, <3>2, <3>3 DEF TypeOK
  <2>3. StepOf(r)  BY <1>1, <2>1 DEF StepOf, TypeOK
  <2>4. CallOK(r)'
    <3>1. attempt[r] < Config(r).attempts  BY <1>1, <1>2, Attempts
    <3>2. /\ pc'[r] = "ready" /\ reserved'[r] /\ attempt'[r] = 0
          /\ content'[r] = <<>> /\ attempt'[r] < Config(r)'.attempts
      BY <1>1, <1>2, <1>3, <2>1, <3>1 DEF TypeOK
    <3>3. QED  BY <3>2 DEF CallOK, Unbegun
  <2>5. StreamOK(r)'
    BY <1>1, <2>1 DEF StreamOK, LastEvent, TypeOK
  <2>6. Calls'  BY <2>3, <2>4, <2>5, CallsStep
  <2>7. /\ \A p : AnsweredAt(p)' = AnsweredAt(p)
        /\ \A n : AnsweredAs(n)' = AnsweredAs(n) /\ FailedAs(n)' = FailedAs(n)
    BY <1>1, <2>1 DEF AnsweredAt, AnsweredAs, FailedAs, In, Place, ReportedAs, TypeOK
  <2>8. ASSUME NEW p \in Provider
        PROVE  /\ Cardinality(HeldAt(p)') <= Limit[p]
               /\ rows'[p] >= Cardinality(HeldAt(p)') + Cardinality(AnsweredAt(p))
               /\ rows'[p] <= Cardinality(HeldAt(p)') + Cardinality(AnsweredAt(p)) + others
    <3>1. /\ Cardinality(HeldAt(p)) <= Limit[p]
          /\ rows[p] >= Cardinality(HeldAt(p)) + Cardinality(AnsweredAt(p))
          /\ rows[p] <= Cardinality(HeldAt(p)) + Cardinality(AnsweredAt(p)) + others
          /\ rows[p] \in Nat /\ others \in Nat /\ Limit[p] \in Nat
          /\ Cardinality(HeldAt(p)) \in Nat /\ Cardinality(AnsweredAt(p)) \in Nat
      BY <1>1, Counts, CallSets, PinnedAssumption DEF IInv, Books, TypeOK
    <3>2. CASE p = Place(r)
      <4>1. HeldAt(p)' = HeldAt(p) \cup {r} /\ r \notin HeldAt(p)
        BY <1>1, <1>2, <2>1, <3>2 DEF HeldAt, Held, Place, TypeOK
      <4>2. rows'[p] = rows[p] + 1 /\ rows[p] < Limit[p]
        BY <1>1, <1>2, <1>5, <2>1, <3>1, <3>2 DEF TypeOK, CallOK, HasCapacityInTxn
      <4>3. Cardinality(HeldAt(p)') = Cardinality(HeldAt(p)) + 1
        BY <4>1, OneMore, CallSets
      <4>4. QED  BY <3>1, <4>2, <4>3
    <3>3. CASE p # Place(r)
      <4>1. HeldAt(p)' = HeldAt(p)
        BY <1>1, <2>1, <3>3 DEF HeldAt, Held, Place, TypeOK
      <4>2. rows'[p] = rows[p]
        BY <1>1, <2>1, <3>3 DEF TypeOK
      <4>3. QED  BY <3>1, <4>1, <4>2
    <3>4. QED  BY <3>2, <3>3
  <2>9. Books'  BY <1>1, <2>7, <2>8 DEF IInv, Books
  <2>10. QED  BY <2>2, <2>6, <2>9 DEF IInv
<1>6. QED  BY <1>4, <1>5

\* A request to the provider.
LEMMA AskStep ==
    ASSUME IInv, NEW r \in Request, Ask(r)
    PROVE  IInv'
<1>1. /\ pc[r] = "ready" /\ pc' = [pc EXCEPT ![r] = "asked"]
      /\ attempt' = [attempt EXCEPT ![r] = @ + 1] /\ body' = [body EXCEPT ![r] = 0]
      /\ UNCHANGED <<rows, heard, order, reserved, content, events, torn, others>>
      /\ TypeOK /\ CallOK(r) /\ StreamOK(r)
  BY DEF Ask, books, IInv, Calls
<1>2. \A q \in Request : Config(q)' = Config(q)
  BY <1>1 DEF Config
<1>3. /\ attempt[r] \in Nat /\ attempt'[r] = attempt[r] + 1 /\ body'[r] = 0
      /\ pc'[r] = "asked" /\ content'[r] = content[r]
      /\ attempt[r] < Config(r).attempts
  BY <1>1 DEF TypeOK, CallOK
<1>4. TypeOK'
  <2>1. /\ attempt' \in [Request -> Nat] /\ body' \in [Request -> 0..MaxPieces]
        /\ pc' \in [Request -> {"new", "reserving", "ready", "asked"} \cup Over]
    BY <1>1, PinnedAssumption DEF TypeOK
  <2>2. \A q \in Request :
           attempt'[q] <= Config(q).attempts /\ content[q] \in Seq(1..attempt'[q])
    <3> SUFFICES ASSUME NEW q \in Request
                 PROVE  attempt'[q] <= Config(q).attempts /\ content[q] \in Seq(1..attempt'[q])
      OBVIOUS
    <3>1. CASE q = r
      <4>1. content[r] \in Seq(1..attempt[r])  BY <1>1 DEF TypeOK
      <4>2. 1..attempt[r] \subseteq 1..attempt'[r]  BY <1>3
      <4>3. content[r] \in Seq(1..attempt'[r])  BY <4>1, <4>2, SeqOfMore
      <4>4. attempt'[r] <= Config(r).attempts  BY <1>1, <1>3, Attempts
      <4>5. QED  BY <3>1, <4>3, <4>4
    <3>2. CASE q # r
      BY <1>1, <3>2 DEF TypeOK
    <3>3. QED  BY <3>1, <3>2
  <2>3. QED  BY <1>1, <1>2, <2>1, <2>2 DEF TypeOK
<1>5. StepOf(r)  BY <1>1 DEF StepOf, TypeOK
<1>6. CallOK(r)'
  <2>1. ~torn[r] => content[r] = <<>>
    BY <1>1 DEF CallOK
  <2>2. reserved[r]
    BY <1>1 DEF CallOK, Begun
  <2>3. ~torn[r] => \A i \in DOMAIN content[r] : content[r][i] = attempt'[r]
    BY <2>1
  <2>4. QED  BY <1>1, <1>3, <2>1, <2>2, <2>3 DEF CallOK, Unbegun
<1>7. StreamOK(r)'
  BY <1>1, <1>3 DEF StreamOK, LastEvent
<1>8. Calls'  BY <1>5, <1>6, <1>7, CallsStep
<1>9. Books'
  <2>1. \A q \in Request, w \in {"answered", "failed"} : pc'[q] = w <=> pc[q] = w
    BY <1>1 DEF TypeOK
  <2>2. QED  BY <1>1, <2>1, QuietBooks
<1>10. QED  BY <1>4, <1>8, <1>9 DEF IInv

\* The end of a call that is neither an answer nor counted anywhere, or the next attempt:
\* nothing moves but the call itself and, perhaps, the mark that it was torn.
LEMMA MoveStep ==
    ASSUME IInv, NEW r \in Request, NEW to \in {"ready", "raised", "gone"},
           pc[r] \in {"reserving", "ready", "asked"}, pc' = [pc EXCEPT ![r] = to],
           UNCHANGED <<rows, heard, order, reserved, attempt, body, content, events, others>>,
           torn' \in [Request -> BOOLEAN], \A q \in Request : torn[q] => torn'[q],
           \A q \in Request \ {r} : torn'[q] = torn[q],
           to # "gone" => pc[r] = "asked",
           to = "ready" => /\ attempt[r] < Config(r).attempts
                           /\ body[r] > 0 => torn'[r]
    PROVE  IInv'
<1>1. TypeOK /\ CallOK(r) /\ StreamOK(r) /\ pc'[r] = to
  BY DEF IInv, Calls, TypeOK
<1>2. \A q \in Request : Config(q)' = Config(q)
  BY DEF Config
<1>3. TypeOK'  BY <1>1, <1>2 DEF TypeOK, Over
<1>4. StepOf(r)  BY <1>1 DEF StepOf, TypeOK
<1>5. CallOK(r)'
  <2>1. body[r] \in Nat  BY <1>1, PinnedAssumption DEF TypeOK
  <2>2. ~torn'[r] /\ to = "ready" => content[r] = <<>>
    BY <1>1, <2>1 DEF CallOK
  <2>3. to \notin Unbegun /\ to \notin {"new", "asked"}
    BY DEF Unbegun
  <2>4. to \in Begun => reserved[r]
    BY <1>1 DEF CallOK, Begun
  <2>5. ~torn'[r] => \A i \in DOMAIN content[r] : content[r][i] = attempt[r]
    BY <1>1 DEF CallOK
  <2>6. ~reserved[r] => attempt[r] = 0 /\ content[r] = <<>>
    BY <1>1 DEF CallOK
  <2>7. to = "ready" => attempt[r] < Config(r)'.attempts
    BY <1>2
  <2>8. QED  BY <1>1, <2>2, <2>3, <2>4, <2>5, <2>6, <2>7 DEF CallOK
<1>6. StreamOK(r)'
  BY <1>1 DEF StreamOK, LastEvent
<1>7. Calls'  BY <1>4, <1>5, <1>6, CallsStep
<1>8. Books'
  <2>1. \A q \in Request, w \in {"answered", "failed"} : pc'[q] = w <=> pc[q] = w
    BY <1>1 DEF TypeOK
  <2>2. QED  BY <2>1, QuietBooks
<1>9. QED  BY <1>3, <1>7, <1>8 DEF IInv

\* A call fails: a stream ends with the error.
LEMMA FailStep ==
    ASSUME IInv, NEW r \in Request, pc[r] \in {"ready", "asked"}, Fail(r), Silent(r),
           torn' \in [Request -> BOOLEAN], \A q \in Request : torn[q] => torn'[q],
           \A q \in Request \ {r} : torn'[q] = torn[q]
    PROVE  IInv'
<1>1. /\ TypeOK /\ CallOK(r) /\ StreamOK(r)
      /\ pc' = [pc EXCEPT ![r] = "failed"] /\ rows' = rows
      /\ heard' = [heard EXCEPT ![<<order[r].model, "error">>] = @ + 1]
      /\ events' = Told(r, order[r].kind, "error")
      /\ UNCHANGED <<order, reserved, attempt, body, content, others>>
  BY DEF Fail, Silent, IInv, Calls
<1>2. \A q \in Request : Config(q)' = Config(q)
  BY <1>1 DEF Config
<1>3. /\ events' \in [Request -> Seq(Event)]
      /\ \A q \in Request \ {r} : events'[q] = events[q]
      /\ order[r].kind = "stream" => events'[r] = Append(events[r], "error")
  BY <1>1 DEF Told, TypeOK, Event
<1>4. TypeOK'
  <2>1. heard' \in [Names \X {"success", "error"} -> Nat]
    <3>1. order[r].model \in Names  BY <1>1 DEF TypeOK, Names
    <3>2. QED  BY <1>1, <3>1 DEF TypeOK
  <2>2. QED  BY <1>1, <1>2, <1>3, <2>1 DEF TypeOK, Over
<1>5. StepOf(r)  BY <1>1, <1>3 DEF StepOf, TypeOK
<1>6. CallOK(r)'
  <2>1. pc'[r] = "failed" /\ reserved[r]
    BY <1>1 DEF TypeOK, CallOK, Begun
  <2>2. ~torn'[r] => \A i \in DOMAIN content[r] : content[r][i] = attempt[r]
    BY <1>1 DEF CallOK
  <2>3. QED  BY <1>1, <2>1, <2>2 DEF CallOK, Unbegun
<1>7. StreamOK(r)'
  <2>1. Len(content[r]) \in Nat
    BY <1>1 DEF TypeOK
  <2>2. \A n \in Nat : Append(Tokens(n) \o <<>>, "error") = Tokens(n) \o <<"error">>
    BY TokensGrow DEF Event
  <2>3. pc'[r] = "failed" /\ LastEvent(r) = <<>> /\ LastEvent(r)' = <<"error">>
    BY <1>1 DEF TypeOK, LastEvent
  <2>4. QED  BY <1>1, <1>3, <2>1, <2>2, <2>3 DEF StreamOK
<1>8. Calls'  BY <1>5, <1>6, <1>7, CallsStep
<1>9. Books'  BY <1>1, FailBooks
<1>10. QED  BY <1>4, <1>8, <1>9 DEF IInv

\* A piece of the answer.
LEMMA PieceStep ==
    ASSUME IInv, NEW r \in Request, Piece(r)
    PROVE  IInv'
<1>1. /\ pc[r] = "asked" /\ body[r] < MaxPieces /\ body' = [body EXCEPT ![r] = @ + 1]
      /\ content' = [content EXCEPT ![r] = Append(@, attempt[r])]
      /\ events' = Told(r, order[r].kind, "token")
      /\ UNCHANGED <<rows, heard, pc, order, reserved, attempt, torn, others>>
      /\ TypeOK /\ CallOK(r) /\ StreamOK(r)
  BY DEF Piece, books, IInv, Calls
<1>2. \A q \in Request : Config(q)' = Config(q)
  BY <1>1 DEF Config
<1>3. /\ events' \in [Request -> Seq(Event)]
      /\ \A q \in Request \ {r} : events'[q] = events[q]
      /\ order[r].kind = "stream" => events'[r] = Append(events[r], "token")
  BY <1>1 DEF Told, TypeOK, Event
<1>4. /\ attempt[r] \in Nat /\ attempt[r] > 0 /\ attempt[r] \in 1..attempt[r]
      /\ body[r] \in Nat /\ body'[r] = body[r] + 1
      /\ content[r] \in Seq(1..attempt[r]) /\ content[r] \in Seq(Nat)
      /\ content'[r] = Append(content[r], attempt[r])
  BY <1>1, PinnedAssumption DEF TypeOK, CallOK
<1>5. /\ content'[r] \in Seq(1..attempt[r]) /\ Len(content'[r]) = Len(content[r]) + 1
      /\ Len(content[r]) \in Nat
      /\ \A i \in DOMAIN content'[r] :
            \/ i \in DOMAIN content[r] /\ content'[r][i] = content[r][i]
            \/ content'[r][i] = attempt[r]
  <2>1. content'[r] \in Seq(1..attempt[r]) /\ Len(content'[r]) = Len(content[r]) + 1
    BY <1>4, AppendProperties
  <2>2. DOMAIN content[r] = 1..Len(content[r]) /\ DOMAIN content'[r] = 1..Len(content'[r])
        /\ Len(content[r]) \in Nat
    BY <1>4, <2>1, LenProperties
  <2>3. /\ content'[r][Len(content[r]) + 1] = attempt[r]
        /\ \A i \in 1..Len(content[r]) : content'[r][i] = content[r][i]
    BY <1>4, AppendProperties
  <2>4. QED  BY <2>1, <2>2, <2>3
<1>6. TypeOK'
  <2>1. body' \in [Request -> 0..MaxPieces] /\ content' \in [Request -> Seq(Nat)]
    BY <1>1, <1>4, PinnedAssumption DEF TypeOK
  <2>2. \A q \in Request : content'[q] \in Seq(1..attempt[q])
    BY <1>1, <1>5 DEF TypeOK
  <2>3. QED  BY <1>1, <1>2, <1>3, <2>1, <2>2 DEF TypeOK
<1>7. StepOf(r)  BY <1>1, <1>3 DEF StepOf, TypeOK
<1>8. CallOK(r)'
  <2>1. reserved[r]  BY <1>1 DEF CallOK, Begun
  <2>2. ~torn[r] => \A i \in DOMAIN content'[r] : content'[r][i] = attempt[r]
    BY <1>1, <1>5 DEF CallOK
  <2>3. body'[r] # 0  BY <1>4
  <2>4. QED  BY <1>1, <1>4, <2>1, <2>2, <2>3 DEF CallOK, Unbegun
<1>9. StreamOK(r)'
  <2>1. \A n \in Nat : Append(Tokens(n) \o <<>>, "token") = Tokens(n + 1) \o <<>>
    BY TokensGrow
  <2>2. LastEvent(r) = <<>> /\ LastEvent(r)' = <<>>
    BY <1>1 DEF LastEvent
  <2>3. QED  BY <1>1, <1>3, <1>5, <2>1, <2>2 DEF StreamOK
<1>10. Calls'  BY <1>7, <1>8, <1>9, CallsStep
<1>11. Books'  BY <1>1, QuietBooks
<1>12. QED  BY <1>6, <1>10, <1>11 DEF IInv

\* The answer is complete.
LEMMA CompleteStep ==
    ASSUME IInv, NEW r \in Request, Complete(r)
    PROVE  IInv'
<1>1. /\ pc[r] = "asked" /\ Answered(r)
      /\ content' = IF InOnePiece(r) THEN [content EXCEPT ![r] = <<attempt[r]>>] ELSE content
      /\ events' = Told(r, order[r].kind, "metadata")
      /\ UNCHANGED <<order, reserved, attempt, body, torn, others>>
      /\ TypeOK /\ CallOK(r) /\ StreamOK(r)
  BY DEF Complete, IInv, Calls
<1>2. \A q \in Request : Config(q)' = Config(q)
  BY <1>1 DEF Config
<1>3. /\ events' \in [Request -> Seq(Event)]
      /\ \A q \in Request \ {r} : events'[q] = events[q]
      /\ order[r].kind = "stream" => events'[r] = Append(events[r], "metadata")
  BY <1>1 DEF Told, TypeOK, Event
<1>4. /\ attempt[r] \in Nat /\ attempt[r] \in 1..attempt[r] /\ pc'[r] = "answered"
      /\ pc' = [pc EXCEPT ![r] = "answered"]
      /\ content[r] \in Seq(1..attempt[r]) /\ content[r] \in Seq(Nat) /\ reserved[r]
  BY <1>1 DEF TypeOK, CallOK, Answered, Begun
<1>5. /\ content' \in [Request -> Seq(Nat)]
      /\ \A q \in Request \ {r} : content'[q] = content[q]
      /\ content'[r] = content[r] \/ content'[r] = <<attempt[r]>>
      /\ order[r].kind = "stream" => content'[r] = content[r]
  BY <1>1, <1>4 DEF TypeOK, InOnePiece
<1>6. /\ content'[r] \in Seq(1..attempt[r])
      /\ ~torn[r] => \A i \in DOMAIN content'[r] : content'[r][i] = attempt[r]
  <2>1. CASE content'[r] = content[r]
    BY <1>1, <1>4, <2>1 DEF CallOK
  <2>2. CASE content'[r] = <<attempt[r]>>
    BY <1>4, <2>2
  <2>3. QED  BY <1>5, <2>1, <2>2
<1>7. TypeOK'
  <2>1. rows' \in [Provider -> Nat]
    <3>1. Place(r) \in Provider  BY <1>1, PinnedAssumption DEF TypeOK, Place
    <3>2. QED  BY <1>1, <3>1 DEF TypeOK, Answered
  <2>2. heard' \in [Names \X {"success", "error"} -> Nat]
    <3>1. order[r].model \in Backend  BY <1>1 DEF TypeOK
    <3>2. ReportedAs(r) \in Names  BY <3>1 DEF ReportedAs, Names
    <3>3. QED  BY <1>1, <3>2 DEF TypeOK, Answered
  <2>3. pc' \in [Request -> {"new", "reserving", "ready", "asked"} \cup Over]
    BY <1>1, <1>4 DEF TypeOK, Over
  <2>4. \A q \in Request : content'[q] \in Seq(1..attempt[q])
    BY <1>1, <1>5, <1>6 DEF TypeOK
  <2>5. QED  BY <1>1, <1>2, <1>3, <1>5, <2>1, <2>2, <2>3, <2>4 DEF TypeOK
<1>8. StepOf(r)  BY <1>1, <1>3, <1>4, <1>5 DEF StepOf, TypeOK
<1>9. CallOK(r)'  BY <1>1, <1>4, <1>6 DEF CallOK, Unbegun
<1>10. StreamOK(r)'
  <2>1. \A n \in Nat : Append(Tokens(n) \o <<>>, "metadata") = Tokens(n) \o <<"metadata">>
    BY TokensGrow DEF Event
  <2>2. LastEvent(r) = <<>> /\ LastEvent(r)' = <<"metadata">>
    BY <1>1, <1>4 DEF LastEvent
  <2>3. Len(content[r]) \in Nat  BY <1>4
  <2>4. QED  BY <1>1, <1>3, <1>5, <2>1, <2>2, <2>3 DEF StreamOK
<1>11. Calls'  BY <1>8, <1>9, <1>10, CallsStep
<1>12. Books'  BY <1>1, AnswerBooks
<1>13. QED  BY <1>7, <1>11, <1>12 DEF IInv

\* The steps that end an attempt.
LEMMA AttemptStep ==
    ASSUME IInv, NEW r \in Request,
           \/ Unkeyed(r) \/ TimeOut(r) \/ Unreadable(r) \/ Break(r)
           \/ \E retryable \in BOOLEAN : ErrorStatus(r, retryable)
    PROVE  IInv'
<1>1. TypeOK /\ torn \in [Request -> BOOLEAN] /\ body[r] \in Nat
  BY PinnedAssumption DEF IInv, TypeOK
<1>2. ASSUME pc[r] \in {"ready", "asked"}, Fail(r), Silent(r), UNCHANGED torn PROVE IInv'
  BY <1>1, <1>2, FailStep
<1>3. ASSUME pc[r] = "asked", body[r] = 0, TryAgain(r), Silent(r), UNCHANGED torn PROVE IInv'
  <2>1. CASE Fail(r)
    BY <1>2, <1>3, <2>1
  <2>2. CASE ~Fail(r)
    BY <1>1, <1>3, <2>2, MoveStep DEF TryAgain, Silent, books
  <2>3. QED  BY <2>1, <2>2
<1>4. ASSUME Unkeyed(r) PROVE IInv'
  BY <1>2, <1>4 DEF Unkeyed, Silent
<1>5. ASSUME TimeOut(r) PROVE IInv'
  <2>1. /\ pc[r] = "asked" /\ TryAgain(r) /\ Silent(r)
        /\ torn' = [torn EXCEPT ![r] = @ \/ body[r] > 0]
    BY <1>5 DEF TimeOut
  <2>2. /\ torn' \in [Request -> BOOLEAN] /\ \A q \in Request : torn[q] => torn'[q]
        /\ \A q \in Request \ {r} : torn'[q] = torn[q]
        /\ body[r] > 0 => torn'[r]
    BY <1>1, <2>1
  <2>3. CASE Fail(r)
    BY <2>1, <2>2, <2>3, FailStep
  <2>4. CASE ~Fail(r)
    BY <2>1, <2>2, <2>4, MoveStep DEF TryAgain, Silent, books
  <2>5. QED  BY <2>3, <2>4
<1>6. ASSUME Unreadable(r) \/ Break(r) PROVE IInv'
  <2>1. pc[r] = "asked" /\ Silent(r) /\ torn' = torn /\ (Fail(r) \/ Raise(r))
    BY <1>6 DEF Unreadable, Break
  <2>2. CASE Raise(r)
    BY <1>1, <2>1, <2>2, MoveStep DEF Raise, Silent, books
  <2>3. QED  BY <1>2, <2>1, <2>2
<1>7. ASSUME NEW retryable \in BOOLEAN, ErrorStatus(r, retryable) PROVE IInv'
  BY <1>2, <1>3, <1>7 DEF ErrorStatus
<1>8. QED  BY <1>4, <1>5, <1>6, <1>7

LEMMA LeaveStep ==
    ASSUME IInv, NEW r \in Request, Leave(r)
    PROVE  IInv'
<1>1. torn \in [Request -> BOOLEAN]  BY DEF IInv, TypeOK
<1>2. QED  BY <1>1, MoveStep DEF Leave, books, progress

\* A call of the cascade: one more row that is not of a pinned call.
LEMMA OtherStep ==
    ASSUME IInv, NEW p \in Provider, OtherCall(p)
    PROVE  IInv'
<1>1. /\ others < MaxOthers /\ others' = others + 1
      /\ rows' = [rows EXCEPT ![p] = @ + 1]
      /\ UNCHANGED <<heard, pc, order, reserved, attempt, body, content, events, torn>>
      /\ TypeOK /\ Calls /\ Books
  BY DEF OtherCall, progress, IInv
<1>2. TypeOK'
  <2>1. rows' \in [Provider -> Nat] /\ others' \in 0..MaxOthers
    BY <1>1, PinnedAssumption DEF TypeOK
  <2>2. \A q \in Request : Config(q)' = Config(q)  BY <1>1 DEF Config
  <2>3. QED  BY <1>1, <2>1, <2>2 DEF TypeOK
<1>3. Calls'
  BY <1>1 DEF Calls, CallOK, Config, Place, StreamOK, LastEvent
<1>4. Books'
  <2>1. \A q : HeldAt(q)' = HeldAt(q) /\ AnsweredAt(q)' = AnsweredAt(q)
    BY <1>1 DEF HeldAt, Held, AnsweredAt, In, Place
  <2>2. \A n : AnsweredAs(n)' = AnsweredAs(n) /\ FailedAs(n)' = FailedAs(n)
    BY <1>1 DEF AnsweredAs, FailedAs, In, ReportedAs
  <2>3. ASSUME NEW q \in Provider
        PROVE  /\ rows'[q] >= Cardinality(HeldAt(q)) + Cardinality(AnsweredAt(q))
               /\ rows'[q] <= Cardinality(HeldAt(q)) + Cardinality(AnsweredAt(q)) + others'
    <3>1. /\ rows[q] \in Nat /\ others \in Nat
          /\ Cardinality(HeldAt(q)) \in Nat /\ Cardinality(AnsweredAt(q)) \in Nat
      BY <1>1, Counts, CallSets, PinnedAssumption DEF TypeOK
    <3>2. rows'[q] \in {rows[q], rows[q] + 1}
      BY <1>1 DEF TypeOK
    <3>3. QED  BY <1>1, <3>1, <3>2 DEF Books
  <2>4. QED  BY <1>1, <2>1, <2>2, <2>3 DEF Books
<1>5. QED  BY <1>2, <1>3, <1>4 DEF IInv

-----------------------------------------------------------------------------
(* The theorems.                                                           *)

\* The inductive invariant of every behaviour.
THEOREM Invariance == Spec => []IInv
<1>1. Init => IInv
  BY InitIInv
<1>2. IInv /\ [Next]_vars => IInv'
  <2> SUFFICES ASSUME IInv, [Next]_vars PROVE IInv'
    OBVIOUS
  <2>1. CASE UNCHANGED vars
    <3>1. /\ UNCHANGED <<rows, heard, pc, order, reserved, attempt, body>>
          /\ UNCHANGED <<content, events, torn, others>>
      BY <2>1 DEF vars, books, progress
    <3>2. TypeOK'  BY <3>1 DEF IInv, TypeOK, Config
    <3>3. Calls'  BY <3>1 DEF IInv, Calls, CallOK, Config, Place, StreamOK, LastEvent
    <3>4. Books'  BY <3>1, QuietBooks
    <3>5. QED  BY <3>2, <3>3, <3>4 DEF IInv
  <2>2. ASSUME NEW r \in Request, Step(r) PROVE IInv'
    BY <2>2, ReserveStep, AskStep, AttemptStep, PieceStep, CompleteStep DEF Step
  <2>3. CASE Next
    BY <2>2, <2>3, SubmitStep, LeaveStep, OtherStep DEF Next
  <2>4. QED  BY <2>1, <2>3
<1>3. QED  BY <1>1, <1>2, PTL DEF Spec

\* The books and the calls keep their types; in particular no call is tried more often
\* than its adapter allows (_handle_http_retry).
THEOREM TypeCorrect == Spec => []TypeOK
<1>1. IInv => TypeOK  BY DEF IInv
<1>2. QED  BY <1>1, Invariance, PTL

\* The budget and the health tracker know of every call what happened to it, once, and
\* no more calls were begun than the limit allows, whatever the cascade counts meanwhile
\* (check_and_reserve, _record_adapter_failure, _record_dispatch_success).
THEOREM BooksTheorem == Spec => []BooksBalance
<1>1. IInv => BooksBalance
  <2> SUFFICES ASSUME IInv PROVE BooksBalance
    OBVIOUS
  <2>1. \A r \in Request : attempt[r] > 0 => reserved[r]
    BY DEF IInv, Calls, CallOK
  <2>2. \A p \in Provider : /\ Having(Held, p) = Cardinality(HeldAt(p))
                            /\ Having(In("answered"), p) = Cardinality(AnsweredAt(p))
    BY DEF Having, HeldAt, AnsweredAt
  <2>3. \A p \in Provider : /\ rows[p] \in Nat /\ others \in Nat
                            /\ Cardinality(HeldAt(p)) \in Nat
                            /\ Cardinality(AnsweredAt(p)) \in Nat
    BY Counts, CallSets, PinnedAssumption DEF IInv, TypeOK
  <2>4. \A n \in Names :
           /\ heard[<<n, "success">>] = Cardinality({r \in In("answered") : ReportedAs(r) = n})
           /\ heard[<<n, "error">>] = Cardinality({r \in In("failed") : order[r].model = n})
    BY DEF IInv, Books, AnsweredAs, FailedAs
  <2>5. QED  BY <2>1, <2>2, <2>3, <2>4 DEF IInv, Books, BooksBalance
<1>2. QED  BY <1>1, Invariance, PTL

\* The pieces of an answer are of one attempt, unless an earlier attempt was cut off in the
\* middle by a time-out (OpenAICompatibleBackend.generate).
THEOREM AttemptTheorem == Spec => []AnswerIsOneAttempt
<1>1. IInv => AnswerIsOneAttempt
  BY DEF IInv, Calls, CallOK, AnswerIsOneAttempt
<1>2. QED  BY <1>1, Invariance, PTL

\* A stream is its tokens and at most one last event, the one that fits its end
\* (_pinned_dispatch_stream).
THEOREM StreamTheorem == Spec => []StreamEndsOnce
<1>1. IInv => StreamEndsOnce
  BY DEF IInv, Calls, StreamOK, StreamEndsOnce
<1>2. QED  BY <1>1, Invariance, PTL

=============================================================================
