------------------------ MODULE CascadeDispatchProofs ------------------------
(***************************************************************************)
(* Proofs about the cascade's way through its backends, for any finite set *)
(* of backends, any calls and any tiers: a call gives up only after all    *)
(* that it might ask, keeps to its fallback policy, accounts for its       *)
(* attempts when no tools are in play, asks nobody who is out, and         *)
(* implements DispatchPromise.                                             *)
(*                                                                         *)
(* The inductive invariant says of each call what its position in the      *)
(* ranking means: what lies before it was asked or was out, what was asked *)
(* does not lie behind it, and the ranking names nobody twice.             *)
(***************************************************************************)
EXTENDS CascadeDispatch, FiniteSetTheorems, SequenceTheorems, TLAPS

Progress(c) ==
    /\ phase[c] = "done" <=> verdict[c] # "none"
    /\ phase[c] \in {"idle", "classifying"} => eligible[c] = <<>> /\ asked[c] = {}
    /\ phase[c] = "asking" => at[c] \in 1 .. Len(eligible[c])

Distinct(list) == \A i, j \in 1 .. Len(list) : list[i] = list[j] => i = j

Behind(c) ==
    phase[c] = "asking" =>
        /\ Asking(c) \in asked[c]
        /\ \A b \in asked[c] : \E i \in 1 .. at[c] : b = eligible[c][i]
        /\ \A i \in 1 .. at[c] - 1 : eligible[c][i] \in asked[c] \cup missed[c]
        /\ gone \cup suspended \subseteq missed[c]

\* What list may name, given the policy and who is first.
Allowed(c, list, first) ==
    \A i \in 1 .. Len(list), p \in first :
        /\ policy[c] = "deny" => list[i] = p
        /\ policy[c] = "same_tier" => Tier[list[i]] = Tier[p]

Exhausted(c) == verdict[c] = "exhausted" => AllTried(c)

Accounted(c) ==
    mode[c] # "tools" =>
        /\ eligible[c] # <<>> => chain[c] = SubSeq(eligible[c], 1, at[c] - 1)
        /\ asked[c] \subseteq told[c] \cup InDoubt(c)

CallInv(c) ==
    /\ Progress(c)
    /\ Distinct(eligible[c])
    /\ \A b \in asked[c] : \E i \in 1 .. Len(eligible[c]) : b = eligible[c][i]
    /\ Behind(c)
    /\ Allowed(c, eligible[c], primary[c])
    /\ Exhausted(c)
    /\ Accounted(c)

IInv == TypeOK /\ \A c \in Calls : CallInv(c)

(* The types, apart: what the loop moves, and the rest.                    *)
MovesOK ==
    /\ phase \in [Calls -> {"idle", "classifying", "asking", "done"}]
    /\ at \in [Calls -> Nat]
    /\ chain \in [Calls -> Seq(Backends)]
    /\ verdict \in [Calls -> Verdicts]
    /\ asked \in [Calls -> SUBSET Backends]

RestOK ==
    /\ gone \subseteq Backends /\ suspended \subseteq Backends
    /\ mode \in [Calls -> Modes] /\ policy \in [Calls -> Policies]
    /\ demanding \subseteq Calls
    /\ candidates \in [Calls -> SUBSET Backends]
    /\ eligible \in [Calls -> Seq(Backends)]
    /\ primary \in [Calls -> SUBSET Backends]
    /\ told \in [Calls -> SUBSET Backends]
    /\ missed \in [Calls -> SUBSET Backends]

(* Nothing the loop moves changes for call d.                              *)
Stays(d) ==
    /\ phase'[d] = phase[d] /\ at'[d] = at[d] /\ chain'[d] = chain[d]
    /\ verdict'[d] = verdict[d] /\ asked'[d] = asked[d]

-----------------------------------------------------------------------------
(* A ranking of some backends is a sequence that names each at most once.  *)
LEMMA Rankings ==
    ASSUME NEW S \in SUBSET Backends, NEW list \in SetToSeqs(S)
    PROVE  /\ list \in Seq(Backends)
           /\ Distinct(list)
           /\ \A i \in 1 .. Len(list) : list[i] \in S
<1>1. IsFiniteSet(S) /\ Cardinality(S) \in Nat
  BY DispatchAssumption, FS_Subset, FS_CardinalityType
<1>2. /\ list \in [1 .. Cardinality(S) -> S]
      /\ \A i, j \in 1 .. Cardinality(S) : i # j => list[i] # list[j]
  BY DEF SetToSeqs
<1>3. list \in Seq(S)
  BY <1>1, <1>2, SeqDef
<1>4. Len(list) = Cardinality(S)
  BY <1>1, <1>2, <1>3, LenProperties
<1>5. list \in Seq(Backends)
  BY <1>3, SeqMonotonic
<1>6. QED  BY <1>2, <1>4, <1>5 DEF Distinct

(* Two adjacent parts of a sequence.                                       *)
LEMMA Parts ==
    ASSUME NEW list \in Seq(Backends),
           NEW m \in 1 .. Len(list) + 1, NEW n \in m .. Len(list) + 1
    PROVE  SubSeq(list, 1, m - 1) \o SubSeq(list, m, n - 1) = SubSeq(list, 1, n - 1)
<1>1. Len(list) \in Nat /\ \A i \in 1 .. Len(list) : list[i] \in Backends
  BY LenProperties, ElementOfSeq
<1>2. /\ SubSeq(list, 1, m - 1) \in Seq(Backends)
      /\ Len(SubSeq(list, 1, m - 1)) = m - 1
      /\ \A i \in 1 .. m - 1 : SubSeq(list, 1, m - 1)[i] = list[i]
  BY <1>1, SubSeqProperties
<1>3. /\ SubSeq(list, m, n - 1) \in Seq(Backends)
      /\ Len(SubSeq(list, m, n - 1)) = n - m
      /\ \A i \in 1 .. n - m : SubSeq(list, m, n - 1)[i] = list[m + i - 1]
  BY <1>1, SubSeqProperties
<1>4. /\ SubSeq(list, 1, n - 1) \in Seq(Backends)
      /\ Len(SubSeq(list, 1, n - 1)) = n - 1
      /\ \A i \in 1 .. n - 1 : SubSeq(list, 1, n - 1)[i] = list[i]
  BY <1>1, SubSeqProperties
<1> DEFINE whole == SubSeq(list, 1, m - 1) \o SubSeq(list, m, n - 1)
<1>5. /\ whole \in Seq(Backends) /\ Len(whole) = n - 1
      /\ \A i \in 1 .. n - 1 : whole[i] =
            IF i <= m - 1 THEN SubSeq(list, 1, m - 1)[i] ELSE SubSeq(list, m, n - 1)[i - (m - 1)]
  BY <1>1, <1>2, <1>3, ConcatProperties
<1>6. ASSUME NEW i \in 1 .. n - 1 PROVE whole[i] = SubSeq(list, 1, n - 1)[i]
  <2>1. CASE i <= m - 1
    BY <1>1, <1>2, <1>4, <1>5, <2>1
  <2>2. CASE i > m - 1
    BY <1>1, <1>3, <1>4, <1>5, <2>2
  <2>3. QED  BY <1>1, <2>1, <2>2
<1> HIDE DEF whole
<1>7. whole = SubSeq(list, 1, n - 1)
  BY <1>1, <1>4, <1>5, <1>6, SeqEqual
<1>8. QED  BY <1>7 DEF whole

(* What lies before the next position.                                     *)
LEMMA OneMore ==
    ASSUME NEW list \in Seq(Backends), NEW n \in 1 .. Len(list)
    PROVE  Append(SubSeq(list, 1, n - 1), list[n]) = SubSeq(list, 1, n)
<1>1. Len(list) \in Nat /\ \A i \in 1 .. Len(list) : list[i] \in Backends
  BY LenProperties, ElementOfSeq
<1>2. SubSeq(list, 1, n - 1) \in Seq(Backends)
  BY <1>1, SubSeqProperties
<1>3. SubSeq(list, 1, n) = SubSeq(list, 1, n - 1) \o <<list[n]>>
  BY <1>1, SubSeqRecursiveSecond
<1>4. QED  BY <1>1, <1>2, <1>3


(* The loop has got call c to position k of list, and no further.          *)
GetsTo(c, list, from, chained, k) ==
    /\ IsTurn(list, from, k)
    /\ at'[c] = k
    /\ chain'[c] = chained \o SubSeq(list, from, k - 1)
    /\ IF k <= Len(list)
       THEN /\ phase'[c] = "asking" /\ verdict'[c] = verdict[c]
            /\ asked'[c] = asked[c] \cup {list[k]}
       ELSE /\ phase'[c] = "done" /\ verdict'[c] = "exhausted"
            /\ asked'[c] = asked[c]

-----------------------------------------------------------------------------
(* The type invariant from its two parts.                                  *)
LEMMA Types ==
    /\ TypeOK => MovesOK /\ RestOK
    /\ MovesOK /\ RestOK /\ (\A c \in Calls : Progress(c)) => TypeOK
BY DEF TypeOK, MovesOK, RestOK, Progress

(* The loop goes on to position k, and moves nothing of another call.      *)
LEMMA GoOnStep ==
    ASSUME MovesOK, NEW c \in Calls, NEW list \in Seq(Backends),
           NEW from \in 1 .. Len(list) + 1, NEW chained \in Seq(Backends),
           GoOn(c, list, from, chained)
    PROVE  /\ MovesOK'
           /\ \A d \in Calls \ {c} : Stays(d)
           /\ \E k \in from .. Len(list) + 1 : GetsTo(c, list, from, chained, k)
<1>1. PICK k \in from .. Len(list) + 1 :
        /\ IsTurn(list, from, k)
        /\ at' = [at EXCEPT ![c] = k]
        /\ chain' = [chain EXCEPT ![c] = chained \o SubSeq(list, from, k - 1)]
        /\ IF k <= Len(list)
           THEN /\ phase' = [phase EXCEPT ![c] = "asking"]
                /\ asked' = [asked EXCEPT ![c] = @ \cup {list[k]}]
                /\ UNCHANGED verdict
           ELSE Close(c, "exhausted") /\ UNCHANGED asked
  BY DEF GoOn
<1>2. Len(list) \in Nat /\ \A i \in 1 .. Len(list) : list[i] \in Backends
  BY LenProperties, ElementOfSeq
<1>3. k \in Nat /\ from \in Nat /\ k <= Len(list) + 1 /\ 1 <= k
  BY <1>2
<1>4. SubSeq(list, from, k - 1) \in Seq(Backends)
  BY <1>2, <1>3, SubSeqProperties
<1>5. chained \o SubSeq(list, from, k - 1) \in Seq(Backends)
  BY <1>4, ConcatProperties
<1>6. at' \in [Calls -> Nat] /\ at'[c] = k
  BY <1>1, <1>3 DEF MovesOK
<1>7. /\ chain' \in [Calls -> Seq(Backends)]
      /\ chain'[c] = chained \o SubSeq(list, from, k - 1)
  BY <1>1, <1>5 DEF MovesOK
<1>8. CASE k <= Len(list)
  <2>1. /\ phase' = [phase EXCEPT ![c] = "asking"]
        /\ asked' = [asked EXCEPT ![c] = @ \cup {list[k]}]
        /\ verdict' = verdict
        /\ list[k] \in Backends
    BY <1>1, <1>2, <1>3, <1>8
  <2>2. MovesOK'  BY <1>6, <1>7, <2>1 DEF MovesOK
  <2>3. \A d \in Calls \ {c} : Stays(d)  BY <1>1, <2>1 DEF MovesOK, Stays
  <2>4. /\ phase'[c] = "asking" /\ verdict'[c] = verdict[c]
        /\ asked'[c] = asked[c] \cup {list[k]}
    BY <2>1 DEF MovesOK
  <2>5. QED  BY <1>1, <1>6, <1>7, <1>8, <2>2, <2>3, <2>4 DEF GetsTo
<1>9. CASE ~ (k <= Len(list))
  <2>1. /\ phase' = [phase EXCEPT ![c] = "done"]
        /\ verdict' = [verdict EXCEPT ![c] = "exhausted"]
        /\ asked' = asked
    BY <1>1, <1>9 DEF Close
  <2>2. MovesOK'  BY <1>6, <1>7, <2>1 DEF MovesOK, Verdicts
  <2>3. \A d \in Calls \ {c} : Stays(d)  BY <1>1, <2>1 DEF MovesOK, Stays
  <2>4. phase'[c] = "done" /\ verdict'[c] = "exhausted" /\ asked'[c] = asked[c]
    BY <2>1 DEF MovesOK
  <2>5. QED  BY <1>1, <1>6, <1>7, <1>9, <2>2, <2>3, <2>4 DEF GetsTo
<1>10. QED  BY <1>8, <1>9

(* Wherever the loop goes on from, the call keeps its invariant.           *)
LEMMA GoOnInv ==
    ASSUME MovesOK, NEW c \in Calls, NEW list \in Seq(Backends),
           NEW from \in 1 .. Len(list) + 1, NEW chained \in Seq(Backends),
           GoOn(c, list, from, chained),
           verdict[c] = "none", UNCHANGED <<mode, policy>>,
           eligible'[c] = list, Distinct(list), Allowed(c, list, primary'[c]),
           \A b \in asked[c] : \E i \in 1 .. from - 1 : b = list[i],
           \A i \in 1 .. from - 1 : list[i] \in asked[c] \cup missed'[c],
           gone' \cup suspended' \subseteq missed'[c],
           mode[c] # "tools" =>
              chained = SubSeq(list, 1, from - 1) /\ asked[c] \subseteq told'[c]
    PROVE  CallInv(c)'
<1>0. PICK k \in from .. Len(list) + 1 : GetsTo(c, list, from, chained, k)
  BY GoOnStep
<1>1. /\ IsTurn(list, from, k)
      /\ at'[c] = k
      /\ chain'[c] = chained \o SubSeq(list, from, k - 1)
      /\ IF k <= Len(list)
         THEN /\ phase'[c] = "asking" /\ verdict'[c] = verdict[c]
              /\ asked'[c] = asked[c] \cup {list[k]}
         ELSE /\ phase'[c] = "done" /\ verdict'[c] = "exhausted"
              /\ asked'[c] = asked[c]
  BY <1>0 DEF GetsTo
<1>2. Len(list) \in Nat /\ k \in Nat /\ from \in Nat /\ 1 <= from /\ from <= k /\ k <= Len(list) + 1
  BY LenProperties
<1>3. \A i \in 1 .. k - 1 : list[i] \in asked[c] \cup missed'[c]
  BY <1>1, <1>2 DEF IsTurn
<1>4. mode[c] # "tools" => chain'[c] = SubSeq(list, 1, k - 1)
  BY <1>1, Parts
<1>5. Allowed(c, list, primary[c])'
  BY DEF Allowed
<1>6. CASE k <= Len(list)
  <2>1. /\ phase'[c] = "asking" /\ verdict'[c] = "none"
        /\ asked'[c] = asked[c] \cup {list[k]}
    BY <1>1, <1>6
  <2>2. Asking(c)' = list[k]
    BY <1>1 DEF Asking
  <2>3. Progress(c)'  BY <1>1, <1>2, <1>6, <2>1 DEF Progress
  <2>4. \A b \in asked'[c] : \E i \in 1 .. k : b = list[i]
    <3>1. TAKE b \in asked'[c]
    <3>2. CASE b = list[k]  BY <1>2, <3>2
    <3>3. CASE b \in asked[c]
      <4>1. PICK i \in 1 .. from - 1 : b = list[i]
        BY <3>3
      <4>2. i \in 1 .. k  BY <1>2
      <4>3. QED  BY <4>1, <4>2
    <3>4. QED  BY <2>1, <3>2, <3>3
  <2>5. \A b \in asked'[c] : \E i \in 1 .. Len(list) : b = list[i]
    <3>1. \A i \in 1 .. k : i \in 1 .. Len(list)  BY <1>2, <1>6
    <3>2. QED  BY <2>4, <3>1
  <2>6. Behind(c)'
    BY <1>1, <1>3, <2>1, <2>2, <2>4 DEF Behind
  <2>7. Exhausted(c)'  BY <2>1 DEF Exhausted, AllTried
  <2>8. Accounted(c)'
    <3>1. k \in {k} \cap DOMAIN list
      BY <1>2, <1>6, LenProperties
    <3>2. list[k] \in Latest(c)'
      BY <1>1, <3>1 DEF Latest
    <3>3. asked'[c] \subseteq asked[c] \cup InDoubt(c)'
      BY <2>1, <3>2 DEF InDoubt
    <3>4. QED  BY <1>1, <1>4, <3>3 DEF Accounted
  <2>9. QED  BY <1>5, <2>3, <2>5, <2>6, <2>7, <2>8 DEF CallInv, Allowed
<1>7. CASE ~ (k <= Len(list))
  <2>1. /\ phase'[c] = "done" /\ verdict'[c] = "exhausted" /\ asked'[c] = asked[c]
    BY <1>1, <1>7
  <2>2. k = Len(list) + 1  BY <1>2, <1>7
  <2>3. Progress(c)' /\ Behind(c)'  BY <2>1 DEF Progress, Behind
  <2>4. \A b \in asked'[c] : \E i \in 1 .. Len(list) : b = list[i]
    <3>1. \A i \in 1 .. from - 1 : i \in 1 .. Len(list)  BY <1>2
    <3>2. QED  BY <2>1, <3>1
  <2>5. Exhausted(c)'
    <3>1. \A i \in 1 .. Len(list) : list[i] \in asked[c] \cup missed'[c]
      BY <1>2, <1>3, <2>2
    <3>2. QED  BY <2>1, <3>1 DEF Exhausted, AllTried
  <2>6. Accounted(c)'
    BY <1>1, <1>4, <2>1 DEF Accounted
  <2>7. QED  BY <1>5, <2>3, <2>4, <2>5, <2>6 DEF CallInv, Allowed
<1>8. QED  BY <1>6, <1>7

(* A call of which nothing changes but that more may have been missed.     *)
LEMMA Bystander ==
    ASSUME NEW d \in Calls, CallInv(d), Stays(d),
           UNCHANGED <<mode, policy>>,
           eligible'[d] = eligible[d], primary'[d] = primary[d], told'[d] = told[d],
           missed[d] \subseteq missed'[d],
           phase[d] = "asking" => gone' \cup suspended' \subseteq missed'[d]
    PROVE  CallInv(d)'
<1>1. Asking(d)' = Asking(d)  BY DEF Asking, Stays
<1>2. Progress(d)'  BY DEF CallInv, Progress, Stays
<1>3. Behind(d)'  BY <1>1 DEF CallInv, Behind, Stays
<1>4. Allowed(d, eligible[d], primary[d])'  BY DEF CallInv, Allowed
<1>5. Exhausted(d)'  BY DEF CallInv, Exhausted, AllTried, Stays
<1>6. Accounted(d)'
  <2>1. InDoubt(d)' = InDoubt(d)  BY DEF InDoubt, Latest, Stays
  <2>2. QED  BY <2>1 DEF CallInv, Accounted, Stays
<1>7. Distinct(eligible[d])'  BY DEF CallInv, Distinct
<1>8. (\A b \in asked[d] : \E i \in 1 .. Len(eligible[d]) : b = eligible[d][i])'
  BY DEF CallInv, Stays
<1>9. QED  BY <1>2, <1>3, <1>4, <1>5, <1>6, <1>7, <1>8 DEF CallInv

-----------------------------------------------------------------------------
(* The invariant after a step, from its parts.                             *)
LEMMA Whole ==
    ASSUME MovesOK', RestOK', \A d \in Calls : CallInv(d)'
    PROVE  IInv'
<1>1. \A d \in Calls : Progress(d)'  BY DEF CallInv
<1>2. TypeOK'
  BY <1>1 DEF TypeOK, MovesOK, RestOK, Progress
<1>3. QED  BY <1>2 DEF IInv

(* A call whose attempt has ended, and which the step leaves in its loop.  *)
LEMMA Continues ==
    ASSUME IInv, NEW c \in Calls, phase[c] = "asking",
           NEW chained \in Seq(Backends), GoOnAfter(c, chained),
           UNCHANGED <<mode, policy, eligible, primary>>,
           told[c] \subseteq told'[c], missed[c] \subseteq missed'[c],
           gone' \cup suspended' \subseteq missed'[c],
           mode[c] # "tools" =>
              chained = Append(chain[c], Asking(c)) /\ Asking(c) \in told'[c]
    PROVE  MovesOK' /\ CallInv(c)' /\ \A d \in Calls \ {c} : Stays(d)
<1> DEFINE list == eligible[c]
<1>1. MovesOK /\ RestOK /\ CallInv(c)
  BY Types DEF IInv
<1>2. list \in Seq(Backends) /\ Len(list) \in Nat
  BY <1>1, LenProperties DEF RestOK
<1>3. at[c] \in 1 .. Len(list)
  BY <1>1 DEF CallInv, Progress
<1>4. at[c] + 1 \in 1 .. Len(list) + 1 /\ (at[c] + 1) - 1 = at[c]
  BY <1>2, <1>3
<1>5. verdict[c] = "none"
  BY <1>1 DEF CallInv, Progress
<1>6. Asking(c) = list[at[c]]  BY DEF Asking
<1>7. GoOn(c, list, at[c] + 1, chained)  BY DEF GoOnAfter
<1>8. eligible'[c] = list /\ Distinct(list) /\ Allowed(c, list, primary'[c])
  BY <1>1 DEF CallInv
<1>9. \A b \in asked[c] : \E i \in 1 .. at[c] : b = list[i]
  BY <1>1 DEF CallInv, Behind
<1>10. \A i \in 1 .. at[c] : list[i] \in asked[c] \cup missed'[c]
  <2>1. ASSUME NEW i \in 1 .. at[c] PROVE list[i] \in asked[c] \cup missed'[c]
    <3>1. CASE i = at[c]
      BY <1>1, <1>6, <3>1 DEF CallInv, Behind
    <3>2. CASE i # at[c]
      <4>1. i \in 1 .. at[c] - 1  BY <1>2, <1>3, <3>2
      <4>2. list[i] \in asked[c] \cup missed[c]  BY <1>1, <4>1 DEF CallInv, Behind
      <4>3. QED  BY <4>2
    <3>3. QED  BY <3>1, <3>2
  <2>2. QED  BY <2>1
<1>11. ASSUME mode[c] # "tools"
       PROVE  chained = SubSeq(list, 1, at[c]) /\ asked[c] \subseteq told'[c]
  <2>1. list # <<>>
    BY <1>2, <1>3
  <2>2. chain[c] = SubSeq(list, 1, at[c] - 1) /\ asked[c] \subseteq told[c] \cup {Asking(c)}
    <3>1. InDoubt(c) \subseteq {Asking(c)}
      BY <1>5 DEF InDoubt, Latest, Asking
    <3>2. QED  BY <1>1, <1>11, <2>1, <3>1 DEF CallInv, Accounted
  <2>3. Append(SubSeq(list, 1, at[c] - 1), list[at[c]]) = SubSeq(list, 1, at[c])
    BY <1>2, <1>3, OneMore
  <2>4. QED  BY <1>6, <1>11, <2>2, <2>3
<1> HIDE DEF list
<1>12. CallInv(c)'
  <2>1. PICK from \in 1 .. Len(list) + 1 : from = at[c] + 1 /\ from - 1 = at[c]
    BY <1>4
  <2>2. GoOn(c, list, from, chained)  BY <1>7, <2>1
  <2>3. /\ \A b \in asked[c] : \E i \in 1 .. from - 1 : b = list[i]
        /\ \A i \in 1 .. from - 1 : list[i] \in asked[c] \cup missed'[c]
        /\ mode[c] # "tools" =>
              chained = SubSeq(list, 1, from - 1) /\ asked[c] \subseteq told'[c]
    BY <1>9, <1>10, <1>11, <2>1
  <2>4. UNCHANGED <<mode, policy>>  OBVIOUS
  <2>5. QED  BY <1>1, <1>2, <1>5, <1>8, <2>2, <2>3, <2>4, GoOnInv
<1>13. MovesOK' /\ \A d \in Calls \ {c} : Stays(d)
  BY <1>1, <1>2, <1>4, <1>7, GoOnStep
<1>14. QED  BY <1>12, <1>13

(* Each action keeps the invariant.                                        *)
LEMMA FailKeeps ==
    ASSUME IInv, NEW c \in Calls, Fail(c)
    PROVE  IInv'
<1>1. MovesOK /\ RestOK /\ \A d \in Calls : CallInv(d)
  BY Types DEF IInv
<1>2. /\ phase[c] = "asking"
      /\ Tell(c) /\ GoOnAfter(c, Append(chain[c], Asking(c)))
      /\ missed' = Noted
      /\ UNCHANGED <<mode, policy, demanding, candidates, eligible, primary>>
  BY DEF Fail, orders
<1>3. Asking(c) \in Backends
  <2>1. at[c] \in 1 .. Len(eligible[c])  BY <1>1, <1>2 DEF CallInv, Progress
  <2>2. QED  BY <1>1, <2>1, ElementOfSeq DEF RestOK, Asking
<1>4. Append(chain[c], Asking(c)) \in Seq(Backends)
  BY <1>1, <1>3 DEF MovesOK
<1>5. gone' \subseteq Backends /\ suspended' \subseteq Backends
  BY <1>1, <1>3 DEF Fail, RestOK, health, Health!Fail, Health!Retire, Health!Suspend, Health!Siblings
<1>6. told' \in [Calls -> SUBSET Backends] /\ told'[c] = told[c] \cup {Asking(c)}
      /\ \A d \in Calls \ {c} : told'[d] = told[d]
  BY <1>1, <1>2, <1>3 DEF Tell, RestOK
<1>7. missed' \in [Calls -> SUBSET Backends]
      /\ \A d \in Calls : /\ missed[d] \subseteq missed'[d]
                          /\ phase[d] = "asking" => gone' \cup suspended' \subseteq missed'[d]
  BY <1>1, <1>2, <1>5 DEF Noted, Ranked, RestOK
<1>8. RestOK'
  BY <1>1, <1>2, <1>5, <1>6, <1>7 DEF RestOK
<1>9. MovesOK' /\ CallInv(c)' /\ \A d \in Calls \ {c} : Stays(d)
  BY <1>2, <1>4, <1>6, <1>7, Continues
<1>10. ASSUME NEW d \in Calls, d # c PROVE CallInv(d)'
  BY <1>1, <1>2, <1>6, <1>7, <1>9, <1>10, Bystander
<1>11. QED  BY <1>8, <1>9, <1>10, Whole

LEMMA AnswerShortKeeps ==
    ASSUME IInv, NEW c \in Calls, AnswerShort(c)
    PROVE  IInv'
<1>1. MovesOK /\ RestOK /\ \A d \in Calls : CallInv(d)
  BY Types DEF IInv
<1>2. /\ phase[c] = "asking"
      /\ Tell(c) /\ GoOnAfter(c, Append(chain[c], Asking(c)))
      /\ UNCHANGED <<gone, suspended, mode, policy, demanding, candidates, eligible, primary, missed>>
  BY DEF AnswerShort, orders, health
<1>3. Asking(c) \in Backends
  <2>1. at[c] \in 1 .. Len(eligible[c])  BY <1>1, <1>2 DEF CallInv, Progress
  <2>2. QED  BY <1>1, <2>1, ElementOfSeq DEF RestOK, Asking
<1>4. Append(chain[c], Asking(c)) \in Seq(Backends)
  BY <1>1, <1>3 DEF MovesOK
<1>5. told' \in [Calls -> SUBSET Backends] /\ told'[c] = told[c] \cup {Asking(c)}
      /\ \A d \in Calls \ {c} : told'[d] = told[d]
  BY <1>1, <1>2, <1>3 DEF Tell, RestOK
<1>6. \A d \in Calls : phase[d] = "asking" => gone' \cup suspended' \subseteq missed'[d]
  BY <1>1, <1>2 DEF CallInv, Behind
<1>7. RestOK'
  BY <1>1, <1>2, <1>5 DEF RestOK
<1>8. MovesOK' /\ CallInv(c)' /\ \A d \in Calls \ {c} : Stays(d)
  BY <1>2, <1>4, <1>5, <1>6, Continues
<1>9. ASSUME NEW d \in Calls, d # c PROVE CallInv(d)'
  BY <1>1, <1>2, <1>5, <1>6, <1>8, <1>9, Bystander
<1>10. QED  BY <1>7, <1>8, <1>9, Whole

LEMMA AnswerWithoutToolsKeeps ==
    ASSUME IInv, NEW c \in Calls, AnswerWithoutTools(c)
    PROVE  IInv'
<1>1. MovesOK /\ RestOK /\ \A d \in Calls : CallInv(d)
  BY Types DEF IInv
<1>2. /\ phase[c] = "asking" /\ mode[c] = "tools"
      /\ GoOnAfter(c, chain[c])
      /\ UNCHANGED <<gone, suspended, mode, policy, demanding, candidates, eligible, primary,
                     told, missed>>
  BY DEF AnswerWithoutTools, orders, health
<1>3. chain[c] \in Seq(Backends)
  BY <1>1 DEF MovesOK
<1>4. \A d \in Calls : phase[d] = "asking" => gone' \cup suspended' \subseteq missed'[d]
  BY <1>1, <1>2 DEF CallInv, Behind
<1>5. RestOK'
  BY <1>1, <1>2 DEF RestOK
<1>6. MovesOK' /\ CallInv(c)' /\ \A d \in Calls \ {c} : Stays(d)
  BY <1>2, <1>3, <1>4, Continues
<1>7. ASSUME NEW d \in Calls, d # c PROVE CallInv(d)'
  BY <1>1, <1>2, <1>4, <1>6, <1>7, Bystander
<1>8. QED  BY <1>5, <1>6, <1>7, Whole

(* A call that ends outside the loop.                                      *)
LEMMA Ends ==
    ASSUME IInv, NEW c \in Calls, NEW reason \in Verdicts \ {"none", "exhausted"},
           Close(c, reason), phase[c] # "done",
           UNCHANGED <<mode, policy, eligible, primary, at, chain, asked>>,
           told[c] \subseteq told'[c],
           reason = "rejected" => phase[c] \in {"idle", "classifying"},
           reason = "answered" => phase[c] = "asking" /\ Asking(c) \in told'[c]
    PROVE  MovesOK' /\ CallInv(c)' /\ \A d \in Calls \ {c} : Stays(d)
<1>1. MovesOK /\ CallInv(c)
  BY Types DEF IInv
<1>2. /\ phase' = [phase EXCEPT ![c] = "done"]
      /\ verdict' = [verdict EXCEPT ![c] = reason]
  BY DEF Close
<1>3. phase'[c] = "done" /\ verdict'[c] = reason /\ reason # "none" /\ reason # "exhausted"
  BY <1>1, <1>2 DEF MovesOK
<1>4. MovesOK'
  BY <1>1, <1>2 DEF MovesOK, Verdicts
<1>5. \A d \in Calls \ {c} : Stays(d)
  BY <1>1, <1>2 DEF MovesOK, Stays
<1>6. Progress(c)' /\ Behind(c)' /\ Exhausted(c)'
  BY <1>3 DEF Progress, Behind, Exhausted
<1>7. Accounted(c)'
  <2>1. SUFFICES ASSUME mode[c] # "tools"
                 PROVE  /\ eligible[c] # <<>> => chain[c] = SubSeq(eligible[c], 1, at[c] - 1)
                        /\ asked[c] \subseteq told'[c] \cup InDoubt(c)'
    BY DEF Accounted
  <2>2. /\ eligible[c] # <<>> => chain[c] = SubSeq(eligible[c], 1, at[c] - 1)
        /\ asked[c] \subseteq told[c] \cup InDoubt(c)
    BY <1>1, <2>1 DEF CallInv, Accounted
  <2>3. CASE reason = "answered"
    <3>1. InDoubt(c) \subseteq {Asking(c)}
      BY <1>1, <2>3 DEF InDoubt, Latest, Asking, CallInv, Progress
    <3>2. QED  BY <2>2, <2>3, <3>1
  <2>4. CASE reason = "rejected"
    BY <1>1, <2>2, <2>4 DEF CallInv, Progress
  <2>5. CASE reason \in {"cancelled", "raised"}
    <3>1. InDoubt(c) \subseteq Latest(c) /\ InDoubt(c)' = Latest(c)
      BY <1>3, <2>5 DEF InDoubt, Latest
    <3>2. QED  BY <2>2, <3>1
  <2>6. QED  BY <2>3, <2>4, <2>5 DEF Verdicts
<1>8. /\ Distinct(eligible[c])'
      /\ (\A b \in asked[c] : \E i \in 1 .. Len(eligible[c]) : b = eligible[c][i])'
      /\ Allowed(c, eligible[c], primary[c])'
  BY <1>1 DEF CallInv, Distinct, Allowed
<1>9. QED  BY <1>4, <1>5, <1>6, <1>7, <1>8 DEF CallInv

LEMMA AnswerKeeps ==
    ASSUME IInv, NEW c \in Calls, Answer(c)
    PROVE  IInv'
<1>1. RestOK /\ \A d \in Calls : CallInv(d)
  BY Types DEF IInv
<1>2. /\ phase[c] = "asking" /\ Tell(c) /\ Close(c, "answered")
      /\ UNCHANGED <<gone, suspended, mode, policy, demanding, candidates, eligible, primary,
                     at, chain, asked, missed>>
  BY DEF Answer, orders, health
<1>3. Asking(c) \in Backends
  <2>1. at[c] \in 1 .. Len(eligible[c])  BY <1>1, <1>2 DEF CallInv, Progress
  <2>2. QED  BY <1>1, <2>1, ElementOfSeq DEF RestOK, Asking
<1>4. told' \in [Calls -> SUBSET Backends] /\ told'[c] = told[c] \cup {Asking(c)}
      /\ \A d \in Calls \ {c} : told'[d] = told[d]
  BY <1>1, <1>2, <1>3 DEF Tell, RestOK
<1>5. RestOK'
  BY <1>1, <1>2, <1>4 DEF RestOK
<1>6. MovesOK' /\ CallInv(c)' /\ \A d \in Calls \ {c} : Stays(d)
  <2>1. "answered" \in Verdicts \ {"none", "exhausted"}  BY DEF Verdicts
  <2>2. QED  BY <1>2, <1>4, <2>1, Ends
<1>7. \A d \in Calls : phase[d] = "asking" => gone' \cup suspended' \subseteq missed'[d]
  BY <1>1, <1>2 DEF CallInv, Behind
<1>8. ASSUME NEW d \in Calls, d # c PROVE CallInv(d)'
  BY <1>1, <1>2, <1>4, <1>6, <1>7, <1>8, Bystander
<1>9. QED  BY <1>5, <1>6, <1>8, Whole

LEMMA AbortKeeps ==
    ASSUME IInv, NEW c \in Calls,
           NEW reason \in {"cancelled", "raised"}, Abort(c, reason)
    PROVE  IInv'
<1>1. RestOK /\ \A d \in Calls : CallInv(d)
  BY Types DEF IInv
<1>2. /\ phase[c] # "done" /\ Close(c, reason)
      /\ candidates' = [candidates EXCEPT ![c] = {}]
      /\ UNCHANGED <<gone, suspended, mode, policy, demanding, eligible, primary,
                     at, chain, asked, told, missed>>
  BY DEF Abort, orders, health, history
<1>3. RestOK'
  BY <1>1, <1>2 DEF RestOK
<1>4. MovesOK' /\ CallInv(c)' /\ \A d \in Calls \ {c} : Stays(d)
  <2>1. reason \in Verdicts \ {"none", "exhausted"}
    BY DEF Verdicts
  <2>2. QED  BY <1>2, <2>1, Ends
<1>5. \A d \in Calls : phase[d] = "asking" => gone' \cup suspended' \subseteq missed'[d]
  BY <1>1, <1>2 DEF CallInv, Behind
<1>6. ASSUME NEW d \in Calls, d # c PROVE CallInv(d)'
  BY <1>1, <1>2, <1>4, <1>5, <1>6, Bystander
<1>7. QED  BY <1>3, <1>4, <1>6, Whole

LEMMA SubmitKeeps ==
    ASSUME IInv, NEW c \in Calls, Submit(c)
    PROVE  IInv'
<1>1. MovesOK /\ RestOK /\ \A d \in Calls : CallInv(d)
  BY Types DEF IInv
<1>2. PICK fit \in SUBSET Backends :
          IF fit \ Out = {}
          THEN Close(c, "rejected") /\ UNCHANGED candidates
          ELSE /\ candidates' = [candidates EXCEPT ![c] = fit \ Out]
               /\ phase' = [phase EXCEPT ![c] = "classifying"]
               /\ UNCHANGED verdict
  BY DEF Submit
<1>3. /\ phase[c] = "idle"
      /\ UNCHANGED <<gone, suspended, mode, policy, demanding, eligible, primary,
                     at, chain, asked, told, missed>>
  BY DEF Submit, orders, health, history
<1>4. RestOK'
  <2>1. candidates' \in [Calls -> SUBSET Backends]
    BY <1>1, <1>2 DEF RestOK
  <2>2. QED  BY <1>1, <1>3, <2>1 DEF RestOK
<1>5. MovesOK' /\ CallInv(c)' /\ \A d \in Calls \ {c} : Stays(d)
  <2>1. CASE fit \ Out = {}
    <3>1. "rejected" \in Verdicts \ {"none", "exhausted"}  BY DEF Verdicts
    <3>2. QED  BY <1>2, <1>3, <2>1, <3>1, Ends
  <2>2. CASE fit \ Out # {}
    <3>1. phase' = [phase EXCEPT ![c] = "classifying"] /\ verdict' = verdict
      BY <1>2, <2>2
    <3>2. MovesOK'  BY <1>1, <1>3, <3>1 DEF MovesOK
    <3>3. \A d \in Calls \ {c} : Stays(d)  BY <1>1, <1>3, <3>1 DEF MovesOK, Stays
    <3>4. phase'[c] = "classifying"  BY <1>1, <3>1 DEF MovesOK
    <3>5. Progress(c)' /\ Behind(c)' /\ Exhausted(c)'
      BY <1>1, <1>3, <3>1, <3>4 DEF CallInv, Progress, Behind, Exhausted
    <3>6. Accounted(c)'
      BY <1>1, <1>3, <3>4 DEF CallInv, Progress, Accounted
    <3>7. /\ Distinct(eligible[c])'
          /\ (\A b \in asked[c] : \E i \in 1 .. Len(eligible[c]) : b = eligible[c][i])'
          /\ Allowed(c, eligible[c], primary[c])'
      BY <1>1, <1>3 DEF CallInv, Distinct, Allowed
    <3>8. QED  BY <3>2, <3>3, <3>5, <3>6, <3>7 DEF CallInv
  <2>3. QED  BY <2>1, <2>2
<1>6. \A d \in Calls : phase[d] = "asking" => gone' \cup suspended' \subseteq missed'[d]
  BY <1>1, <1>3 DEF CallInv, Behind
<1>7. ASSUME NEW d \in Calls, d # c PROVE CallInv(d)'
  BY <1>1, <1>3, <1>5, <1>6, <1>7, Bystander
<1>8. QED  BY <1>4, <1>5, <1>7, Whole

(* What the ranking gives the loop to start with.                          *)
LEMMA RankedList ==
    ASSUME IInv, NEW c \in Calls, phase[c] = "classifying",
           NEW kept \in SUBSET candidates[c], NEW best \in kept,
           NEW list \in SetToSeqs(Permitted(kept, best, policy[c])),
           UNCHANGED policy
    PROVE  /\ list \in Seq(Backends) /\ Distinct(list)
           /\ best \in Backends
           /\ 1 \in 1 .. Len(list) + 1
           /\ Allowed(c, list, {best})
           /\ asked[c] = {} /\ verdict[c] = "none"
<1>1. RestOK /\ MovesOK /\ Progress(c)
  BY Types DEF IInv, CallInv
<1>2. kept \subseteq Backends
  BY <1>1 DEF RestOK
<1>3. Permitted(kept, best, policy[c]) \in SUBSET Backends
  BY <1>2 DEF Permitted
<1>4. /\ list \in Seq(Backends) /\ Distinct(list)
      /\ \A i \in 1 .. Len(list) : list[i] \in Permitted(kept, best, policy[c])
  BY <1>3, Rankings
<1>5. Allowed(c, list, {best})
  BY <1>4 DEF Allowed, Permitted
<1>6. Len(list) \in Nat
  BY <1>4, LenProperties
<1>7. asked[c] = {} /\ verdict[c] = "none"
  BY <1>1 DEF Progress
<1>8. QED  BY <1>2, <1>4, <1>5, <1>6, <1>7

LEMMA RankKeeps ==
    ASSUME IInv, NEW c \in Calls, Rank(c)
    PROVE  IInv'
<1>1. MovesOK /\ RestOK /\ \A d \in Calls : CallInv(d)
  BY Types DEF IInv
<1>2. /\ phase[c] = "classifying"
      /\ UNCHANGED <<gone, suspended, mode, policy, demanding, told>>
      /\ candidates' = [candidates EXCEPT ![c] = {}]
  BY DEF Rank, orders, health
<1>3. candidates' \in [Calls -> SUBSET Backends]
  BY <1>1, <1>2 DEF RestOK
<1>4. \A d \in Calls : phase[d] = "asking" => gone' \cup suspended' \subseteq missed[d]
  BY <1>1, <1>2 DEF CallInv, Behind
<1>5. PICK kept \in SUBSET candidates[c] :
          \/ /\ kept = {}
             /\ Close(c, "rejected")
             /\ UNCHANGED <<eligible, at, chain, primary, asked, missed>>
          \/ \E best \in kept : \E list \in SetToSeqs(Permitted(kept, best, policy[c])) :
                /\ list[1] = best
                /\ eligible' = [eligible EXCEPT ![c] = list]
                /\ primary' = [primary EXCEPT ![c] = {best}]
                /\ missed' = [missed EXCEPT ![c] = Out]
                /\ GoOn(c, list, 1, <<>>)
  BY DEF Rank
<1>6. CASE /\ Close(c, "rejected")
           /\ UNCHANGED <<eligible, at, chain, primary, asked, missed>>
  <2>1. MovesOK' /\ CallInv(c)' /\ \A d \in Calls \ {c} : Stays(d)
    <3>1. "rejected" \in Verdicts \ {"none", "exhausted"}  BY DEF Verdicts
    <3>2. QED  BY <1>2, <1>6, <3>1, Ends
  <2>2. RestOK'  BY <1>1, <1>2, <1>3, <1>6 DEF RestOK
  <2>3. ASSUME NEW d \in Calls, d # c PROVE CallInv(d)'
    BY <1>1, <1>2, <1>4, <1>6, <2>1, <2>3, Bystander
  <2>4. QED  BY <2>1, <2>2, <2>3, Whole
<1>7. ASSUME NEW best \in kept, NEW list \in SetToSeqs(Permitted(kept, best, policy[c])),
             eligible' = [eligible EXCEPT ![c] = list],
             primary' = [primary EXCEPT ![c] = {best}],
             missed' = [missed EXCEPT ![c] = Out],
             GoOn(c, list, 1, <<>>)
      PROVE  IInv'
  <2>1. /\ list \in Seq(Backends) /\ Distinct(list)
        /\ best \in Backends
        /\ 1 \in 1 .. Len(list) + 1
        /\ Allowed(c, list, {best})
        /\ asked[c] = {} /\ verdict[c] = "none"
    BY <1>2, RankedList
  <2>2. eligible' \in [Calls -> Seq(Backends)] /\ eligible'[c] = list
        /\ \A d \in Calls \ {c} : eligible'[d] = eligible[d]
    BY <1>1, <1>7, <2>1 DEF RestOK
  <2>3. primary' \in [Calls -> SUBSET Backends] /\ primary'[c] = {best}
        /\ \A d \in Calls \ {c} : primary'[d] = primary[d]
    BY <1>1, <1>7, <2>1 DEF RestOK
  <2>4. missed' \in [Calls -> SUBSET Backends] /\ missed'[c] = gone' \cup suspended'
        /\ \A d \in Calls \ {c} : missed'[d] = missed[d]
    BY <1>1, <1>2, <1>7 DEF RestOK, Out
  <2>5. RestOK'
    BY <1>1, <1>2, <1>3, <2>2, <2>3, <2>4 DEF RestOK
  <2>6. <<>> \in Seq(Backends)  OBVIOUS
  <2>7. MovesOK' /\ \A d \in Calls \ {c} : Stays(d)
    BY <1>1, <1>7, <2>1, <2>6, GoOnStep
  <2>8. CallInv(c)'
    <3>1. PICK from \in 1 .. Len(list) + 1 : from = 1  BY <2>1
    <3>2. GoOn(c, list, from, <<>>)  BY <1>7, <3>1
    <3>3. SubSeq(list, 1, 0) = <<>>  BY <2>1
    <3>4. /\ \A b \in asked[c] : \E i \in 1 .. from - 1 : b = list[i]
          /\ \A i \in 1 .. from - 1 : list[i] \in asked[c] \cup missed'[c]
          /\ mode[c] # "tools" => <<>> = SubSeq(list, 1, from - 1) /\ asked[c] \subseteq told'[c]
      BY <2>1, <3>1, <3>3
    <3>5. Allowed(c, list, primary'[c])  BY <2>1, <2>3
    <3>6. UNCHANGED <<mode, policy>>  BY <1>2
    <3>7. eligible'[c] = list /\ gone' \cup suspended' \subseteq missed'[c]  BY <2>2, <2>4
    <3>8. QED  BY <1>1, <2>1, <2>6, <3>2, <3>4, <3>5, <3>6, <3>7, GoOnInv
  <2>9. ASSUME NEW d \in Calls, d # c PROVE CallInv(d)'
    BY <1>1, <1>2, <1>4, <2>2, <2>3, <2>4, <2>7, <2>9, Bystander
  <2>10. QED  BY <2>5, <2>7, <2>8, <2>9, Whole
<1>8. QED  BY <1>5, <1>6, <1>7

LEMMA ElsewhereKeeps ==
    ASSUME IInv, Elsewhere
    PROVE  IInv'
<1>1. MovesOK /\ RestOK /\ \A d \in Calls : CallInv(d)
  BY Types DEF IInv
<1>2. /\ missed' = Noted
      /\ UNCHANGED <<phase, mode, policy, demanding, candidates, eligible, at, chain, verdict,
                     primary, asked, told>>
  BY DEF Elsewhere, orders
<1>3. gone' \subseteq Backends /\ suspended' \subseteq Backends
  BY <1>1 DEF Elsewhere, RestOK, Health!Next, Health!Fail, Health!Retire, Health!Suspend,
              Health!Siblings, Health!Recover, Health!Reinstate
<1>4. missed' \in [Calls -> SUBSET Backends]
      /\ \A d \in Calls : /\ missed[d] \subseteq missed'[d]
                          /\ phase[d] = "asking" => gone' \cup suspended' \subseteq missed'[d]
  BY <1>1, <1>2, <1>3 DEF Noted, Ranked, RestOK
<1>5. MovesOK' /\ RestOK'
  BY <1>1, <1>2, <1>3, <1>4 DEF MovesOK, RestOK
<1>6. ASSUME NEW d \in Calls PROVE CallInv(d)'
  <2>1. Stays(d)  BY <1>2 DEF Stays
  <2>2. QED  BY <1>1, <1>2, <1>4, <2>1, Bystander
<1>7. QED  BY <1>5, <1>6, Whole

LEMMA InitIInv == Init => IInv
<1> SUFFICES ASSUME Init PROVE IInv
  OBVIOUS
<1>1. MovesOK  BY DEF Init, MovesOK, Verdicts
<1>2. RestOK  BY DEF Init, Health!Init, RestOK, Modes, Policies
<1>3. ASSUME NEW c \in Calls PROVE CallInv(c)
  BY DEF Init, CallInv, Progress, Distinct, Behind, Allowed, Exhausted, Accounted
<1>4. QED  BY <1>1, <1>2, <1>3, Types DEF IInv, CallInv

LEMMA NextIInv == IInv /\ [Next]_vars => IInv'
<1> SUFFICES ASSUME IInv, [Next]_vars PROVE IInv'
  OBVIOUS
<1>1. CASE \E c \in Calls :
          \/ Submit(c) \/ Rank(c) \/ Cancel(c) \/ Escape(c)
          \/ Fail(c) \/ Answer(c) \/ AnswerShort(c) \/ AnswerWithoutTools(c)
  BY <1>1, SubmitKeeps, RankKeeps, AbortKeeps, FailKeeps, AnswerKeeps, AnswerShortKeeps,
     AnswerWithoutToolsKeeps DEF Cancel, Escape
<1>2. CASE Elsewhere
  BY <1>2, ElsewhereKeeps
<1>3. CASE UNCHANGED vars
  <2>1. UNCHANGED <<gone, suspended, phase, mode, policy, demanding, candidates, eligible, at,
                    chain, verdict, primary, asked, told, missed>>
    BY <1>3 DEF vars, health, orders, history
  <2>2. MovesOK' /\ RestOK'
    BY <2>1, Types DEF IInv, MovesOK, RestOK
  <2>3. ASSUME NEW d \in Calls PROVE CallInv(d)'
    <3>1. CallInv(d) /\ Stays(d)  BY <2>1 DEF IInv, Stays
    <3>2. phase[d] = "asking" => gone' \cup suspended' \subseteq missed'[d]
      BY <2>1, <3>1 DEF CallInv, Behind
    <3>3. QED  BY <2>1, <3>1, <3>2, Bystander
  <2>4. QED  BY <2>2, <2>3, Whole
<1>4. QED  BY <1>1, <1>2, <1>3 DEF Next

(* The inductive invariant holds in every state of every behaviour.        *)
THEOREM Invariance == Spec => []IInv
BY InitIInv, NextIInv, PTL DEF Spec

-----------------------------------------------------------------------------
(* Every variable has its type; the position of a call that asks is one of *)
(* its ranking.                                                            *)
THEOREM TypeCorrect == Spec => []TypeOK
<1>1. IInv => TypeOK  BY DEF IInv
<1>2. QED  BY <1>1, Invariance, PTL

(* A call is exhausted only when each backend it might ask has been asked, *)
(* or has been out at some time since the ranking.                         *)
THEOREM ExhaustionTheorem == Spec => []ExhaustionIsEarned
<1>1. IInv => ExhaustionIsEarned  BY DEF IInv, CallInv, Exhausted, ExhaustionIsEarned
<1>2. QED  BY <1>1, Invariance, PTL

(* Whatever is sent keeps to the fallback policy.                          *)
THEOREM PolicyTheorem == Spec => []PolicyIsHonoured
<1>1. ASSUME IInv, NEW c \in Calls, NEW b \in asked[c], NEW p \in primary[c]
      PROVE  /\ policy[c] = "deny" => b = p
             /\ policy[c] = "same_tier" => Tier[b] = Tier[p]
  <2>1. PICK i \in 1 .. Len(eligible[c]) : b = eligible[c][i]
    BY <1>1 DEF IInv, CallInv
  <2>2. Allowed(c, eligible[c], primary[c])
    BY <1>1 DEF IInv, CallInv
  <2>3. QED  BY <2>1, <2>2 DEF Allowed
<1>2. IInv => PolicyIsHonoured  BY <1>1 DEF PolicyIsHonoured
<1>3. QED  BY <1>2, Invariance, PTL

(* The attempts of calls without tools are accounted for, in the chain and *)
(* with the health tracker: all but the last of a call that goes on, or    *)
(* that its caller or an error the cascade does not name has ended.        *)
THEOREM AccountTheorem == Spec => []TextCallsAreAccounted
<1>1. IInv => TextCallsAreAccounted
  BY DEF IInv, CallInv, Accounted, TextCallsAreAccounted
<1>2. QED  BY <1>1, Invariance, PTL

-----------------------------------------------------------------------------
(* Only the loop sends requests, and it looks first.                       *)
AsksOnlyWhoIsIn ==
    \A c \in Calls : (asked'[c] \ asked[c]) \cap (gone' \cup suspended') = {}

LEMMA LoopLooks ==
    ASSUME MovesOK, NEW c \in Calls, NEW list \in Seq(Backends),
           NEW from \in 1 .. Len(list) + 1, NEW chained \in Seq(Backends),
           GoOn(c, list, from, chained)
    PROVE  AsksOnlyWhoIsIn
<1>1. PICK k \in from .. Len(list) + 1 : GetsTo(c, list, from, chained, k)
  BY GoOnStep
<1>2. \A d \in Calls \ {c} : asked'[d] = asked[d]
  BY GoOnStep DEF Stays
<1>3. CASE k <= Len(list)
  <2>1. asked'[c] = asked[c] \cup {list[k]} /\ list[k] \notin gone' \cup suspended'
    BY <1>1, <1>3 DEF GetsTo, IsTurn
  <2>2. QED  BY <1>2, <2>1 DEF AsksOnlyWhoIsIn
<1>4. CASE ~ (k <= Len(list))
  <2>1. asked'[c] = asked[c]
    BY <1>1, <1>4 DEF GetsTo
  <2>2. QED  BY <1>2, <2>1 DEF AsksOnlyWhoIsIn
<1>5. QED  BY <1>3, <1>4

(* The part of the ranking that an attempt which has ended goes on with.   *)
LEMMA GoesOn ==
    ASSUME IInv, NEW c \in Calls, Fail(c) \/ AnswerShort(c) \/ AnswerWithoutTools(c)
    PROVE  /\ UNCHANGED eligible
           /\ verdict[c] = "none" /\ Distinct(eligible[c])
           /\ \E chained \in Seq(Backends), from \in 1 .. Len(eligible[c]) + 1 :
                /\ GoOn(c, eligible[c], from, chained)
                /\ \A b \in asked[c] : \E i \in 1 .. from - 1 : b = eligible[c][i]
<1>1. MovesOK /\ RestOK /\ CallInv(c)
  BY Types DEF IInv
<1>2. phase[c] = "asking" /\ UNCHANGED eligible
  BY DEF Fail, AnswerShort, AnswerWithoutTools
<1>3. verdict[c] = "none" /\ Distinct(eligible[c]) /\ at[c] \in 1 .. Len(eligible[c])
  BY <1>1, <1>2 DEF CallInv, Progress
<1>4. Asking(c) \in Backends
  BY <1>1, <1>3, ElementOfSeq DEF RestOK, Asking
<1>5. chain[c] \in Seq(Backends) /\ Append(chain[c], Asking(c)) \in Seq(Backends)
  BY <1>1, <1>4 DEF MovesOK
<1>6. PICK chained \in Seq(Backends) : GoOnAfter(c, chained)
  BY <1>5 DEF Fail, AnswerShort, AnswerWithoutTools
<1>7. Len(eligible[c]) \in Nat
  BY <1>1, LenProperties DEF RestOK
<1>8. at[c] + 1 \in 1 .. Len(eligible[c]) + 1 /\ (at[c] + 1) - 1 = at[c]
  BY <1>3, <1>7
<1>9. PICK from \in 1 .. Len(eligible[c]) + 1 : from = at[c] + 1 /\ from - 1 = at[c]
  BY <1>8
<1>10. GoOn(c, eligible[c], from, chained)
  BY <1>6, <1>9 DEF GoOnAfter
<1>11. \A b \in asked[c] : \E i \in 1 .. from - 1 : b = eligible[c][i]
  BY <1>1, <1>2, <1>9 DEF CallInv, Behind
<1>12. QED  BY <1>2, <1>3, <1>10, <1>11

(* The same of the ranking, unless it leaves nobody.                       *)
LEMMA Starts ==
    ASSUME IInv, NEW c \in Calls, Rank(c)
    PROVE  \/ Close(c, "rejected") /\ UNCHANGED <<eligible, at, asked>>
           \/ /\ verdict[c] = "none"
              /\ \A d \in Calls \ {c} : eligible'[d] = eligible[d]
              /\ \E list \in Seq(Backends), chained \in Seq(Backends) :
                 \E from \in 1 .. Len(list) + 1 :
                   /\ eligible'[c] = list /\ Distinct(list)
                   /\ GoOn(c, list, from, chained)
                   /\ \A b \in asked[c] : \E i \in 1 .. from - 1 : b = list[i]
<1>1. MovesOK /\ RestOK
  BY Types DEF IInv
<1>2. phase[c] = "classifying" /\ UNCHANGED policy
  BY DEF Rank, orders
<1>3. PICK kept \in SUBSET candidates[c] :
          \/ /\ kept = {}
             /\ Close(c, "rejected")
             /\ UNCHANGED <<eligible, at, chain, primary, asked, missed>>
          \/ \E best \in kept : \E list \in SetToSeqs(Permitted(kept, best, policy[c])) :
                /\ list[1] = best
                /\ eligible' = [eligible EXCEPT ![c] = list]
                /\ primary' = [primary EXCEPT ![c] = {best}]
                /\ missed' = [missed EXCEPT ![c] = Out]
                /\ GoOn(c, list, 1, <<>>)
  BY DEF Rank
<1>4. CASE Close(c, "rejected") /\ UNCHANGED <<eligible, at, chain, primary, asked, missed>>
  BY <1>4
<1>5. ASSUME NEW best \in kept, NEW list \in SetToSeqs(Permitted(kept, best, policy[c])),
             eligible' = [eligible EXCEPT ![c] = list],
             GoOn(c, list, 1, <<>>)
      PROVE  /\ verdict[c] = "none"
             /\ \A d \in Calls \ {c} : eligible'[d] = eligible[d]
             /\ \E l \in Seq(Backends), chained \in Seq(Backends) :
                \E from \in 1 .. Len(l) + 1 :
                  /\ eligible'[c] = l /\ Distinct(l)
                  /\ GoOn(c, l, from, chained)
                  /\ \A b \in asked[c] : \E i \in 1 .. from - 1 : b = l[i]
  <2>1. /\ list \in Seq(Backends) /\ Distinct(list)
        /\ 1 \in 1 .. Len(list) + 1
        /\ asked[c] = {} /\ verdict[c] = "none"
    BY <1>2, RankedList
  <2>2. eligible'[c] = list /\ \A d \in Calls \ {c} : eligible'[d] = eligible[d]
    BY <1>1, <1>5 DEF RestOK
  <2>3. <<>> \in Seq(Backends)  OBVIOUS
  <2>4. \A b \in asked[c] : \E i \in 1 .. 1 - 1 : b = list[i]  BY <2>1
  <2>5. QED  BY <1>5, <2>1, <2>2, <2>3, <2>4
<1>6. QED  BY <1>3, <1>4, <1>5

LEMMA NextAsks == IInv /\ [Next]_vars => [AsksOnlyWhoIsIn]_vars
<1> SUFFICES ASSUME IInv, [Next]_vars PROVE AsksOnlyWhoIsIn
  OBVIOUS
<1>1. MovesOK
  BY Types DEF IInv
<1>2. ASSUME UNCHANGED asked PROVE AsksOnlyWhoIsIn
  BY <1>2 DEF AsksOnlyWhoIsIn
<1>3. ASSUME NEW c \in Calls, Rank(c) PROVE AsksOnlyWhoIsIn
  BY <1>1, <1>2, <1>3, Starts, LoopLooks
<1>4. ASSUME NEW c \in Calls, Fail(c) \/ AnswerShort(c) \/ AnswerWithoutTools(c)
      PROVE  AsksOnlyWhoIsIn
  <2>1. eligible[c] \in Seq(Backends)  BY Types DEF IInv, RestOK
  <2>2. QED  BY <1>1, <1>4, <2>1, GoesOn, LoopLooks
<1>5. ASSUME NEW c \in Calls, Submit(c) \/ Cancel(c) \/ Escape(c) \/ Answer(c)
      PROVE  AsksOnlyWhoIsIn
  BY <1>2, <1>5 DEF Submit, Cancel, Escape, Abort, Answer, history
<1>6. CASE Elsewhere
  BY <1>2, <1>6 DEF Elsewhere
<1>7. CASE UNCHANGED vars
  BY <1>2, <1>7 DEF vars, history
<1>8. QED  BY <1>3, <1>4, <1>5, <1>6, <1>7 DEF Next

(* No request is sent to a backend that is out by then.                    *)
THEOREM LookTheorem == Spec => NothingAskedWhileOut
<1>1. NothingAskedWhileOut <=> [][AsksOnlyWhoIsIn]_vars
  BY DEF NothingAskedWhileOut, AsksOnlyWhoIsIn
<1>2. QED  BY <1>1, Invariance, NextAsks, PTL DEF Spec

-----------------------------------------------------------------------------
(* The calls and everybody else together keep to AvailabilityPromise: a    *)
(* call puts out nobody but the backend it has asked and its siblings, and *)
(* brings back nobody (_record_adapter_failure, HealthTracker).            *)
THEOREM HealthTheorem == Spec => Health!Spec
<1>1. ASSUME IInv, [Next]_vars PROVE [Health!Next \/ Health!StartAgain]_(Health!vars)
  <2>1. ASSUME NEW c \in Calls, Fail(c) PROVE Health!Next \/ UNCHANGED health
    <3>1. at[c] \in 1 .. Len(eligible[c]) /\ eligible[c] \in Seq(Backends)
      BY <1>1, <2>1, Types DEF IInv, CallInv, Progress, Fail, RestOK
    <3>2. Asking(c) \in Backends
      BY <3>1, ElementOfSeq DEF Asking
    <3> QED  BY <2>1, <3>2 DEF Fail, Health!Next
  <2>2. ASSUME NEW c \in Calls,
               \/ Submit(c) \/ Rank(c) \/ Cancel(c) \/ Escape(c)
               \/ Answer(c) \/ AnswerShort(c) \/ AnswerWithoutTools(c)
        PROVE  UNCHANGED health
    BY <2>2 DEF Submit, Rank, Cancel, Escape, Abort, Answer, AnswerShort, AnswerWithoutTools
  <2>3. CASE Elsewhere
    BY <2>3 DEF Elsewhere
  <2>4. CASE UNCHANGED vars
    BY <2>4 DEF vars, health, Health!vars
  <2> QED  BY <1>1, <2>1, <2>2, <2>3, <2>4 DEF Next, health, Health!vars
<1>2. Init => Health!Init
  BY DEF Init
<1> QED  BY <1>1, <1>2, Invariance, PTL DEF Spec, Health!Spec

-----------------------------------------------------------------------------
(* The refinement: whom a call waits for.                                  *)
Waiting == [c \in Calls |-> IF phase[c] = "asking" THEN {Asking(c)} ELSE {}]

LEMMA WaitingMoves ==
    ASSUME NEW c \in Calls, \A d \in Calls \ {c} : Stays(d) /\ eligible'[d] = eligible[d]
    PROVE  Waiting' = [Waiting EXCEPT ![c] = IF phase'[c] = "asking" THEN {Asking(c)'} ELSE {}]
<1>1. \A d \in Calls \ {c} : Waiting'[d] = Waiting[d]
  BY DEF Waiting, Asking, Stays
<1>2. Waiting'[c] = IF phase'[c] = "asking" THEN {Asking(c)'} ELSE {}
  BY DEF Waiting
<1>3. QED  BY <1>1, <1>2 DEF Waiting

(* A round of the loop is a try of another backend, or the end.            *)
LEMMA LoopRefines ==
    ASSUME MovesOK, NEW c \in Calls, NEW list \in Seq(Backends),
           NEW from \in 1 .. Len(list) + 1, NEW chained \in Seq(Backends),
           GoOn(c, list, from, chained), verdict[c] = "none", Distinct(list),
           \A b \in asked[c] : \E i \in 1 .. from - 1 : b = list[i],
           eligible'[c] = list, \A d \in Calls \ {c} : eligible'[d] = eligible[d]
    PROVE  Promise!Next
<1>1. PICK k \in from .. Len(list) + 1 : GetsTo(c, list, from, chained, k)
  BY GoOnStep
<1>2. MovesOK' /\ \A d \in Calls \ {c} : Stays(d)
  BY GoOnStep
<1>3. Waiting' = [Waiting EXCEPT ![c] = IF phase'[c] = "asking" THEN {Asking(c)'} ELSE {}]
  BY <1>2, WaitingMoves
<1>4. Len(list) \in Nat /\ \A i \in 1 .. Len(list) : list[i] \in Backends
  BY LenProperties, ElementOfSeq
<1>5. CASE k <= Len(list)
  <2>1. /\ phase'[c] = "asking" /\ verdict'[c] = verdict[c]
        /\ asked'[c] = asked[c] \cup {list[k]} /\ at'[c] = k
    BY <1>1, <1>5 DEF GetsTo
  <2>2. k \in 1 .. Len(list) /\ \A i \in 1 .. from - 1 : i \in 1 .. Len(list) /\ i # k
    BY <1>4, <1>5
  <2>3. list[k] \in Backends /\ list[k] \notin asked[c]
    BY <1>4, <2>2 DEF Distinct
  <2>4. Asking(c)' = list[k]
    BY <2>1 DEF Asking
  <2>5. asked' = [asked EXCEPT ![c] = @ \cup {list[k]}]
    BY <1>2, <2>1 DEF MovesOK, Stays
  <2>6. verdict' = verdict
    BY <1>2, <2>1 DEF MovesOK, Stays
  <2>7. Waiting' = [Waiting EXCEPT ![c] = {list[k]}]
    BY <1>3, <2>1, <2>4
  <2>8. Promise!Try(c, list[k])
    BY <2>3, <2>5, <2>6, <2>7 DEF Promise!Try, Promise!Open, Waiting
  <2>9. QED  BY <2>3, <2>8 DEF Promise!Next
<1>6. CASE ~ (k <= Len(list))
  <2>1. /\ phase'[c] = "done" /\ verdict'[c] = "exhausted" /\ asked'[c] = asked[c]
    BY <1>1, <1>6 DEF GetsTo
  <2>2. asked' = asked /\ verdict' = [verdict EXCEPT ![c] = "exhausted"]
    BY <1>2, <2>1 DEF MovesOK, Stays
  <2>3. Waiting' = [Waiting EXCEPT ![c] = {}]
    BY <1>3, <2>1
  <2>4. Promise!End(c, "exhausted")
    BY <2>2, <2>3 DEF Promise!End, Promise!Open, Waiting
  <2>5. QED  BY <2>4 DEF Promise!Next, Promise!GiveUp
<1>7. QED  BY <1>5, <1>6

(* So is the end of a call outside the loop.                               *)
LEMMA CloseRefines ==
    ASSUME MovesOK, NEW c \in Calls, NEW reason \in Verdicts \ {"none", "exhausted"},
           Close(c, reason), UNCHANGED <<asked>>, verdict[c] = "none",
           reason = "answered" => phase[c] = "asking",
           \A d \in Calls \ {c} : eligible'[d] = eligible[d] /\ at'[d] = at[d]
    PROVE  Promise!Next
<1>1. /\ phase' = [phase EXCEPT ![c] = "done"]
      /\ verdict' = [verdict EXCEPT ![c] = reason]
  BY DEF Close
<1>2. \A d \in Calls \ {c} : Waiting'[d] = Waiting[d]
  BY <1>1 DEF Waiting, Asking, MovesOK
<1>3. Waiting'[c] = {}
  BY <1>1 DEF Waiting, MovesOK
<1>4. Waiting' = [Waiting EXCEPT ![c] = {}]
  BY <1>2, <1>3 DEF Waiting
<1>5. Promise!End(c, reason)
  BY <1>1, <1>4 DEF Promise!End, Promise!Open, Waiting
<1>6. CASE reason = "answered"
  <2>1. Waiting[c] # {}  BY <1>6 DEF Waiting
  <2>2. Promise!Answer(c)
    BY <1>5, <1>6, <2>1 DEF Promise!Answer, Waiting
  <2>3. QED  BY <2>2 DEF Promise!Next
<1>7. CASE reason # "answered"
  <2>1. Promise!GiveUp(c)  BY <1>5, <1>7 DEF Promise!GiveUp, Verdicts
  <2>2. QED  BY <2>1 DEF Promise!Next
<1>8. QED  BY <1>6, <1>7

LEMMA NextRefines == IInv /\ [Next]_vars => [Promise!Next]_(Promise!vars)
<1> SUFFICES ASSUME IInv, [Next]_vars PROVE Promise!Next \/ UNCHANGED Promise!vars
  OBVIOUS
<1>0. {"answered", "rejected", "cancelled", "raised"} = Verdicts \ {"none", "exhausted"}
  BY DEF Verdicts
<1>1. MovesOK /\ RestOK /\ \A c \in Calls : Progress(c)
  BY Types DEF IInv, CallInv
<1>2. ASSUME UNCHANGED <<asked, verdict, phase, at, eligible>> PROVE UNCHANGED Promise!vars
  BY <1>2 DEF Promise!vars, Asking
<1>3. ASSUME NEW c \in Calls, Rank(c) PROVE Promise!Next
  <2>1. verdict[c] = "none"  BY <1>1, <1>3 DEF Rank, Progress
  <2>2. CASE Close(c, "rejected") /\ UNCHANGED <<eligible, at, asked>>
    BY <1>0, <1>1, <2>1, <2>2, CloseRefines
  <2>3. CASE ~ (Close(c, "rejected") /\ UNCHANGED <<eligible, at, asked>>)
    BY <1>1, <1>3, <2>3, Starts, LoopRefines
  <2>4. QED  BY <2>2, <2>3
<1>4. ASSUME NEW c \in Calls, Fail(c) \/ AnswerShort(c) \/ AnswerWithoutTools(c)
      PROVE  Promise!Next
  <2>1. eligible[c] \in Seq(Backends)  BY <1>1 DEF RestOK
  <2>2. QED  BY <1>1, <1>4, <2>1, GoesOn, LoopRefines
<1>5. ASSUME NEW c \in Calls, Submit(c) PROVE Promise!Next \/ UNCHANGED Promise!vars
  <2>1. /\ phase[c] = "idle" /\ UNCHANGED <<eligible, at, asked>>
    BY <1>5 DEF Submit, history
  <2>2. CASE Close(c, "rejected")
    BY <1>0, <1>1, <2>1, <2>2, CloseRefines DEF Progress
  <2>3. CASE phase' = [phase EXCEPT ![c] = "classifying"] /\ UNCHANGED verdict
    <3>1. Waiting' = Waiting
      BY <1>1, <2>1, <2>3 DEF Waiting, Asking, MovesOK
    <3>2. QED  BY <2>1, <2>3, <3>1 DEF Promise!vars, Waiting
  <2>4. QED  BY <1>5, <2>2, <2>3 DEF Submit
<1>6. ASSUME NEW c \in Calls, Cancel(c) \/ Escape(c) PROVE Promise!Next
  <2>1. PICK reason \in {"cancelled", "raised"} : Abort(c, reason)
    BY <1>6 DEF Cancel, Escape
  <2>2. QED  BY <1>0, <1>1, <2>1, CloseRefines DEF Abort, history, Progress
<1>7. ASSUME NEW c \in Calls, Answer(c) PROVE Promise!Next
  BY <1>0, <1>1, <1>7, CloseRefines DEF Answer, Progress
<1>8. CASE Elsewhere
  <2>1. UNCHANGED <<asked, verdict, phase, at, eligible>>
    BY <1>8 DEF Elsewhere
  <2> QED  BY <1>2, <2>1
<1>9. CASE UNCHANGED vars
  BY <1>2, <1>9 DEF vars, history
<1>10. QED  BY <1>3, <1>4, <1>5, <1>6, <1>7, <1>8, <1>9 DEF Next

(* The cascade implements its promise: it asks one backend after the       *)
(* other, none twice, and an answer is that of the one it waits for.       *)
THEOREM PromiseTheorem == Spec => KeepsPromise
<1>1. Init => Promise!Init
  BY DEF Init, Promise!Init
<1>2. QED  BY <1>1, Invariance, NextRefines, PTL DEF Spec, KeepsPromise, Promise!Spec

=============================================================================
