------------------------------ MODULE WelfareProofs ------------------------------
(***************************************************************************)
(* Theorems about the welfare account, for every set of persons, plans,    *)
(* sources, requests and connections and every table of settings: first    *)
(* the laws of Sum, then the serial account (WelfareLedger), then the same *)
(* account under the transactions the program opens (WelfareTx).           *)
(***************************************************************************)
EXTENDS WelfareTx, FiniteSetTheorems, TLAPS

-------------------------------------------------------------------------------
(* Sums: a natural number, an added or removed member adds or removes its    *)
(* amount, and larger amounts make no smaller sum.                           *)

\* The unit tokens of one member.
LEMMA TokensOfOne ==
    ASSUME NEW x, NEW n \in Nat
    PROVE  IsFiniteSet({x} \X (1 .. n)) /\ Cardinality({x} \X (1 .. n)) = n
<1>1. IsFiniteSet({x}) /\ Cardinality({x}) = 1
  BY FS_Singleton
<1>2. IsFiniteSet(1 .. n) /\ Cardinality(1 .. n) = n
  BY FS_Interval
<1>3. Cardinality({x}) * Cardinality(1 .. n) = n
  BY <1>1, <1>2
<1> QED
  BY <1>1, <1>2, <1>3, FS_Product

\* A finite set with natural amounts has finitely many tokens.
LEMMA TokensFinite ==
    ASSUME NEW S, IsFiniteSet(S), NEW a, \A x \in S : a[x] \in Nat
    PROVE  IsFiniteSet(Tokens(a, S))
<1> DEFINE T(x) == {x} \X (1 .. a[x])
           F == {T(x) : x \in S}
           g == [x \in S |-> T(x)]
<1>1. g \in Surjection(S, F)
  BY DEF Surjection
<1>2. IsFiniteSet(F)
  BY <1>1, FS_Surjection
<1>3. \A t \in F : IsFiniteSet(t)
  <2> SUFFICES ASSUME NEW x \in S PROVE IsFiniteSet(T(x))
    OBVIOUS
  <2>1. a[x] \in Nat
    OBVIOUS
  <2> QED
    BY <2>1, TokensOfOne
<1> HIDE DEF F
<1>4. IsFiniteSet(UNION F)
  BY <1>2, <1>3, FS_UNION
<1> QED
  BY <1>4 DEF F, Tokens

\* A sum of natural amounts over a finite set is a natural number.
LEMMA SumType ==
    ASSUME NEW S, IsFiniteSet(S), NEW a, \A x \in S : a[x] \in Nat
    PROVE  Sum(a, S) \in Nat
BY TokensFinite, FS_CardinalityType DEF Sum

\* The empty sum.
LEMMA SumEmpty == ASSUME NEW a PROVE Sum(a, {}) = 0
<1>1. Tokens(a, {}) = {}
  BY DEF Tokens
<1> QED
  BY <1>1, FS_EmptySet DEF Sum

\* Adding a new member adds its amount.
LEMMA SumAdd ==
    ASSUME NEW S, IsFiniteSet(S), NEW x, x \notin S, NEW a,
           \A y \in S \cup {x} : a[y] \in Nat
    PROVE  Sum(a, S \cup {x}) = Sum(a, S) + a[x]
<1> DEFINE X == {x} \X (1 .. a[x])
<1>1. Tokens(a, S \cup {x}) = Tokens(a, S) \cup X
  BY DEF Tokens
<1>2. Tokens(a, S) \cap X = {}
  BY DEF Tokens
<1>3. IsFiniteSet(Tokens(a, S)) /\ IsFiniteSet(X) /\ Cardinality(X) = a[x]
  BY TokensFinite, TokensOfOne
<1>4. Cardinality(Tokens(a, S)) \in Nat
  BY <1>3, FS_CardinalityType
<1> HIDE DEF X
<1>5. Cardinality(Tokens(a, S) \cup X) = Cardinality(Tokens(a, S)) + Cardinality(X)
  BY <1>2, <1>3, <1>4, FS_Union, FS_EmptySet
<1> QED
  BY <1>1, <1>3, <1>5 DEF Sum

\* Removing a member removes its amount.
LEMMA SumRemove ==
    ASSUME NEW S, IsFiniteSet(S), NEW x \in S, NEW a, \A y \in S : a[y] \in Nat
    PROVE  Sum(a, S \ {x}) = Sum(a, S) - a[x]
<1>1. IsFiniteSet(S \ {x}) /\ (S \ {x}) \cup {x} = S
  BY FS_RemoveElement
<1>2. Sum(a, S \ {x}) \in Nat
  BY <1>1, SumType
<1>3. Sum(a, (S \ {x}) \cup {x}) = Sum(a, S \ {x}) + a[x]
  BY <1>1, SumAdd
<1>4. Sum(a, S) = Sum(a, S \ {x}) + a[x]
  BY <1>1, <1>3, Zenon
<1>5. a[x] \in Nat
  OBVIOUS
<1> QED
  BY <1>2, <1>4, <1>5

\* The sum depends on the amounts of the members only.
LEMMA SumSame ==
    ASSUME NEW S, NEW a, NEW b, \A x \in S : a[x] = b[x]
    PROVE  Sum(a, S) = Sum(b, S)
<1>1. Tokens(a, S) = Tokens(b, S)
  BY DEF Tokens
<1> QED
  BY <1>1 DEF Sum

\* The sum over a set that gained member x, the other amounts being the same.
LEMMA SumGain ==
    ASSUME NEW T, IsFiniteSet(T), NEW x \in T, NEW a, NEW b,
           \A y \in T \ {x} : b[y] = a[y], \A y \in T : b[y] \in Nat
    PROVE  Sum(b, T) = Sum(a, T \ {x}) + b[x]
<1>1. IsFiniteSet(T \ {x}) /\ x \notin T \ {x} /\ T = (T \ {x}) \cup {x}
  BY FS_RemoveElement
<1>2. Sum(b, (T \ {x}) \cup {x}) = Sum(b, T \ {x}) + b[x]
  BY <1>1, SumAdd
<1>3. Sum(b, T \ {x}) = Sum(a, T \ {x})
  BY SumSame
<1> QED
  BY <1>1, <1>2, <1>3, Zenon

\* The sum over a set that loses a member, the other amounts being the same.
LEMMA SumLoss ==
    ASSUME NEW S, IsFiniteSet(S), NEW x \in S, NEW a, NEW b,
           \A y \in S \ {x} : b[y] = a[y], \A y \in S : a[y] \in Nat
    PROVE  Sum(b, S \ {x}) = Sum(a, S) - a[x]
<1>1. Sum(a, S \ {x}) = Sum(a, S) - a[x]
  BY SumRemove
<1>2. Sum(b, S \ {x}) = Sum(a, S \ {x})
  <2>1. \A y \in S \ {x} : b[y] = a[y]
    OBVIOUS
  <2> HIDE DEF Sum
  <2> QED
    BY <2>1, SumSame
<1> QED
  BY <1>1, <1>2

\* Smaller amounts make no larger sum.
LEMMA SumMonotone ==
    ASSUME NEW S, IsFiniteSet(S), NEW a, NEW b,
           \A x \in S : a[x] \in Nat /\ b[x] \in Nat /\ a[x] <= b[x]
    PROVE  Sum(a, S) <= Sum(b, S)
<1>1. Tokens(a, S) \subseteq Tokens(b, S)
  BY DEF Tokens
<1>2. IsFiniteSet(Tokens(b, S))
  BY TokensFinite
<1> QED
  BY <1>1, <1>2, FS_Subset DEF Sum

-------------------------------------------------------------------------------
(* Amounts *)

LEMMA RoundPercentType ==
    ASSUME NEW a \in Nat, NEW pct \in 0 .. 100
    PROVE  RoundPercent(a, pct) \in Nat
<1>1. a * pct \in Nat
  OBVIOUS
<1>2. ASSUME NEW n \in Nat PROVE (2 * n + 100) \div 200 \in Nat
  OBVIOUS
<1>3. 2 * a * pct = 2 * (a * pct)
  OBVIOUS
<1> QED
  BY <1>1, <1>2, <1>3 DEF RoundPercent

\* An entry of a natural amount keeps the totals natural.
LEMMA PlusType ==
    ASSUME NEW K, NEW l \in [K -> Nat], NEW k \in K, NEW n \in Nat
    PROVE  Plus(l, k, n) \in [K -> Nat]
BY DEF Plus

LEMMA KindNames ==
    /\ "credit" \in Kinds /\ "recharge" \in Kinds /\ "clawback" \in Kinds
    /\ "reserve" \in Kinds /\ "release" \in Kinds /\ "spend" \in Kinds
    /\ "expire" \in Kinds
BY DEF Kinds

LEMMA PostType ==
    ASSUME TypeOK, NEW pl \in Plans, NEW p \in Persons, NEW k \in Kinds, NEW n \in Nat
    PROVE  Plus(led[pl][p], k, n) \in [Kinds -> Nat]
<1>1. led[pl][p] \in [Kinds -> Nat]
  BY DEF TypeOK
<1> QED
  BY <1>1, PlusType

\* The quotas a person gains from due sources are a natural amount.
LEMMA GainType ==
    ASSUME NEW src \in [Sources -> SourceRow \cup {None}],
           NEW due \in SUBSET {s \in Sources : src[s] # None},
           NEW pops, NEW pl, NEW p \in Persons
    PROVE  Gain(src, due, pops, pl, p) \in Nat
<1> DEFINE paying == {s \in due : src[s].plan = pl /\ Credited(src, due, pops, s, p)}
           a == [s \in paying |-> Quota(src, s, p)]
<1>1. IsFiniteSet(paying)
  BY ConstantsAssumption, FS_Subset
<1>2. ASSUME NEW s \in paying PROVE a[s] \in Nat
  <2>1. src[s].amount \in Nat
    BY DEF SourceRow
  <2>2. Share[p] \in 0 .. 100
    BY ConstantsAssumption
  <2> QED
    BY <2>1, <2>2, RoundPercentType DEF Quota
<1> HIDE DEF paying, a
<1>3. Sum(a, paying) \in Nat
  BY <1>1, <1>2, SumType
<1> QED
  BY <1>3 DEF Gain, paying, a

-------------------------------------------------------------------------------
(* Types *)

\* Crediting keeps the types of the source, credit and register tables.
LEMMA CreditSourcesType ==
    ASSUME TypeOK,
           NEW src \in [Sources -> SourceRow \cup {None}],
           NEW due \in SUBSET {s \in Sources : src[s] # None}, NEW pops,
           CreditSources(src, due, pops)
    PROVE  /\ source' \in [Sources -> SourceRow \cup {None}]
           /\ credits' \in [Sources -> [Persons -> Nat]]
           /\ led' \in [Plans -> [Persons -> [Kinds -> Nat]]]
<1>1. source' \in [Sources -> SourceRow \cup {None}]
  <2>1. ASSUME NEW s \in due PROVE [src[s] EXCEPT !.credited = TRUE] \in SourceRow
    BY DEF SourceRow
  <2> QED
    BY <2>1 DEF CreditSources
<1>2. credits' \in [Sources -> [Persons -> Nat]]
  BY DEF CreditSources, TypeOK
<1>3. led' \in [Plans -> [Persons -> [Kinds -> Nat]]]
  <2>1. ASSUME NEW pl \in Plans, NEW p \in Persons
        PROVE  Plus(led[pl][p], "credit", Gain(src, due, pops, pl, p)) \in [Kinds -> Nat]
    <3>1. Gain(src, due, pops, pl, p) \in Nat
      BY GainType
    <3>2. led[pl][p] \in [Kinds -> Nat] /\ "credit" \in Kinds
      BY DEF TypeOK, Kinds
    <3> QED
      BY <3>1, <3>2, PlusType
  <2> QED
    BY <2>1 DEF CreditSources
<1> QED
  BY <1>1, <1>2, <1>3

LEMMA InitType == Init => TypeOK
BY ConstantsAssumption DEF Init, TypeOK, LimitType, Limits

\* The types under each effect, whatever the guards: also for transactions that
\* write what they computed from older reads.
LEMMA RunRemindersType ==
    ASSUME TypeOK, NEW due \in SUBSET {s \in Sources : source[s] # None}, NEW pops,
           DoRunReminders(due, pops)
    PROVE  TypeOK'
BY CreditSourcesType DEF TypeOK, DoRunReminders

LEMMA ActivateType ==
    ASSUME TypeOK, NEW pl \in Plans, status[pl] # "none", DoActivatePlan(pl)
    PROVE  TypeOK'
<1>1. Due(source, {pl}) \in SUBSET {s \in Sources : source[s] # None}
  BY DEF Due
<1> QED
  BY <1>1, CreditSourcesType DEF TypeOK, DoActivatePlan

LEMMA ClosePlanType ==
    ASSUME TypeOK, NEW pl \in Plans, status[pl] # "none", NEW lost \in [Persons -> Nat],
           DoClosePlan(pl, lost)
    PROVE  TypeOK'
<1>1. ASSUME NEW p \in Persons
      PROVE  Plus(led[pl][p], "expire", lost[p]) \in [Kinds -> Nat]
  BY PostType, KindNames
<1>2. led' = [led EXCEPT ![pl] = [p \in Persons |-> Plus(led[pl][p], "expire", lost[p])]]
  BY DEF DoClosePlan
<1>3. led' \in [Plans -> [Persons -> [Kinds -> Nat]]]
  BY <1>1, <1>2 DEF TypeOK
<1> QED
  BY <1>3 DEF TypeOK, DoClosePlan

\* What closePlan lets expire is a natural amount.
LEMMA LostType ==
    ASSUME TypeOK, NEW pl \in Plans, status[pl] # "none", NEW p \in Persons
    PROVE  Lost(pl, p) \in Nat
<1>1. terms[pl] \in TermsType
  BY ConstantsAssumption DEF TypeOK
<1>2. 100 - terms[pl].keep \in 0 .. 100
  BY <1>1 DEF TermsType
<1>3. Floor0(Balance(led[pl][p])) \in Nat
  BY DEF TypeOK, Floor0, Balance, Kinds
<1> QED
  BY <1>2, <1>3, RoundPercentType DEF Lost

\* The table with the row that addSource inserts.
LEMMA WithSourceType ==
    ASSUME TypeOK, NEW s \in Sources, NEW pl \in Plans, NEW f \in SourceForms
    PROVE  /\ WithSource(s, pl, f) \in [Sources -> SourceRow \cup {None}]
           /\ WithSource(s, pl, f)[s] # None /\ WithSource(s, pl, f)[s] \in SourceRow
           /\ \A x \in Sources \ {s} : WithSource(s, pl, f)[x] = source[x]
<1> DEFINE row == [plan |-> pl, amount |-> f.amount, day |-> f.day,
                   premium |-> f.premium, credited |-> FALSE]
<1>1. f \in SourceType
  BY ConstantsAssumption
<1>2. row \in SourceRow
  BY <1>1 DEF SourceType, SourceRow
<1>3. WithSource(s, pl, f) = [source EXCEPT ![s] = row]
  BY DEF WithSource
<1>4. source \in [Sources -> SourceRow \cup {None}]
  BY DEF TypeOK
<1>5. row # None
  BY <1>2, NoneAssumption
<1> HIDE DEF row
<1> QED
  BY <1>2, <1>3, <1>4, <1>5

LEMMA AddSourceType ==
    ASSUME TypeOK, NEW s \in Sources, NEW pl \in Plans, NEW f \in SourceForms,
           NEW due \in SUBSET {x \in Sources : WithSource(s, pl, f)[x] # None}, NEW pops,
           DoAddSource(s, pl, f, due, pops)
    PROVE  TypeOK'
<1> DEFINE src == WithSource(s, pl, f)
<1>1. src \in [Sources -> SourceRow \cup {None}]
  BY WithSourceType
<1>2. CreditSources(src, due, pops)
  BY DEF DoAddSource
<1> HIDE DEF src
<1>3. /\ source' \in [Sources -> SourceRow \cup {None}]
      /\ credits' \in [Sources -> [Persons -> Nat]]
      /\ led' \in [Plans -> [Persons -> [Kinds -> Nat]]]
  BY <1>1, <1>2, CreditSourcesType DEF src
<1> QED
  BY <1>3 DEF TypeOK, DoAddSource

\* The source a choice inserts when the plan has none for premiums.
PremiumRow(pl) == [plan |-> pl, amount |-> 0, day |-> 0, premium |-> TRUE, credited |-> TRUE]

LEMMA PremiumRowType ==
    ASSUME NEW pl \in Plans
    PROVE  PremiumRow(pl) \in SourceRow /\ PremiumRow(pl) # None
<1>1. PremiumRow(pl) \in SourceRow
  BY DEF PremiumRow, SourceRow
<1> QED
  BY <1>1, NoneAssumption

LEMMA PremiumType ==
    ASSUME TypeOK, NEW p \in Persons, NEW pl \in Plans, NEW amount \in Nat, NEW s \in Sources,
           DoChoosePremium(p, pl, amount, s)
    PROVE  TypeOK'
<1> DEFINE row == IF source[s] # None THEN source[s] ELSE PremiumRow(pl)
<1>1. Plus(led[pl][p], "credit", amount) \in [Kinds -> Nat]
  BY PostType, KindNames
<1>2. PremiumRow(pl) \in SourceRow
  BY PremiumRowType
<1>3. /\ source \in [Sources -> SourceRow \cup {None}]
      /\ credits \in [Sources -> [Persons -> Nat]]
      /\ led \in [Plans -> [Persons -> [Kinds -> Nat]]]
      /\ chosen \in [Plans -> [Persons -> Nat]]
  BY DEF TypeOK
<1>4. row \in SourceRow \cup {None}
  BY <1>2, <1>3
<1>5. source' = [source EXCEPT ![s] = row]
  BY <1>3 DEF DoChoosePremium, PremiumRow
<1> HIDE DEF row
<1>6. source' \in [Sources -> SourceRow \cup {None}]
  BY <1>3, <1>4, <1>5
<1>7. credits' \in [Sources -> [Persons -> Nat]]
  <2>1. credits' = [credits EXCEPT ![s] = [credits[s] EXCEPT ![p] = credits[s][p] + 1]]
    BY <1>3 DEF DoChoosePremium
  <2> QED
    BY <1>3, <2>1
<1>8. led' \in [Plans -> [Persons -> [Kinds -> Nat]]] /\ chosen' \in [Plans -> [Persons -> Nat]]
  BY <1>1, <1>3 DEF DoChoosePremium
<1> QED
  BY <1>6, <1>7, <1>8 DEF TypeOK, DoChoosePremium

\* The amount of a premium choice.
LEMMA PremiumAmount ==
    ASSUME TypeOK, NEW p \in Persons, NEW pl \in Plans, NEW percent,
           CanChoosePremium(p, pl, percent)
    PROVE  RoundPercent(terms[pl].premium, percent) \in Nat
<1>1. terms[pl] \in TermsType /\ percent \in terms[pl].percents
  BY ConstantsAssumption DEF TypeOK, CanChoosePremium
<1>2. terms[pl].premium \in Nat /\ percent \in 0 .. 100
  BY <1>1 DEF TermsType
<1> QED
  BY <1>2, RoundPercentType

LEMMA ClaimFacts ==
    ASSUME NEW k \in Claims
    PROVE  k.amount \in Nat \ {0} /\ k.cat \in Categories /\ k.kind \in RequestKinds
BY ConstantsAssumption DEF ClaimType

LEMMA CreateType ==
    ASSUME TypeOK, NEW r \in Requests, NEW p \in Persons, NEW pl \in Plans, NEW k \in Claims,
           NEW taxable \in Nat, DoCreateRequest(r, p, pl, k, taxable)
    PROVE  TypeOK'
<1>1. k.amount \in Nat \ {0} /\ k.cat \in Categories /\ k.kind \in RequestKinds
  BY ClaimFacts
<1>2. req' \in [Requests -> RequestRow \cup {NoRequest}]
  BY <1>1 DEF TypeOK, DoCreateRequest, RequestRow, OPEN
<1>3. led' \in [Plans -> [Persons -> [Kinds -> Nat]]]
  <2>1. Plus(led[pl][p], "reserve", k.amount) \in [Kinds -> Nat]
    BY <1>1, PostType, KindNames
  <2> QED
    BY <2>1 DEF TypeOK, DoCreateRequest
<1>4. used' \in [Persons -> [Categories -> Int]]
  BY <1>1 DEF TypeOK, DoCreateRequest
<1>5. entries' \in [Requests -> [EntryKinds -> Nat]]
  <2>1. Plus(entries[r], "reserve", 1) \in [EntryKinds -> Nat]
    BY PlusType DEF TypeOK, EntryKinds
  <2> QED
    BY <2>1 DEF TypeOK, DoCreateRequest
<1> QED
  BY <1>2, <1>3, <1>4, <1>5 DEF TypeOK, DoCreateRequest

\* The taxable part of a claim is a natural amount.
LEMMA TaxableType ==
    ASSUME TypeOK, NEW p \in Persons, NEW k \in Claims, category[k.cat] # None
    PROVE  TaxableOf(p, k) \in Nat
<1>1. k.amount \in Nat \ {0} /\ k.cat \in Categories
  BY ClaimFacts
<1> QED
  BY <1>1 DEF TypeOK, TaxableOf, TaxablePortion, ThresholdFor, Floor0, CategoryType,
      Regimes, LimitType, Limits

\* A request that exists is a row.
LEMMA RowFacts ==
    ASSUME TypeOK, NEW r \in Requests, req[r].status # "none"
    PROVE  /\ req[r] \in RequestRow
           /\ req[r].plan \in Plans /\ req[r].person \in Persons
           /\ req[r].cat \in Categories /\ req[r].amount \in Nat
<1>1. req[r] \in RequestRow
  BY DEF TypeOK, NoRequest
<1> QED
  BY <1>1 DEF RequestRow

LEMMA ReleaseType ==
    ASSUME TypeOK, NEW r \in Requests, req[r].status # "none", NEW outcome \in Released,
           Release(r, outcome)
    PROVE  TypeOK'
<1>1. /\ req[r] \in RequestRow /\ req[r].plan \in Plans /\ req[r].person \in Persons
      /\ req[r].cat \in Categories /\ req[r].amount \in Nat
  BY RowFacts
<1>2. req' \in [Requests -> RequestRow \cup {NoRequest}]
  BY <1>1 DEF TypeOK, Release, RequestRow
<1>3. led' \in [Plans -> [Persons -> [Kinds -> Nat]]]
  <2>1. Plus(led[req[r].plan][req[r].person], "release", req[r].amount) \in [Kinds -> Nat]
    BY <1>1, PostType, KindNames
  <2> QED
    BY <1>1, <2>1 DEF TypeOK, Release
<1>4. used' \in [Persons -> [Categories -> Int]]
  BY <1>1 DEF TypeOK, Release
<1>5. entries' \in [Requests -> [EntryKinds -> Nat]]
  <2>1. Plus(entries[r], "release", 1) \in [EntryKinds -> Nat]
    BY PlusType DEF TypeOK, EntryKinds
  <2> QED
    BY <2>1 DEF TypeOK, Release
<1> QED
  BY <1>2, <1>3, <1>4, <1>5 DEF TypeOK, Release

LEMMA ApproveType ==
    ASSUME TypeOK, NEW r \in Requests, req[r].status # "none", DoApprove(r)
    PROVE  TypeOK'
<1>1. /\ req[r] \in RequestRow /\ req[r].plan \in Plans /\ req[r].person \in Persons
      /\ req[r].amount \in Nat
  BY RowFacts
<1>2. req' \in [Requests -> RequestRow \cup {NoRequest}]
  BY <1>1 DEF TypeOK, DoApprove, RequestRow, Approved
<1>3. led' \in [Plans -> [Persons -> [Kinds -> Nat]]]
  <2> DEFINE l == Plus(led[req[r].plan][req[r].person], "release", req[r].amount)
  <2>1. l \in [Kinds -> Nat]
    BY <1>1, PostType, KindNames
  <2>2. Plus(l, "spend", req[r].amount) \in [Kinds -> Nat]
    BY <1>1, <2>1, PlusType, KindNames
  <2> QED
    BY <1>1, <2>2 DEF TypeOK, DoApprove
<1>4. entries' \in [Requests -> [EntryKinds -> Nat]]
  <2> DEFINE e == Plus(entries[r], "release", 1)
  <2>1. e \in [EntryKinds -> Nat]
    BY PlusType DEF TypeOK, EntryKinds
  <2>2. Plus(e, "spend", 1) \in [EntryKinds -> Nat]
    BY <2>1, PlusType DEF EntryKinds
  <2> QED
    BY <2>2 DEF TypeOK, DoApprove
<1> QED
  BY <1>2, <1>3, <1>4 DEF TypeOK, DoApprove

LEMMA NeedsDocsType ==
    ASSUME TypeOK, NEW r \in Requests, req[r].status # "none", SetNeedsDocs(r)
    PROVE  TypeOK'
<1>1. req[r] \in RequestRow
  BY RowFacts
<1>2. req' \in [Requests -> RequestRow \cup {NoRequest}]
  BY <1>1 DEF TypeOK, SetNeedsDocs, RequestRow, OPEN
<1> QED
  BY <1>2 DEF TypeOK, SetNeedsDocs

LEMMA CreateBatchType ==
    ASSUME TypeOK, NEW b \in Batches,
           NEW toPay \in SUBSET {r \in Requests : req[r].status # "none"},
           DoCreateBatch(b, toPay)
    PROVE  TypeOK'
<1>1. toPay \subseteq Requests /\ IsFiniteSet(toPay)
  BY ConstantsAssumption, FS_Subset
<1>2. ASSUME NEW r \in toPay PROVE req[r] \in RequestRow
  BY RowFacts
<1>3. Cardinality(toPay) \in Nat
  BY <1>1, FS_CardinalityType
<1>4. ASSUME NEW r \in toPay PROVE Reimbursed(r) \in Nat
  BY <1>2 DEF Reimbursed, RequestRow
<1> DEFINE a == [r \in toPay |-> Reimbursed(r)]
<1>5. \A r \in toPay : a[r] \in Nat
  BY <1>4
<1> HIDE DEF a
<1>6. Sum(a, toPay) \in Nat
  BY <1>1, <1>5, SumType
<1>7. batch' \in [Batches -> BatchRow \cup {None}]
  BY <1>3, <1>6 DEF TypeOK, DoCreateBatch, BatchRow, a
<1>8. ASSUME NEW r \in toPay
      PROVE  [req[r] EXCEPT !.status = "in_payroll", !.batch = b] \in RequestRow
  BY <1>2 DEF RequestRow, Approved
<1>9. req' \in [Requests -> RequestRow \cup {NoRequest}]
  BY <1>8 DEF TypeOK, DoCreateBatch
<1> QED
  BY <1>7, <1>9 DEF TypeOK, DoCreateBatch

LEMMA ConfirmType ==
    ASSUME TypeOK, NEW b \in Batches, batch[b] # None, DoConfirmBatch(b)
    PROVE  TypeOK'
<1>1. batch' \in [Batches -> BatchRow \cup {None}]
  BY DEF TypeOK, DoConfirmBatch, BatchRow
<1>2. ASSUME NEW r \in Requests, req[r].status = "in_payroll"
      PROVE  [req[r] EXCEPT !.status = "paid"] \in RequestRow
  <2>1. req[r] \in RequestRow
    BY <1>2, RowFacts
  <2> QED
    BY <2>1 DEF RequestRow, Approved
<1>3. req' \in [Requests -> RequestRow \cup {NoRequest}]
  BY <1>2 DEF TypeOK, DoConfirmBatch
<1> QED
  BY <1>1, <1>3 DEF TypeOK, DoConfirmBatch

LEMMA AdjustType ==
    ASSUME TypeOK, NEW pl \in Plans, NEW p \in Persons, NEW n \in Adjustments, Adjust(pl, p, n)
    PROVE  TypeOK'
<1>1. n \in Int
  BY ConstantsAssumption
<1> DEFINE l == IF n >= 0 THEN Plus(led[pl][p], "recharge", n)
                          ELSE Plus(led[pl][p], "clawback", -n)
<1>2. l \in [Kinds -> Nat]
  <2>1. CASE n >= 0
    BY <1>1, <2>1, PostType, KindNames
  <2>2. CASE ~ n >= 0
    <3>1. -n \in Nat
      BY <1>1, <2>2
    <3> QED
      BY <2>2, <3>1, PostType, KindNames
  <2> QED
    BY <2>1, <2>2
<1> QED
  BY <1>2 DEF TypeOK, Adjust

LEMMA SettingsType == ASSUME TypeOK, Settings PROVE TypeOK'
<1> USE DEF TypeOK
<1>1. ASSUME NEW pl \in Plans, NEW t \in Terms, CreatePlan(pl, t) \/ UpdatePlan(pl, t)
      PROVE  TypeOK'
  BY <1>1 DEF CreatePlan, UpdatePlan
<1>2. ASSUME NEW c \in Categories, NEW f \in CategoryForms, UpsertCategory(c, f) PROVE TypeOK'
  BY <1>2, ConstantsAssumption DEF UpsertCategory
<1>3. ASSUME NEW table \in LimitTables, PutThresholds(table) PROVE TypeOK'
  BY <1>3, ConstantsAssumption DEF PutThresholds
<1>4. CASE LoadPresets
  BY <1>4, ConstantsAssumption DEF LoadPresets, Kept, LimitType, Limits
<1>5. ASSUME NEW p \in Persons, NEW value \in BOOLEAN, Declare(p, value) PROVE TypeOK'
  BY <1>5 DEF Declare
<1>6. ASSUME NEW p \in Persons, Hire(p) \/ Leave(p) PROVE TypeOK'
  BY <1>6 DEF Hire, Leave
<1>7. CASE Tick
  BY <1>7, ConstantsAssumption DEF Tick
<1> QED
  BY <1>1, <1>2, <1>3, <1>4, <1>5, <1>6, <1>7, AdjustType DEF Settings

LEMMA NextType == ASSUME TypeOK, [Next]_vars PROVE TypeOK'
<1>1. CASE RunReminders
  <2>1. Due(source, ActivePlans) \in SUBSET {s \in Sources : source[s] # None}
    BY DEF Due
  <2> QED
    BY <1>1, <2>1, RunRemindersType DEF RunReminders
<1>2. CASE Settings
  BY <1>2, SettingsType
<1>3. ASSUME NEW pl \in Plans, ActivatePlan(pl) PROVE TypeOK'
  BY <1>3, ActivateType DEF ActivatePlan, CanActivatePlan
<1>4. ASSUME NEW pl \in Plans, ClosePlan(pl) PROVE TypeOK'
  <2> DEFINE lost == [p \in Persons |-> Lost(pl, p)]
  <2>1. status[pl] # "none" /\ DoClosePlan(pl, lost)
    BY <1>4 DEF ClosePlan, CanClosePlan
  <2>2. lost \in [Persons -> Nat]
    BY <2>1, LostType
  <2> HIDE DEF lost
  <2> QED
    BY <2>1, <2>2, ClosePlanType
<1>5. ASSUME NEW s \in Sources, NEW pl \in Plans, NEW f \in SourceForms, AddSource(s, pl, f)
      PROVE  TypeOK'
  <2> DEFINE due == Due(WithSource(s, pl, f), {pl} \cap ActivePlans)
  <2>1. due \in SUBSET {x \in Sources : WithSource(s, pl, f)[x] # None}
    BY DEF Due
  <2>2. DoAddSource(s, pl, f, due, ApiPopulations)
    BY <1>5 DEF AddSource
  <2> HIDE DEF due
  <2> QED
    BY <2>1, <2>2, AddSourceType
<1>6. ASSUME NEW p \in Persons, NEW pl \in Plans, NEW percent \in UNION {t.percents : t \in Terms},
             ChoosePremium(p, pl, percent)
      PROVE  TypeOK'
  <2>1. PICK s \in Sources : DoChoosePremium(p, pl, RoundPercent(terms[pl].premium, percent), s)
    BY <1>6 DEF ChoosePremium
  <2>2. RoundPercent(terms[pl].premium, percent) \in Nat
    BY <1>6, PremiumAmount DEF ChoosePremium
  <2> QED
    BY <2>1, <2>2, PremiumType
<1>7. ASSUME NEW r \in Requests, NEW p \in Persons, NEW pl \in Plans, NEW k \in Claims,
             CreateRequest(r, p, pl, k)
      PROVE  TypeOK'
  BY <1>7, CreateType, TaxableType DEF CreateRequest, CanCreateRequest
<1>8. ASSUME NEW r \in Requests, CancelRequest(r) \/ RejectRequest(r) PROVE TypeOK'
  BY <1>8, ReleaseType DEF CancelRequest, RejectRequest, CanDecide, OPEN, Released
<1>9. ASSUME NEW r \in Requests, ApproveRequest(r) PROVE TypeOK'
  BY <1>9, ApproveType DEF ApproveRequest, CanDecide, OPEN
<1>10. ASSUME NEW r \in Requests, AskForDocs(r) PROVE TypeOK'
  BY <1>10, NeedsDocsType DEF AskForDocs, CanDecide, OPEN
<1>11. ASSUME NEW b \in Batches, CreateBatch(b) PROVE TypeOK'
  <2>1. ToPay \in SUBSET {r \in Requests : req[r].status # "none"}
    BY DEF ToPay
  <2> QED
    BY <1>11, <2>1, CreateBatchType DEF CreateBatch
<1>12. ASSUME NEW b \in Batches, ConfirmBatch(b) PROVE TypeOK'
  BY <1>12, ConfirmType DEF ConfirmBatch, CanConfirmBatch
<1>13. CASE UNCHANGED vars
  BY <1>13 DEF vars, TypeOK
<1> QED
  BY <1>1, <1>2, <1>3, <1>4, <1>5, <1>6, <1>7, <1>8, <1>9, <1>10, <1>11, <1>12, <1>13
     DEF Next, Settings

\* The tables keep their types: totals of the register and sums of lots are
\* natural numbers whatever the handlers do (the amounts are rounded quotas).
THEOREM TypeCorrect == Spec => []TypeOK
BY InitType, NextType, PTL DEF Spec

-------------------------------------------------------------------------------
(* Bookings *)

\* Every action keeps the number of movements of a request in step with its status.
LEMMA BookingsStep ==
    ASSUME TypeOK, BookingsMatchStatus, [Next]_vars
    PROVE  BookingsMatchStatus'
<1> USE DEF BookingsMatchStatus
<1>1. CASE UNCHANGED <<req, entries>>
  BY <1>1
<1>2. ASSUME NEW r \in Requests, NEW p \in Persons, NEW pl \in Plans, NEW k \in Claims,
             CreateRequest(r, p, pl, k)
      PROVE  BookingsMatchStatus'
  <2>1. \A x \in Requests \ {r} : req'[x] = req[x] /\ entries'[x] = entries[x]
    BY <1>2 DEF CreateRequest, DoCreateRequest, TypeOK
  <2>2. req[r].status = "none" /\ req'[r].status = "submitted"
    BY <1>2 DEF CreateRequest, CanCreateRequest, DoCreateRequest, TypeOK
  <2>3. entries'[r] = Plus(entries[r], "reserve", 1) /\ entries[r] \in [EntryKinds -> Nat]
    BY <1>2 DEF CreateRequest, DoCreateRequest, TypeOK
  <2> QED
    BY <2>1, <2>2, <2>3 DEF Plus, EntryKinds, Released, Approved
<1>3. ASSUME NEW r \in Requests, CancelRequest(r) \/ RejectRequest(r)
      PROVE  BookingsMatchStatus'
  <2>1. PICK outcome \in Released : CanDecide(r) /\ Release(r, outcome)
    BY <1>3 DEF CancelRequest, RejectRequest, Released
  <2>2. \A x \in Requests \ {r} : req'[x] = req[x] /\ entries'[x] = entries[x]
    BY <2>1 DEF Release, TypeOK
  <2>3. req[r].status \in OPEN /\ req'[r].status = outcome
    <3>1. req[r] \in RequestRow
      BY <2>1 DEF TypeOK, CanDecide, OPEN, NoRequest
    <3> QED
      BY <2>1, <3>1 DEF CanDecide, Release, TypeOK, RequestRow
  <2>4. entries'[r] = Plus(entries[r], "release", 1) /\ entries[r] \in [EntryKinds -> Nat]
    BY <2>1 DEF Release, TypeOK
  <2> QED
    BY <2>1, <2>2, <2>3, <2>4 DEF Plus, EntryKinds, OPEN, Released, Approved
<1>4. ASSUME NEW r \in Requests, ApproveRequest(r) PROVE BookingsMatchStatus'
  <2>1. CanDecide(r) /\ DoApprove(r)
    BY <1>4 DEF ApproveRequest
  <2>2. \A x \in Requests \ {r} : req'[x] = req[x] /\ entries'[x] = entries[x]
    BY <2>1 DEF DoApprove, TypeOK
  <2>3. req[r].status \in OPEN /\ req'[r].status \in {"approved", "fulfilled"}
    <3>1. req[r] \in RequestRow
      BY <2>1 DEF TypeOK, CanDecide, OPEN, NoRequest
    <3> QED
      BY <2>1, <3>1 DEF CanDecide, DoApprove, TypeOK, RequestRow
  <2>4. /\ entries'[r] = Plus(Plus(entries[r], "release", 1), "spend", 1)
        /\ entries[r] \in [EntryKinds -> Nat]
    BY <2>1 DEF DoApprove, TypeOK
  <2>5. /\ entries'[r]["reserve"] = entries[r]["reserve"]
        /\ entries'[r]["release"] = entries[r]["release"] + 1
        /\ entries'[r]["spend"] = entries[r]["spend"] + 1
    BY <2>4 DEF Plus, EntryKinds
  <2> QED
    BY <2>2, <2>3, <2>5 DEF OPEN, Released, Approved
<1>5. ASSUME NEW r \in Requests, AskForDocs(r) PROVE BookingsMatchStatus'
  <2>1. req[r] \in RequestRow
    BY <1>5 DEF AskForDocs, SetNeedsDocs, CanDecide, TypeOK, OPEN, NoRequest
  <2> QED
    <3>1. req[r].status \in OPEN /\ req'[r].status = "needs_docs"
      BY <1>5, <2>1 DEF AskForDocs, SetNeedsDocs, CanDecide, TypeOK, RequestRow
    <3>2. \A x \in Requests \ {r} : req'[x] = req[x]
      BY <1>5 DEF AskForDocs, SetNeedsDocs, TypeOK
    <3>3. entries' = entries
      BY <1>5 DEF AskForDocs, SetNeedsDocs
    <3> QED
      BY <3>1, <3>2, <3>3 DEF OPEN, Released, Approved
<1>6. ASSUME NEW b \in Batches, CreateBatch(b) PROVE BookingsMatchStatus'
  <2>1. ASSUME NEW r \in ToPay PROVE req[r].status = "approved" /\ req'[r].status = "in_payroll"
    <3>1. r \in Requests /\ req[r].status = "approved"
      BY DEF ToPay
    <3>2. req[r] \in RequestRow
      BY <3>1 DEF TypeOK, NoRequest
    <3>3. req'[r] = [req[r] EXCEPT !.status = "in_payroll", !.batch = b]
      BY <1>6, <3>1 DEF CreateBatch, DoCreateBatch
    <3> QED
      BY <3>1, <3>2, <3>3 DEF RequestRow
  <2>2. \A r \in Requests \ ToPay : req'[r] = req[r]
    BY <1>6 DEF CreateBatch, DoCreateBatch
  <2>3. ToPay \subseteq Requests /\ entries' = entries
    BY <1>6 DEF CreateBatch, DoCreateBatch, ToPay
  <2> QED
    BY <2>1, <2>2, <2>3 DEF Released, Approved
<1>7. ASSUME NEW b \in Batches, ConfirmBatch(b) PROVE BookingsMatchStatus'
  <2>1. ASSUME NEW r \in Requests
        PROVE  \/ req'[r] = req[r]
               \/ req[r].status = "in_payroll" /\ req'[r].status = "paid"
    BY <1>7 DEF ConfirmBatch, DoConfirmBatch, TypeOK, RequestRow, NoRequest
  <2>2. entries' = entries
    BY <1>7 DEF ConfirmBatch, DoConfirmBatch
  <2> QED
    BY <2>1, <2>2 DEF Released, Approved
<1> QED
  <2>1. CASE UNCHANGED vars
    BY <1>1, <2>1 DEF vars
  <2>2. CASE Next
    BY <1>1, <1>2, <1>3, <1>4, <1>5, <1>6, <1>7, <2>2 DEF Next, RunReminders, DoRunReminders, CreatePlan,
        UpdatePlan, ActivatePlan, DoActivatePlan, ClosePlan, DoClosePlan, AddSource, DoAddSource, WithSource, Adjust,
        ChoosePremium, DoChoosePremium, UpsertCategory, PutThresholds, LoadPresets, Declare,
        Hire, Leave, Tick
  <2> QED
    BY <2>1, <2>2

LEMMA BookingsInit == Init => BookingsMatchStatus
BY DEF Init, BookingsMatchStatus, NoRequest, EntryKinds, Released, Approved

\* A request is reserved once, released once and spent once, whatever the order
\* in which its owner and the approvers act on it.
THEOREM BookingsCorrect == Spec => []BookingsMatchStatus
<1>1. TypeOK /\ BookingsMatchStatus /\ TypeOK' /\ [Next]_vars => BookingsMatchStatus'
  BY BookingsStep
<1> QED
  BY <1>1, BookingsInit, TypeCorrect, PTL DEF Spec

-------------------------------------------------------------------------------
(* The register and the requests *)

LEMMA OwnedFinite ==
    ASSUME NEW stages, NEW pl, NEW p
    PROVE  IsFiniteSet(Owned(stages, pl, p)) /\ Owned(stages, pl, p) \subseteq Requests
BY ConstantsAssumption, FS_Subset DEF Owned

LEMMA OwnedAmount ==
    ASSUME TypeOK, NEW stages \in SUBSET (OPEN \cup Released \cup Approved), NEW pl, NEW p,
           NEW r \in Owned(stages, pl, p)
    PROVE  req[r] \in RequestRow /\ req[r].amount \in Nat
<1>1. req[r] \in RequestRow
  BY DEF Owned, TypeOK, NoRequest, OPEN, Released, Approved
<1> QED
  BY <1>1 DEF RequestRow

\* The total of some stages is a natural number.
LEMMA AmountsType ==
    ASSUME TypeOK, NEW stages \in SUBSET (OPEN \cup Released \cup Approved), NEW pl, NEW p
    PROVE  AmountsOf(stages, pl, p) \in Nat
<1> DEFINE S == Owned(stages, pl, p)
           a == [r \in S |-> req[r].amount]
<1>1. IsFiniteSet(S) /\ \A r \in S : a[r] \in Nat
  BY OwnedFinite, OwnedAmount
<1> HIDE DEF S, a
<1>2. Sum(a, S) \in Nat
  BY <1>1, SumType
<1> QED
  BY <1>2 DEF AmountsOf, S, a

\* A step that moves no request in or out of the stages keeps their total.
LEMMA AmountsSame ==
    ASSUME NEW stages, NEW pl, NEW p,
           Owned(stages, pl, p)' = Owned(stages, pl, p),
           \A r \in Owned(stages, pl, p) : req'[r].amount = req[r].amount
    PROVE  AmountsOf(stages, pl, p)' = AmountsOf(stages, pl, p)
<1> DEFINE S == Owned(stages, pl, p)
           a == [r \in S |-> req[r].amount]
           b == [r \in S |-> req'[r].amount]
<1>1. a = b
  OBVIOUS
<1>2. AmountsOf(stages, pl, p)' = Sum(b, S)
  BY DEF AmountsOf
<1>3. AmountsOf(stages, pl, p) = Sum(a, S)
  BY DEF AmountsOf
<1> HIDE DEF S, a, b
<1> QED
  BY <1>1, <1>2, <1>3

\* A step that brings one request into the stages adds its amount.
LEMMA AmountsGain ==
    ASSUME TypeOK, TypeOK', NEW stages \in SUBSET (OPEN \cup Released \cup Approved),
           NEW pl, NEW p, NEW x \in Requests, x \notin Owned(stages, pl, p),
           Owned(stages, pl, p)' = Owned(stages, pl, p) \cup {x},
           \A r \in Owned(stages, pl, p) : req'[r].amount = req[r].amount
    PROVE  AmountsOf(stages, pl, p)' = AmountsOf(stages, pl, p) + req'[x].amount
<1> DEFINE S == Owned(stages, pl, p)
           T == S \cup {x}
           a == [r \in S |-> req[r].amount]
           b == [r \in T |-> req'[r].amount]
<1>1. IsFiniteSet(T) /\ x \in T /\ T \ {x} = S
  BY OwnedFinite, FS_AddElement
<1>2. \A r \in S : b[r] = a[r]
  OBVIOUS
<1>3. ASSUME NEW r \in T PROVE b[r] \in Nat
  <2>1. r \in Requests /\ req'[r].status \in stages
    BY DEF Owned
  <2>2. req'[r] \in RequestRow
    BY <2>1 DEF TypeOK, NoRequest, OPEN, Released, Approved
  <2> QED
    BY <2>2 DEF RequestRow
<1>4. AmountsOf(stages, pl, p)' = Sum(b, T)
  BY DEF AmountsOf
<1>5. AmountsOf(stages, pl, p) = Sum(a, S)
  BY DEF AmountsOf
<1>6. b[x] = req'[x].amount
  OBVIOUS
<1> HIDE DEF S, T, a, b
<1>7. Sum(b, T) = Sum(a, S) + b[x]
  BY <1>1, <1>2, <1>3, SumGain
<1> QED
  BY <1>4, <1>5, <1>6, <1>7

\* A step that takes one request out of the stages removes its amount.
LEMMA AmountsLoss ==
    ASSUME TypeOK, NEW stages \in SUBSET (OPEN \cup Released \cup Approved),
           NEW pl, NEW p, NEW x \in Owned(stages, pl, p),
           Owned(stages, pl, p)' = Owned(stages, pl, p) \ {x},
           \A r \in Owned(stages, pl, p) : req'[r].amount = req[r].amount
    PROVE  AmountsOf(stages, pl, p)' = AmountsOf(stages, pl, p) - req[x].amount
<1> DEFINE S == Owned(stages, pl, p)
           T == S \ {x}
           a == [r \in S |-> req[r].amount]
           b == [r \in T |-> req'[r].amount]
<1>1. IsFiniteSet(S) /\ x \in S
  BY OwnedFinite
<1>2. \A r \in S \ {x} : b[r] = a[r]
  OBVIOUS
<1>3. ASSUME NEW r \in S PROVE a[r] \in Nat
  BY OwnedAmount
<1>4. AmountsOf(stages, pl, p)' = Sum(b, T)
  BY DEF AmountsOf
<1>5. AmountsOf(stages, pl, p) = Sum(a, S)
  BY DEF AmountsOf
<1>6. a[x] = req[x].amount
  OBVIOUS
<1> HIDE DEF S, a, b
<1>7. Sum(b, S \ {x}) = Sum(a, S) - a[x]
  BY <1>1, <1>2, <1>3, SumLoss
<1> QED
  BY <1>4, <1>5, <1>6, <1>7

\* Posting to another kind leaves the total of a kind alone.
LEMMA PlusOther ==
    ASSUME NEW l \in [Kinds -> Nat], NEW k \in Kinds, NEW m \in Kinds \ {k}, NEW n \in Nat
    PROVE  Plus(l, k, n)[m] = l[m]
BY DEF Plus

\* The kinds that crediting, adjusting and closing never touch.
Booked == {"reserve", "release", "spend"}

\* A step that keeps the requests and the booked totals keeps them in agreement.
LEMMA QuietStep ==
    ASSUME RegisterMatchesRequests, req' = req,
           \A pl \in Plans, p \in Persons, k \in Booked : led'[pl][p][k] = led[pl][p][k]
    PROVE  RegisterMatchesRequests'
<1>1. \A stages, pl, p : AmountsOf(stages, pl, p)' = AmountsOf(stages, pl, p)
  BY DEF AmountsOf, Owned
<1> QED
  BY <1>1 DEF RegisterMatchesRequests, Booked

\* A step that moves no request between open, approved and released is quiet too.
LEMMA SameStagesStep ==
    ASSUME RegisterMatchesRequests, led' = led,
           \A r \in Requests :
              \/ req'[r] = req[r]
              \/ \E stages \in {OPEN, Approved} :
                    /\ req[r].status \in stages /\ req'[r].status \in stages
                    /\ req'[r].plan = req[r].plan /\ req'[r].person = req[r].person
                    /\ req'[r].amount = req[r].amount
    PROVE  RegisterMatchesRequests'
<1>1. ASSUME NEW pl \in Plans, NEW p \in Persons, NEW stages \in {OPEN, Approved}
      PROVE  AmountsOf(stages, pl, p)' = AmountsOf(stages, pl, p)
  <2>1. OPEN \cap Approved = {}
    BY DEF OPEN, Approved
  <2>2. Owned(stages, pl, p)' = Owned(stages, pl, p)
    BY <1>1, <2>1 DEF Owned
  <2>3. \A r \in Owned(stages, pl, p) : req'[r].amount = req[r].amount
    BY DEF Owned
  <2> QED
    BY <2>2, <2>3, AmountsSame
<1> QED
  BY <1>1 DEF RegisterMatchesRequests

LEMMA CreditSourcesQuiet ==
    ASSUME TypeOK, NEW src \in [Sources -> SourceRow \cup {None}],
           NEW due \in SUBSET {s \in Sources : src[s] # None}, NEW pops,
           CreditSources(src, due, pops),
           NEW pl \in Plans, NEW p \in Persons, NEW k \in Kinds \ {"credit"}
    PROVE  led'[pl][p][k] = led[pl][p][k]
<1>1. led[pl][p] \in [Kinds -> Nat] /\ Gain(src, due, pops, pl, p) \in Nat
  BY GainType DEF TypeOK
<1>2. led'[pl][p] = Plus(led[pl][p], "credit", Gain(src, due, pops, pl, p))
  BY DEF CreditSources
<1> QED
  BY <1>1, <1>2, PlusOther, KindNames

\* Entering one line under another kind for one person is quiet.
LEMMA PostQuiet ==
    ASSUME TypeOK, RegisterMatchesRequests, req' = req,
           NEW pl0 \in Plans, NEW p0 \in Persons, NEW m \in Kinds \ Booked, NEW n \in Nat,
           led' = [led EXCEPT ![pl0][p0] = Plus(led[pl0][p0], m, n)]
    PROVE  RegisterMatchesRequests'
<1>1. ASSUME NEW pl \in Plans, NEW p \in Persons, NEW k \in Booked
      PROVE  led'[pl][p][k] = led[pl][p][k]
  <2>1. led[pl0][p0] \in [Kinds -> Nat] /\ k \in Kinds \ {m}
    BY DEF TypeOK, Booked, Kinds
  <2>2. Plus(led[pl0][p0], m, n)[k] = led[pl0][p0][k]
    BY <2>1, PlusOther
  <2>3. led'[pl][p] = IF pl = pl0 /\ p = p0 THEN Plus(led[pl0][p0], m, n) ELSE led[pl][p]
    BY DEF TypeOK
  <2> QED
    BY <2>2, <2>3
<1> QED
  BY <1>1, QuietStep

LEMMA CreditQuiet ==
    ASSUME TypeOK, RegisterMatchesRequests, req' = req,
           NEW src \in [Sources -> SourceRow \cup {None}],
           NEW due \in SUBSET {s \in Sources : src[s] # None}, NEW pops,
           CreditSources(src, due, pops)
    PROVE  RegisterMatchesRequests'
<1>1. Booked \subseteq Kinds \ {"credit"}
  BY DEF Booked, Kinds
<1>2. \A pl \in Plans, p \in Persons, k \in Booked : led'[pl][p][k] = led[pl][p][k]
  BY <1>1, CreditSourcesQuiet
<1> QED
  BY <1>2, QuietStep

\* The three actions that book amounts, one lemma each.
LEMMA RegisterCreate ==
    ASSUME TypeOK, TypeOK', RegisterMatchesRequests,
           NEW r \in Requests, NEW p0 \in Persons, NEW pl0 \in Plans, NEW c \in Claims,
           CreateRequest(r, p0, pl0, c)
    PROVE  RegisterMatchesRequests'
<1>1. /\ req[r].status = "none" /\ req'[r].status = "submitted"
      /\ req'[r].plan = pl0 /\ req'[r].person = p0 /\ req'[r].amount = c.amount
      /\ \A x \in Requests \ {r} : req'[x] = req[x]
  BY DEF CreateRequest, CanCreateRequest, DoCreateRequest, TypeOK
<1>2. c.amount \in Nat
  BY ConstantsAssumption DEF ClaimType
<1> SUFFICES ASSUME NEW pl \in Plans, NEW p \in Persons
             PROVE  /\ led'[pl][p]["reserve"] - led'[pl][p]["release"] = AmountsOf(OPEN, pl, p)'
                    /\ led'[pl][p]["spend"] = AmountsOf(Approved, pl, p)'
  BY DEF RegisterMatchesRequests, OPEN, Approved
<1>3. AmountsOf(Approved, pl, p)' = AmountsOf(Approved, pl, p)
  <2>1. Owned(Approved, pl, p)' = Owned(Approved, pl, p)
    BY <1>1 DEF Owned, Approved
  <2>2. \A x \in Owned(Approved, pl, p) : req'[x].amount = req[x].amount
    BY <1>1 DEF Owned, Approved
  <2> QED
    BY <2>1, <2>2, AmountsSame
<1>4. CASE pl = pl0 /\ p = p0
  <2>1. r \notin Owned(OPEN, pl, p)
    BY <1>1 DEF Owned, OPEN
  <2>2. Owned(OPEN, pl, p)' = Owned(OPEN, pl, p) \cup {r}
    BY <1>1, <1>4 DEF Owned, OPEN
  <2>3. \A x \in Owned(OPEN, pl, p) : req'[x].amount = req[x].amount
    BY <1>1, <2>1 DEF Owned
  <2>4. AmountsOf(OPEN, pl, p)' = AmountsOf(OPEN, pl, p) + c.amount
    BY <1>1, <2>1, <2>2, <2>3, AmountsGain
  <2>5. led[pl][p] \in [Kinds -> Nat] /\ led'[pl][p] = Plus(led[pl][p], "reserve", c.amount)
    BY <1>4 DEF CreateRequest, DoCreateRequest, TypeOK
  <2>6. /\ led'[pl][p]["reserve"] = led[pl][p]["reserve"] + c.amount
        /\ led'[pl][p]["release"] = led[pl][p]["release"]
        /\ led'[pl][p]["spend"] = led[pl][p]["spend"]
    BY <2>5, KindNames DEF Plus
  <2>7. AmountsOf(OPEN, pl, p) \in Nat
    BY AmountsType
  <2>8. led[pl][p]["reserve"] \in Nat /\ led[pl][p]["release"] \in Nat
    BY <2>5, KindNames
  <2> QED
    BY <1>2, <1>3, <2>4, <2>6, <2>7, <2>8 DEF RegisterMatchesRequests
<1>5. CASE ~ (pl = pl0 /\ p = p0)
  <2>1. Owned(OPEN, pl, p)' = Owned(OPEN, pl, p)
    BY <1>1, <1>5 DEF Owned, OPEN
  <2>2. \A x \in Owned(OPEN, pl, p) : req'[x].amount = req[x].amount
    BY <1>1 DEF Owned, OPEN
  <2>3. AmountsOf(OPEN, pl, p)' = AmountsOf(OPEN, pl, p)
    BY <2>1, <2>2, AmountsSame
  <2>4. led'[pl][p] = led[pl][p]
    BY <1>5 DEF CreateRequest, DoCreateRequest, TypeOK
  <2> QED
    BY <1>3, <2>3, <2>4 DEF RegisterMatchesRequests
<1> QED
  BY <1>4, <1>5

\* What leaves the open requests when r is decided or cancelled.
LEMMA OpenLoss ==
    ASSUME TypeOK, NEW r \in Requests, req[r].status \in OPEN, req'[r].status \notin OPEN,
           \A x \in Requests \ {r} : req'[x] = req[x],
           req'[r].amount = req[r].amount,
           NEW pl \in Plans, NEW p \in Persons
    PROVE  AmountsOf(OPEN, pl, p)' =
             IF pl = req[r].plan /\ p = req[r].person
             THEN AmountsOf(OPEN, pl, p) - req[r].amount ELSE AmountsOf(OPEN, pl, p)
<1>1. \A x \in Owned(OPEN, pl, p) : req'[x].amount = req[x].amount
  BY DEF Owned
<1>2. CASE pl = req[r].plan /\ p = req[r].person
  <2>1. r \in Owned(OPEN, pl, p) /\ Owned(OPEN, pl, p)' = Owned(OPEN, pl, p) \ {r}
    BY <1>2 DEF Owned
  <2> QED
    BY <1>1, <1>2, <2>1, AmountsLoss
<1>3. CASE ~ (pl = req[r].plan /\ p = req[r].person)
  <2>1. Owned(OPEN, pl, p)' = Owned(OPEN, pl, p)
    BY <1>3 DEF Owned
  <2> QED
    BY <1>1, <1>3, <2>1, AmountsSame
<1> QED
  BY <1>2, <1>3

LEMMA RegisterRelease ==
    ASSUME TypeOK, TypeOK', RegisterMatchesRequests,
           NEW r \in Requests, NEW outcome \in Released, CanDecide(r), Release(r, outcome)
    PROVE  RegisterMatchesRequests'
<1>1. req[r] \in RequestRow /\ req[r].status \in OPEN
  BY DEF CanDecide, TypeOK, OPEN, NoRequest
<1>2. req[r].plan \in Plans /\ req[r].person \in Persons /\ req[r].amount \in Nat
  BY <1>1 DEF RequestRow
<1>3. /\ req'[r].status = outcome /\ req'[r].amount = req[r].amount
      /\ \A x \in Requests \ {r} : req'[x] = req[x]
  BY <1>1 DEF Release, TypeOK, RequestRow
<1> SUFFICES ASSUME NEW pl \in Plans, NEW p \in Persons
             PROVE  /\ led'[pl][p]["reserve"] - led'[pl][p]["release"] = AmountsOf(OPEN, pl, p)'
                    /\ led'[pl][p]["spend"] = AmountsOf(Approved, pl, p)'
  BY DEF RegisterMatchesRequests, OPEN, Approved
<1>4. AmountsOf(Approved, pl, p)' = AmountsOf(Approved, pl, p)
  <2>1. Owned(Approved, pl, p)' = Owned(Approved, pl, p)
    BY <1>1, <1>3 DEF Owned, OPEN, Approved, Released
  <2>2. \A x \in Owned(Approved, pl, p) : req'[x].amount = req[x].amount
    BY <1>3 DEF Owned
  <2> QED
    BY <2>1, <2>2, AmountsSame
<1>5. AmountsOf(OPEN, pl, p)' =
        IF pl = req[r].plan /\ p = req[r].person
        THEN AmountsOf(OPEN, pl, p) - req[r].amount ELSE AmountsOf(OPEN, pl, p)
  BY <1>1, <1>3, OpenLoss DEF OPEN, Released
<1>6. AmountsOf(OPEN, pl, p) \in Nat /\ led[pl][p] \in [Kinds -> Nat]
  BY AmountsType DEF TypeOK
<1>7. led'[pl][p] = IF pl = req[r].plan /\ p = req[r].person
                    THEN Plus(led[pl][p], "release", req[r].amount) ELSE led[pl][p]
  BY <1>2 DEF Release, TypeOK
<1>8. /\ led'[pl][p]["reserve"] = led[pl][p]["reserve"]
      /\ led'[pl][p]["spend"] = led[pl][p]["spend"]
      /\ led'[pl][p]["release"] = IF pl = req[r].plan /\ p = req[r].person
                                  THEN led[pl][p]["release"] + req[r].amount
                                  ELSE led[pl][p]["release"]
  BY <1>6, <1>7, KindNames DEF Plus
<1>9. led[pl][p]["reserve"] \in Nat /\ led[pl][p]["release"] \in Nat
  BY <1>6, KindNames
<1> QED
  BY <1>2, <1>4, <1>5, <1>6, <1>8, <1>9 DEF RegisterMatchesRequests

LEMMA RegisterApprove ==
    ASSUME TypeOK, TypeOK', RegisterMatchesRequests,
           NEW r \in Requests, CanDecide(r), DoApprove(r)
    PROVE  RegisterMatchesRequests'
<1>1. req[r] \in RequestRow /\ req[r].status \in OPEN
  BY DEF CanDecide, TypeOK, OPEN, NoRequest
<1>2. req[r].plan \in Plans /\ req[r].person \in Persons /\ req[r].amount \in Nat
  BY <1>1 DEF RequestRow
<1>3. /\ req'[r].status \in {"approved", "fulfilled"}
      /\ req'[r].amount = req[r].amount
      /\ req'[r].plan = req[r].plan /\ req'[r].person = req[r].person
      /\ \A x \in Requests \ {r} : req'[x] = req[x]
  BY <1>1 DEF DoApprove, TypeOK, RequestRow
<1> SUFFICES ASSUME NEW pl \in Plans, NEW p \in Persons
             PROVE  /\ led'[pl][p]["reserve"] - led'[pl][p]["release"] = AmountsOf(OPEN, pl, p)'
                    /\ led'[pl][p]["spend"] = AmountsOf(Approved, pl, p)'
  BY DEF RegisterMatchesRequests, OPEN, Approved
<1>4. AmountsOf(OPEN, pl, p)' =
        IF pl = req[r].plan /\ p = req[r].person
        THEN AmountsOf(OPEN, pl, p) - req[r].amount ELSE AmountsOf(OPEN, pl, p)
  BY <1>1, <1>3, OpenLoss DEF OPEN
<1>5. AmountsOf(Approved, pl, p)' =
        IF pl = req[r].plan /\ p = req[r].person
        THEN AmountsOf(Approved, pl, p) + req[r].amount ELSE AmountsOf(Approved, pl, p)
  <2>1. r \notin Owned(Approved, pl, p)
    BY <1>1 DEF Owned, OPEN, Approved
  <2>2. \A x \in Owned(Approved, pl, p) : req'[x].amount = req[x].amount
    BY <1>3, <2>1 DEF Owned
  <2>3. CASE pl = req[r].plan /\ p = req[r].person
    <3>1. Owned(Approved, pl, p)' = Owned(Approved, pl, p) \cup {r}
      BY <1>3, <2>3 DEF Owned, Approved
    <3> QED
      BY <1>3, <2>1, <2>2, <2>3, <3>1, AmountsGain
  <2>4. CASE ~ (pl = req[r].plan /\ p = req[r].person)
    <3>1. Owned(Approved, pl, p)' = Owned(Approved, pl, p)
      BY <1>3, <2>1, <2>4 DEF Owned
    <3> QED
      BY <2>2, <2>4, <3>1, AmountsSame
  <2> QED
    BY <2>3, <2>4
<1>6. /\ AmountsOf(OPEN, pl, p) \in Nat /\ AmountsOf(Approved, pl, p) \in Nat
      /\ led[pl][p] \in [Kinds -> Nat]
  BY AmountsType DEF TypeOK
<1>7. led'[pl][p] = IF pl = req[r].plan /\ p = req[r].person
                    THEN Plus(Plus(led[pl][p], "release", req[r].amount), "spend", req[r].amount)
                    ELSE led[pl][p]
  BY <1>2 DEF DoApprove, TypeOK
<1>8. /\ led'[pl][p]["reserve"] = led[pl][p]["reserve"]
      /\ led'[pl][p]["release"] = IF pl = req[r].plan /\ p = req[r].person
                                  THEN led[pl][p]["release"] + req[r].amount
                                  ELSE led[pl][p]["release"]
      /\ led'[pl][p]["spend"] = IF pl = req[r].plan /\ p = req[r].person
                                THEN led[pl][p]["spend"] + req[r].amount
                                ELSE led[pl][p]["spend"]
  BY <1>6, <1>7, KindNames DEF Plus
<1>9. /\ led[pl][p]["reserve"] \in Nat /\ led[pl][p]["release"] \in Nat
      /\ led[pl][p]["spend"] \in Nat
  BY <1>6, KindNames
<1> QED
  BY <1>2, <1>4, <1>5, <1>6, <1>8, <1>9 DEF RegisterMatchesRequests

LEMMA RegisterStep ==
    ASSUME TypeOK, TypeOK', RegisterMatchesRequests, [Next]_vars
    PROVE  RegisterMatchesRequests'
<1>1. CASE RunReminders
  <2>1. Due(source, ActivePlans) \in SUBSET {s \in Sources : source[s] # None}
    BY DEF Due
  <2>2. source \in [Sources -> SourceRow \cup {None}]
    BY DEF TypeOK
  <2> QED
    BY <1>1, <2>1, <2>2, CreditQuiet DEF RunReminders, DoRunReminders
<1>2. ASSUME NEW pl \in Plans, ActivatePlan(pl) PROVE RegisterMatchesRequests'
  <2>1. Due(source, {pl}) \in SUBSET {s \in Sources : source[s] # None}
    BY DEF Due
  <2>2. source \in [Sources -> SourceRow \cup {None}]
    BY DEF TypeOK
  <2> QED
    BY <1>2, <2>1, <2>2, CreditQuiet DEF ActivatePlan, DoActivatePlan
<1>3. ASSUME NEW s \in Sources, NEW pl \in Plans, NEW f \in SourceForms, AddSource(s, pl, f)
      PROVE  RegisterMatchesRequests'
  <2> DEFINE row == [plan |-> pl, amount |-> f.amount, day |-> f.day,
                     premium |-> f.premium, credited |-> FALSE]
             src == [source EXCEPT ![s] = row]
             due == Due(src, {pl} \cap ActivePlans)
  <2>1. f \in SourceType
    BY ConstantsAssumption
  <2>2. row \in SourceRow
    BY <2>1 DEF SourceType, SourceRow
  <2>3. src \in [Sources -> SourceRow \cup {None}]
    BY <2>2 DEF TypeOK
  <2>4. due \in SUBSET {x \in Sources : src[x] # None}
    BY DEF Due
  <2>5. CreditSources(src, due, ApiPopulations) /\ req' = req
    BY <1>3 DEF AddSource, DoAddSource, WithSource
  <2> HIDE DEF src, due
  <2> QED
    BY <2>3, <2>4, <2>5, CreditQuiet
<1>4. ASSUME NEW pl \in Plans, ClosePlan(pl) PROVE RegisterMatchesRequests'
  <2>1. ASSUME NEW x \in Plans, NEW p \in Persons, NEW k \in Booked
        PROVE  led'[x][p][k] = led[x][p][k]
    <3>1. led[x][p] \in [Kinds -> Nat] /\ k \in Kinds \ {"expire"}
      BY DEF TypeOK, Booked, Kinds
    <3>2. led'[x][p] = IF x = pl THEN Plus(led[x][p], "expire", Lost(pl, p)) ELSE led[x][p]
      BY <1>4 DEF ClosePlan, DoClosePlan, TypeOK
    <3> QED
      BY <3>1, <3>2 DEF Plus
  <2> QED
    BY <1>4, <2>1, QuietStep DEF ClosePlan, DoClosePlan
<1>5. ASSUME NEW pl \in Plans, NEW p \in Persons, NEW n \in Adjustments, Adjust(pl, p, n)
      PROVE  RegisterMatchesRequests'
  <2>1. n \in Int /\ "recharge" \in Kinds \ Booked /\ "clawback" \in Kinds \ Booked
    BY ConstantsAssumption DEF Kinds, Booked
  <2>2. CASE n >= 0
    <3>1. n \in Nat
      BY <2>1, <2>2
    <3>2. led' = [led EXCEPT ![pl][p] = Plus(led[pl][p], "recharge", n)] /\ req' = req
      BY <1>5, <2>2 DEF Adjust
    <3> QED
      BY <2>1, <3>1, <3>2, PostQuiet
  <2>3. CASE ~ n >= 0
    <3>1. -n \in Nat
      BY <2>1, <2>3
    <3>2. led' = [led EXCEPT ![pl][p] = Plus(led[pl][p], "clawback", -n)] /\ req' = req
      BY <1>5, <2>3 DEF Adjust
    <3> QED
      BY <2>1, <3>1, <3>2, PostQuiet
  <2> QED
    BY <2>2, <2>3
<1>6. ASSUME NEW p \in Persons, NEW pl \in Plans, NEW percent \in UNION {t.percents : t \in Terms},
             ChoosePremium(p, pl, percent)
      PROVE  RegisterMatchesRequests'
  <2>1. terms[pl] \in TermsType /\ percent \in terms[pl].percents
    BY <1>6, ConstantsAssumption DEF ChoosePremium, CanChoosePremium, TypeOK
  <2>2. RoundPercent(terms[pl].premium, percent) \in Nat
    BY <2>1, RoundPercentType DEF TermsType
  <2>3. "credit" \in Kinds \ Booked
    BY DEF Kinds, Booked
  <2>4. /\ req' = req
        /\ led' = [led EXCEPT ![pl][p] =
                    Plus(led[pl][p], "credit", RoundPercent(terms[pl].premium, percent))]
    BY <1>6 DEF ChoosePremium, DoChoosePremium
  <2> QED
    BY <2>2, <2>3, <2>4, PostQuiet
<1>7. ASSUME NEW r \in Requests, NEW p \in Persons, NEW pl \in Plans, NEW k \in Claims,
             CreateRequest(r, p, pl, k)
      PROVE  RegisterMatchesRequests'
  BY <1>7, RegisterCreate
<1>8. ASSUME NEW r \in Requests, CancelRequest(r) \/ RejectRequest(r)
      PROVE  RegisterMatchesRequests'
  BY <1>8, RegisterRelease DEF CancelRequest, RejectRequest, Released
<1>9. ASSUME NEW r \in Requests, ApproveRequest(r) PROVE RegisterMatchesRequests'
  BY <1>9, RegisterApprove DEF ApproveRequest
<1>10. ASSUME NEW r \in Requests, AskForDocs(r) PROVE RegisterMatchesRequests'
  <2>1. req[r] \in RequestRow /\ req[r].status \in OPEN
    BY <1>10 DEF AskForDocs, SetNeedsDocs, CanDecide, TypeOK, OPEN, NoRequest
  <2>2. req' = [req EXCEPT ![r].status = "needs_docs"] /\ led' = led
    BY <1>10 DEF AskForDocs, SetNeedsDocs
  <2>3. /\ req'[r].status \in OPEN /\ req'[r].amount = req[r].amount
        /\ req'[r].plan = req[r].plan /\ req'[r].person = req[r].person
        /\ \A x \in Requests \ {r} : req'[x] = req[x]
    BY <2>1, <2>2 DEF RequestRow, TypeOK, OPEN
  <2> QED
    BY <2>1, <2>2, <2>3, SameStagesStep
<1>11. ASSUME NEW b \in Batches, CreateBatch(b) PROVE RegisterMatchesRequests'
  <2>1. led' = led
    BY <1>11 DEF CreateBatch, DoCreateBatch
  <2>2. ASSUME NEW r \in ToPay
        PROVE  /\ req[r].status \in Approved /\ req'[r].status \in Approved
               /\ req'[r].amount = req[r].amount
               /\ req'[r].plan = req[r].plan /\ req'[r].person = req[r].person
    <3>1. r \in Requests /\ req[r].status = "approved"
      BY DEF ToPay
    <3>2. req[r] \in RequestRow
      BY <3>1 DEF TypeOK, NoRequest
    <3>3. req'[r] = [req[r] EXCEPT !.status = "in_payroll", !.batch = b]
      BY <1>11, <3>1 DEF CreateBatch, DoCreateBatch
    <3> QED
      BY <3>1, <3>2, <3>3 DEF RequestRow, Approved
  <2>3. \A r \in Requests \ ToPay : req'[r] = req[r]
    BY <1>11 DEF CreateBatch, DoCreateBatch
  <2> QED
    BY <2>1, <2>2, <2>3, SameStagesStep
<1>12. ASSUME NEW b \in Batches, ConfirmBatch(b) PROVE RegisterMatchesRequests'
  <2>1. led' = led
    BY <1>12 DEF ConfirmBatch, DoConfirmBatch
  <2>2. ASSUME NEW r \in Requests, req[r].status = "in_payroll", req'[r] # req[r]
        PROVE  /\ req[r].status \in Approved /\ req'[r].status \in Approved
               /\ req'[r].amount = req[r].amount
               /\ req'[r].plan = req[r].plan /\ req'[r].person = req[r].person
    <3>1. req[r] \in RequestRow
      BY <2>2 DEF TypeOK, NoRequest
    <3>2. req'[r] = [req[r] EXCEPT !.status = "paid"]
      BY <1>12, <2>2 DEF ConfirmBatch, DoConfirmBatch
    <3> QED
      BY <2>2, <3>1, <3>2 DEF RequestRow, Approved
  <2>3. \A r \in Requests : req[r].status # "in_payroll" => req'[r] = req[r]
    BY <1>12 DEF ConfirmBatch, DoConfirmBatch
  <2> QED
    BY <2>1, <2>2, <2>3, SameStagesStep
<1>13. CASE UNCHANGED <<req, led>>
  BY <1>13, QuietStep
<1> QED
  <2>1. CASE UNCHANGED vars
    BY <1>13, <2>1 DEF vars
  <2>2. CASE Next
    BY <1>1, <1>2, <1>3, <1>4, <1>5, <1>6, <1>7, <1>8, <1>9, <1>10, <1>11, <1>12, <1>13,
       <2>2 DEF Next, CreatePlan, UpdatePlan, UpsertCategory, PutThresholds, LoadPresets,
        Declare, Hire, Leave, Tick
  <2> QED
    BY <2>1, <2>2

LEMMA RegisterInit == Init => RegisterMatchesRequests
<1> SUFFICES ASSUME Init PROVE RegisterMatchesRequests
  OBVIOUS
<1>1. ASSUME NEW stages \in {OPEN, Approved}, NEW pl, NEW p
      PROVE  AmountsOf(stages, pl, p) = 0
  <2>1. Owned(stages, pl, p) = {}
    BY DEF Init, Owned, NoRequest, OPEN, Approved
  <2> QED
    BY <2>1, SumEmpty DEF AmountsOf
<1> QED
  BY <1>1 DEF Init, RegisterMatchesRequests, Kinds

\* The reserved and spent totals of every account are those of its open and
\* approved requests, whatever the number of requests, plans and people.
THEOREM RegisterCorrect == Spec => []RegisterMatchesRequests
<1>1. TypeOK /\ TypeOK' /\ RegisterMatchesRequests /\ [Next]_vars => RegisterMatchesRequests'
  BY RegisterStep
<1> QED
  BY <1>1, RegisterInit, TypeCorrect, PTL DEF Spec

-------------------------------------------------------------------------------
(* Solvency *)

\* What is left of the credit once reservations count, adjustments aside.
Cover(l) == l["credit"] + l["recharge"] - l["spend"] - l["expire"] - (l["reserve"] - l["release"])

\* The reserved total is never negative, so the floor in computeBalance is idle.
LEMMA CoverIsAvailable ==
    ASSUME TypeOK, RegisterMatchesRequests, NEW pl \in Plans, NEW p \in Persons
    PROVE  Available(led[pl][p]) + led[pl][p]["clawback"] = Cover(led[pl][p])
<1>1. led[pl][p] \in [Kinds -> Nat]
  BY DEF TypeOK
<1>2. led[pl][p]["reserve"] - led[pl][p]["release"] \in Nat
  BY AmountsType DEF RegisterMatchesRequests
<1> QED
  BY <1>1, <1>2, KindNames DEF Cover, Available, Balance, Floor0

\* What one entry does to the cover.
LEMMA CoverPlus ==
    ASSUME NEW l \in [Kinds -> Nat], NEW n \in Nat
    PROVE  /\ Cover(Plus(l, "credit", n)) = Cover(l) + n
           /\ Cover(Plus(l, "recharge", n)) = Cover(l) + n
           /\ Cover(Plus(l, "clawback", n)) = Cover(l)
           /\ Cover(Plus(l, "reserve", n)) = Cover(l) - n
           /\ Cover(Plus(l, "release", n)) = Cover(l) + n
           /\ Cover(Plus(Plus(l, "release", n), "spend", n)) = Cover(l)
           /\ Cover(l) \in Int
BY KindNames DEF Cover, Plus

\* No step on a plan that stays open lowers the cover below zero.
LEMMA CoverStep ==
    ASSUME TypeOK, [Next]_vars, NEW pl \in Plans, NEW p \in Persons,
           status[pl] # "closed", status'[pl] # "closed",
           Available(led[pl][p]) + led[pl][p]["clawback"] = Cover(led[pl][p]),
           Cover(led[pl][p]) >= 0
    PROVE  Cover(led'[pl][p]) >= 0
<1> DEFINE l == led[pl][p]
<1> USE DEF TypeOK
<1>0. l \in [Kinds -> Nat] /\ Cover(l) \in Int
  BY CoverPlus
<1>1. ASSUME NEW src \in [Sources -> SourceRow \cup {None}],
             NEW due \in SUBSET {s \in Sources : src[s] # None}, NEW pops,
             CreditSources(src, due, pops)
      PROVE  Cover(led'[pl][p]) >= 0
  <2>1. Gain(src, due, pops, pl, p) \in Nat
    BY GainType
  <2>2. led'[pl][p] = Plus(l, "credit", Gain(src, due, pops, pl, p))
    BY <1>1 DEF CreditSources
  <2>3. Cover(led'[pl][p]) = Cover(l) + Gain(src, due, pops, pl, p)
    BY <1>0, <2>1, <2>2, CoverPlus
  <2> QED
    BY <1>0, <2>1, <2>3
<1>2. CASE RunReminders
  <2>1. Due(source, ActivePlans) \in SUBSET {s \in Sources : source[s] # None}
    BY DEF Due
  <2> QED
    BY <1>1, <1>2, <2>1 DEF RunReminders, DoRunReminders
<1>3. ASSUME NEW x \in Plans, ActivatePlan(x) PROVE Cover(led'[pl][p]) >= 0
  <2>1. Due(source, {x}) \in SUBSET {s \in Sources : source[s] # None}
    BY DEF Due
  <2> QED
    BY <1>1, <1>3, <2>1 DEF ActivatePlan, DoActivatePlan
<1>4. ASSUME NEW s \in Sources, NEW x \in Plans, NEW f \in SourceForms, AddSource(s, x, f)
      PROVE  Cover(led'[pl][p]) >= 0
  <2> DEFINE row == [plan |-> x, amount |-> f.amount, day |-> f.day,
                     premium |-> f.premium, credited |-> FALSE]
             src == [source EXCEPT ![s] = row]
             due == Due(src, {x} \cap ActivePlans)
  <2>1. f \in SourceType
    BY ConstantsAssumption
  <2>2. row \in SourceRow
    BY <2>1 DEF SourceType, SourceRow
  <2>3. src \in [Sources -> SourceRow \cup {None}]
    BY <2>2
  <2>4. due \in SUBSET {y \in Sources : src[y] # None}
    BY DEF Due
  <2>5. CreditSources(src, due, ApiPopulations)
    BY <1>4 DEF AddSource, DoAddSource, WithSource
  <2> HIDE DEF src, due
  <2> QED
    BY <1>1, <2>3, <2>4, <2>5
<1>5. ASSUME NEW x \in Plans, ClosePlan(x) PROVE Cover(led'[pl][p]) >= 0
  <2>1. x # pl
    BY <1>5 DEF ClosePlan, DoClosePlan
  <2>2. led'[pl] = led[pl]
    BY <1>5, <2>1 DEF ClosePlan, DoClosePlan
  <2> QED
    BY <2>2
<1>6. ASSUME NEW x \in Plans, NEW y \in Persons, NEW n \in Adjustments, Adjust(x, y, n)
      PROVE  Cover(led'[pl][p]) >= 0
  <2>1. n \in Int
    BY ConstantsAssumption
  <2>2. CASE n >= 0
    <3>1. n \in Nat
      BY <2>1, <2>2
    <3>2. led'[pl][p] = l \/ led'[pl][p] = Plus(l, "recharge", n)
      BY <1>6, <2>2 DEF Adjust
    <3>3. Cover(Plus(l, "recharge", n)) = Cover(l) + n
      BY <1>0, <3>1, CoverPlus
    <3> QED
      BY <1>0, <3>1, <3>2, <3>3
  <2>3. CASE ~ n >= 0
    <3>1. -n \in Nat
      BY <2>1, <2>3
    <3>2. led'[pl][p] = l \/ led'[pl][p] = Plus(l, "clawback", -n)
      BY <1>6, <2>3 DEF Adjust
    <3>3. Cover(Plus(l, "clawback", -n)) = Cover(l)
      BY <1>0, <3>1, CoverPlus
    <3> QED
      BY <1>0, <3>2, <3>3
  <2> QED
    BY <2>2, <2>3
<1>7. ASSUME NEW y \in Persons, NEW x \in Plans, NEW percent \in UNION {t.percents : t \in Terms},
             ChoosePremium(y, x, percent)
      PROVE  Cover(led'[pl][p]) >= 0
  <2>1. terms[x] \in TermsType /\ percent \in terms[x].percents
    BY <1>7, ConstantsAssumption DEF ChoosePremium, CanChoosePremium
  <2> DEFINE n == RoundPercent(terms[x].premium, percent)
  <2>2. n \in Nat
    BY <2>1, RoundPercentType DEF TermsType
  <2>3. led'[pl][p] = l \/ led'[pl][p] = Plus(l, "credit", n)
    BY <1>7 DEF ChoosePremium, DoChoosePremium
  <2> HIDE DEF n
  <2> QED
    BY <1>0, <2>2, <2>3, CoverPlus
<1>8. ASSUME NEW r \in Requests, NEW y \in Persons, NEW x \in Plans, NEW k \in Claims,
             CreateRequest(r, y, x, k)
      PROVE  Cover(led'[pl][p]) >= 0
  <2>1. k.amount \in Nat
    BY ConstantsAssumption DEF ClaimType
  <2>2. CASE x = pl /\ y = p
    <3>1. led'[pl][p] = Plus(l, "reserve", k.amount)
      BY <1>8, <2>2 DEF CreateRequest, DoCreateRequest
    <3>2. k.amount <= Available(l)
      BY <1>8, <2>2 DEF CreateRequest, CanCreateRequest
    <3>3. l["clawback"] \in Nat /\ Available(l) \in Int
      BY <1>0, KindNames DEF Available, Balance, Floor0
    <3>4. Available(l) <= Cover(l)
      BY <1>0, <3>3
    <3>5. Cover(Plus(l, "reserve", k.amount)) = Cover(l) - k.amount
      BY <1>0, <2>1, CoverPlus
    <3> QED
      BY <1>0, <2>1, <3>1, <3>2, <3>3, <3>4, <3>5
  <2>3. CASE ~ (x = pl /\ y = p)
    BY <1>8, <2>3 DEF CreateRequest, DoCreateRequest
  <2> QED
    BY <2>2, <2>3
<1>9. ASSUME NEW r \in Requests,
             CancelRequest(r) \/ RejectRequest(r) \/ ApproveRequest(r)
      PROVE  Cover(led'[pl][p]) >= 0
  <2>1. CanDecide(r) /\ (DoApprove(r) \/ \E outcome \in Released : Release(r, outcome))
    BY <1>9 DEF CancelRequest, RejectRequest, ApproveRequest, Released
  <2>2. req[r] \in RequestRow
    BY <2>1 DEF CanDecide, OPEN, NoRequest
  <2> DEFINE n == req[r].amount
  <2>3. n \in Nat
    BY <2>2 DEF RequestRow
  <2> DEFINE pl0 == req[r].plan
             p0 == req[r].person
  <2>4. \/ led' = [led EXCEPT ![pl0][p0] = Plus(led[pl0][p0], "release", n)]
        \/ led' = [led EXCEPT ![pl0][p0] =
                     Plus(Plus(led[pl0][p0], "release", n), "spend", n)]
    BY <2>1 DEF DoApprove, Release
  <2>5. pl0 \in Plans /\ p0 \in Persons
    BY <2>2 DEF RequestRow
  <2> HIDE DEF n, pl0, p0
  <2>6. \/ led'[pl][p] = l
        \/ led'[pl][p] = Plus(l, "release", n)
        \/ led'[pl][p] = Plus(Plus(l, "release", n), "spend", n)
    <3>1. ASSUME NEW row, led' = [led EXCEPT ![pl0][p0] = row]
          PROVE  led'[pl][p] = IF pl = pl0 /\ p = p0 THEN row ELSE l
      BY <2>5, <3>1
    <3>2. CASE led' = [led EXCEPT ![pl0][p0] = Plus(led[pl0][p0], "release", n)]
      BY <3>1, <3>2
    <3>3. CASE led' = [led EXCEPT ![pl0][p0] =
                        Plus(Plus(led[pl0][p0], "release", n), "spend", n)]
      BY <3>1, <3>3
    <3> QED
      BY <2>4, <3>2, <3>3
  <2>7. /\ Cover(Plus(l, "release", n)) = Cover(l) + n
        /\ Cover(Plus(Plus(l, "release", n), "spend", n)) = Cover(l)
    BY <1>0, <2>3, CoverPlus
  <2> QED
    BY <1>0, <2>3, <2>6, <2>7
<1>10. CASE led' = led
  BY <1>10
<1> QED
  <2>1. CASE UNCHANGED vars
    BY <1>10, <2>1 DEF vars
  <2>2. CASE Next
    BY <1>2, <1>3, <1>4, <1>5, <1>6, <1>7, <1>8, <1>9, <1>10, <2>2 DEF Next, CreatePlan,
        UpdatePlan, AskForDocs, SetNeedsDocs, CreateBatch, DoCreateBatch, ConfirmBatch, DoConfirmBatch,
        UpsertCategory, PutThresholds, LoadPresets, Declare, Hire, Leave, Tick
  <2> QED
    BY <2>1, <2>2

\* No step opens a closed plan.
LEMMA ClosedStaysClosed ==
    ASSUME TypeOK, [Next]_vars, NEW pl \in Plans, status[pl] = "closed"
    PROVE  status'[pl] = "closed"
<1>1. CASE UNCHANGED status
  BY <1>1
<1>2. ASSUME NEW x \in Plans, NEW t \in Terms, CreatePlan(x, t) PROVE status'[pl] = "closed"
  BY <1>2 DEF CreatePlan, TypeOK
<1>3. ASSUME NEW x \in Plans, ActivatePlan(x) \/ ClosePlan(x) PROVE status'[pl] = "closed"
  BY <1>3 DEF ActivatePlan, CanActivatePlan, DoActivatePlan, ClosePlan, CanClosePlan,
      DoClosePlan, TypeOK
<1> QED
  <2>1. CASE UNCHANGED vars
    BY <1>1, <2>1 DEF vars
  <2>2. CASE Next
    BY <1>1, <1>2, <1>3, <2>2 DEF Next, RunReminders, DoRunReminders, UpdatePlan, AddSource, DoAddSource, WithSource, Adjust,
        ChoosePremium, DoChoosePremium, CreateRequest, DoCreateRequest, CancelRequest,
        RejectRequest, Release, ApproveRequest, DoApprove, AskForDocs, SetNeedsDocs, CreateBatch,
        DoCreateBatch, ConfirmBatch, DoConfirmBatch, UpsertCategory, PutThresholds,
        LoadPresets, Declare, Hire, Leave, Tick
  <2> QED
    BY <2>1, <2>2

\* The inductive form of solvency: the same bound without the floor.
Covered ==
    \A pl \in Plans, p \in Persons : status[pl] # "closed" => Cover(led[pl][p]) >= 0

LEMMA CoveredIsSolvent == TypeOK /\ RegisterMatchesRequests => (Covered <=> Solvent)
BY CoverIsAvailable DEF Covered, Solvent

LEMMA CoveredStep ==
    ASSUME TypeOK, RegisterMatchesRequests, Covered, [Next]_vars
    PROVE  Covered'
<1> SUFFICES ASSUME NEW pl \in Plans, NEW p \in Persons, status'[pl] # "closed"
             PROVE  Cover(led'[pl][p]) >= 0
  BY DEF Covered, Cover
<1>1. status[pl] # "closed"
  BY ClosedStaysClosed
<1>2. Available(led[pl][p]) + led[pl][p]["clawback"] = Cover(led[pl][p])
  BY CoverIsAvailable
<1>3. Cover(led[pl][p]) >= 0
  BY <1>1 DEF Covered
<1> QED
  BY <1>1, <1>2, <1>3, CoverStep

LEMMA CoveredInit == Init => Covered
<1> SUFFICES ASSUME Init, NEW pl \in Plans, NEW p \in Persons PROVE Cover(led[pl][p]) = 0
  BY DEF Covered
<1>1. led[pl][p] = [k \in Kinds |-> 0]
  BY DEF Init
<1> QED
  BY <1>1, KindNames DEF Cover

\* No sequence of requests, decisions, credits and lots spends or commits more
\* than the credit of a plan that is not closed, negative adjustments aside.
THEOREM AlwaysSolvent == Spec => []Solvent
<1>1. TypeOK /\ RegisterMatchesRequests /\ Covered /\ [Next]_vars => Covered'
  BY CoveredStep
<1> QED
  BY <1>1, CoveredInit, CoveredIsSolvent, TypeCorrect, RegisterCorrect, PTL DEF Spec

-------------------------------------------------------------------------------
(* Sources *)

\* Due sources are rows that are neither marked nor premium sources.
Uncredited(src) == {s \in Sources : src[s] # None /\ ~ src[s].credited /\ ~ src[s].premium}

\* CreditedOnce has two parts, the second of which needs more to be inductive: a
\* credit of a premium source goes back to a choice recorded in its plan.
Marked(src) ==
    \A s \in Sources, p \in Persons :
        src[s] = None \/ ~ src[s].premium =>
            credits[s][p] <= IF src[s] # None /\ src[s].credited THEN 1 ELSE 0
Alone ==
    \A pl \in Plans, p \in Persons : \A s, z \in PremiumOf(pl) :
        /\ credits[s][p] <= 1
        /\ credits[s][p] > 0 /\ credits[z][p] > 0 => s = z
Traced ==
    \A pl \in Plans, p \in Persons : \A s \in PremiumOf(pl) :
        credits[s][p] > 0 => chosen[pl][p] > 0
\* A step that adds premium sources nobody is credited from, and credits none.
PremiumsQuiet ==
    \A pl \in Plans, p \in Persons : \A s \in PremiumOf(pl)' :
        \/ s \in PremiumOf(pl) /\ credits'[s][p] = credits[s][p]
        \/ credits'[s][p] = 0

\* Crediting due sources that are not marked marks them and credits each once.
LEMMA CreditSourcesMarks ==
    ASSUME TypeOK, NEW src \in [Sources -> SourceRow \cup {None}],
           NEW due \in SUBSET Uncredited(src), NEW pops,
           Marked(src), CreditSources(src, due, pops)
    PROVE  Marked(source)'
<1> SUFFICES ASSUME NEW s \in Sources, NEW p \in Persons,
                    source'[s] = None \/ ~ source'[s].premium
             PROVE  credits'[s][p] <= IF source'[s] # None /\ source'[s].credited THEN 1 ELSE 0
  BY DEF Marked
<1>1. credits[s][p] \in Nat
  BY DEF TypeOK
<1>2. credits'[s][p] = credits[s][p] + IF Credited(src, due, pops, s, p) THEN 1 ELSE 0
  BY DEF CreditSources
<1>3. CASE s \in due
  <2>1. credits[s][p] <= 0
    BY <1>3 DEF Marked, Uncredited
  <2>2. source'[s] = [src[s] EXCEPT !.credited = TRUE] /\ src[s] \in SourceRow
    BY <1>3 DEF CreditSources, Uncredited
  <2>3. source'[s] \in SourceRow /\ source'[s].credited
    BY <2>2 DEF SourceRow
  <2>4. source'[s] # None
    BY <2>3, NoneAssumption
  <2> QED
    BY <1>1, <1>2, <2>1, <2>3, <2>4
<1>4. CASE s \notin due
  <2>1. source'[s] = src[s] /\ ~ Credited(src, due, pops, s, p)
    BY <1>4 DEF CreditSources, Credited
  <2>2. credits[s][p] <= IF src[s] # None /\ src[s].credited THEN 1 ELSE 0
    BY <2>1 DEF Marked
  <2> QED
    BY <1>1, <1>2, <2>1, <2>2
<1> QED
  BY <1>3, <1>4

\* It leaves the premium sources of src and their credits alone.
LEMMA CreditSourcesPremium ==
    ASSUME TypeOK, NEW src \in [Sources -> SourceRow \cup {None}],
           NEW due \in SUBSET Uncredited(src), NEW pops, CreditSources(src, due, pops),
           NEW s \in Sources, source'[s] # None, source'[s].premium, NEW p \in Persons
    PROVE  src[s] = source'[s] /\ credits'[s][p] = credits[s][p]
<1>1. s \in Sources /\ source'[s] # None /\ source'[s].premium
  OBVIOUS
<1>2. s \notin due
  <2> SUFFICES ASSUME s \in due PROVE FALSE
    OBVIOUS
  <2>1. source'[s] = [src[s] EXCEPT !.credited = TRUE] /\ src[s] \in SourceRow
    BY <1>1 DEF CreditSources, Uncredited
  <2>2. source'[s].premium = src[s].premium
    BY <2>1 DEF SourceRow
  <2> QED
    BY <1>1, <2>2 DEF Uncredited
<1>3. source'[s] = src[s] /\ ~ Credited(src, due, pops, s, p)
  BY <1>1, <1>2 DEF CreditSources, Credited
<1>4. credits[s][p] \in Nat
  BY <1>1 DEF TypeOK
<1>5. credits'[s][p] = credits[s][p] + 0
  BY <1>1, <1>3 DEF CreditSources
<1> QED
  BY <1>1, <1>3, <1>4, <1>5

LEMMA QuietKeeps ==
    ASSUME TypeOK, TypeOK', Alone, Traced, PremiumsQuiet,
           \A pl \in Plans, p \in Persons : chosen[pl][p] > 0 => chosen'[pl][p] > 0
    PROVE  Alone' /\ Traced'
<1>1. ASSUME NEW pl \in Plans, NEW p \in Persons, NEW s \in PremiumOf(pl)', credits'[s][p] > 0
      PROVE  s \in PremiumOf(pl) /\ credits'[s][p] = credits[s][p]
  BY <1>1 DEF PremiumsQuiet
<1>2. Alone'
  <2> SUFFICES ASSUME NEW pl \in Plans, NEW p \in Persons, NEW s \in PremiumOf(pl)',
                      NEW z \in PremiumOf(pl)'
               PROVE  /\ credits'[s][p] <= 1
                      /\ credits'[s][p] > 0 /\ credits'[z][p] > 0 => s = z
    BY DEF Alone
  <2>1. credits'[s][p] \in Nat
    BY DEF TypeOK, PremiumOf
  <2>2. credits'[s][p] > 0 => credits'[s][p] <= 1
    BY <1>1 DEF Alone
  <2>3. credits'[s][p] > 0 /\ credits'[z][p] > 0 => s = z
    BY <1>1 DEF Alone
  <2> QED
    BY <2>1, <2>2, <2>3
<1>3. Traced'
  BY <1>1 DEF Traced
<1> QED
  BY <1>2, <1>3

\* Crediting due sources keeps all three, whatever premium sources it comes with.
LEMMA CreditSourcesOnce ==
    ASSUME TypeOK, TypeOK', NEW src \in [Sources -> SourceRow \cup {None}],
           NEW due \in SUBSET Uncredited(src), NEW pops, CreditSources(src, due, pops),
           Marked(src), Alone, Traced, chosen' = chosen,
           \A s \in Sources : source[s] = src[s] \/ source[s] = None, Marked(source)
    PROVE  Marked(source)' /\ Alone' /\ Traced'
<1>1. Marked(source)'
  BY CreditSourcesMarks
<1>2. PremiumsQuiet
  <2> SUFFICES ASSUME NEW pl \in Plans, NEW p \in Persons, NEW s \in PremiumOf(pl)'
               PROVE  \/ s \in PremiumOf(pl) /\ credits'[s][p] = credits[s][p]
                      \/ credits'[s][p] = 0
    BY DEF PremiumsQuiet
  <2>1. s \in Sources /\ source'[s] # None /\ source'[s].plan = pl /\ source'[s].premium
    BY DEF PremiumOf
  <2>2. src[s] = source'[s] /\ credits'[s][p] = credits[s][p]
    BY <2>1, CreditSourcesPremium
  <2>5. credits[s][p] \in Nat
    BY <2>1 DEF TypeOK
  <2>3. CASE source[s] = src[s]
    BY <2>1, <2>2, <2>3 DEF PremiumOf
  <2>4. CASE source[s] = None
    <3>1. credits[s][p] <= 0
      BY <2>1, <2>4 DEF Marked
    <3> QED
      BY <2>2, <2>5, <3>1
  <2> QED
    BY <2>1, <2>3, <2>4
<1> QED
  BY <1>1, <1>2, QuietKeeps

Once == Marked(source) /\ Alone /\ Traced

\* A choice credits a person who was not credited from any premium source of the plan.
LEMMA ChoiceOnce ==
    ASSUME TypeOK, Once, NEW p \in Persons, NEW pl \in Plans, NEW amount, NEW s \in Sources,
           chosen[pl][p] = 0, PremiumSource(pl, s), DoChoosePremium(p, pl, amount, s)
    PROVE  Once'
<1>1. /\ source \in [Sources -> SourceRow \cup {None}]
      /\ credits \in [Sources -> [Persons -> Nat]]
      /\ chosen \in [Plans -> [Persons -> Nat]]
  BY DEF TypeOK
<1>2. PremiumRow(pl) \in SourceRow /\ PremiumRow(pl) # None
  BY PremiumRowType
<1>3. /\ \A z \in Sources \ {s} : source'[z] = source[z]
      /\ source'[s] = IF source[s] # None THEN source[s] ELSE PremiumRow(pl)
  BY <1>1 DEF DoChoosePremium, PremiumRow
<1>4. \A z \in Sources, q \in Persons :
          credits'[z][q] = IF z = s /\ q = p THEN credits[z][q] + 1 ELSE credits[z][q]
  BY <1>1 DEF DoChoosePremium
<1>5. \A x \in Plans, q \in Persons :
          chosen'[x][q] = IF x = pl /\ q = p THEN chosen[x][q] + 1 ELSE chosen[x][q]
  BY <1>1 DEF DoChoosePremium
<1>6. source[s] = None \/ s \in PremiumOf(pl)
  BY DEF PremiumSource
<1>7. source'[s] # None /\ source'[s].plan = pl /\ source'[s].premium
  BY <1>2, <1>3, <1>6 DEF PremiumOf, PremiumRow
<1>8. \A x \in Plans : PremiumOf(x)' \subseteq PremiumOf(x) \cup {s}
  BY <1>3 DEF PremiumOf
<1>9. \A x \in Plans : s \in PremiumOf(x)' => x = pl
  BY <1>7 DEF PremiumOf
<1>10. \A z \in PremiumOf(pl) : credits[z][p] = 0
  <2> SUFFICES ASSUME NEW z \in PremiumOf(pl) PROVE credits[z][p] = 0
    OBVIOUS
  <2>1. credits[z][p] \in Nat
    BY <1>1 DEF PremiumOf
  <2>2. ~ credits[z][p] > 0
    BY DEF Once, Traced
  <2> QED
    BY <2>1, <2>2
<1>11. ASSUME source[s] = None, NEW q \in Persons PROVE credits[s][q] = 0
  <2>1. credits[s][q] <= 0
    BY <1>11 DEF Once, Marked
  <2> QED
    BY <1>1, <2>1
<1>12. credits[s][p] = 0
  BY <1>6, <1>10, <1>11
<1>13. Marked(source)'
  <2> SUFFICES ASSUME NEW z \in Sources, NEW q \in Persons,
                      source'[z] = None \/ ~ source'[z].premium
               PROVE  credits'[z][q] <= IF source'[z] # None /\ source'[z].credited THEN 1 ELSE 0
    BY DEF Marked
  <2>1. z # s
    BY <1>7
  <2>2. source'[z] = source[z] /\ credits'[z][q] = credits[z][q]
    BY <1>3, <1>4, <2>1
  <2> QED
    BY <2>2 DEF Once, Marked
<1>14. ASSUME NEW x \in Plans, NEW q \in Persons, ~ (x = pl /\ q = p), NEW z \in PremiumOf(x)'
       PROVE  /\ credits'[z][q] = credits[z][q]
              /\ z \in PremiumOf(x) \/ credits[z][q] = 0
  <2>1. z = s => x = pl
    BY <1>9, <1>14
  <2>2. z \in Sources
    BY DEF PremiumOf
  <2>3. credits'[z][q] = credits[z][q]
    BY <1>4, <1>14, <2>1, <2>2
  <2>4. CASE source[s] = None
    BY <1>8, <1>11, <2>3, <2>4
  <2>5. CASE s \in PremiumOf(pl)
    BY <1>8, <2>1, <2>3, <2>5
  <2> QED
    BY <1>6, <2>4, <2>5
<1>15. ASSUME NEW z \in PremiumOf(pl)' PROVE credits'[z][p] = IF z = s THEN 1 ELSE 0
  <2>1. z \in Sources
    BY DEF PremiumOf
  <2>2. CASE z = s
    BY <1>4, <1>12, <2>1, <2>2
  <2>3. CASE z # s
    <3>1. z \in PremiumOf(pl)
      BY <1>8, <2>3
    <3> QED
      BY <1>4, <1>10, <2>1, <2>3, <3>1
  <2> QED
    BY <2>2, <2>3
<1>16. Alone'
  <2> SUFFICES ASSUME NEW x \in Plans, NEW q \in Persons, NEW z \in PremiumOf(x)',
                      NEW y \in PremiumOf(x)'
               PROVE  /\ credits'[z][q] <= 1
                      /\ credits'[z][q] > 0 /\ credits'[y][q] > 0 => z = y
    BY DEF Alone
  <2>1. CASE x = pl /\ q = p
    BY <1>15, <2>1
  <2>2. CASE ~ (x = pl /\ q = p)
    <3>1. credits'[z][q] = credits[z][q] /\ (z \in PremiumOf(x) \/ credits[z][q] = 0)
      BY <1>14, <2>2
    <3>2. credits'[y][q] = credits[y][q] /\ (y \in PremiumOf(x) \/ credits[y][q] = 0)
      BY <1>14, <2>2
    <3> QED
      BY <3>1, <3>2 DEF Once, Alone
  <2> QED
    BY <2>1, <2>2
<1>17. Traced'
  <2> SUFFICES ASSUME NEW x \in Plans, NEW q \in Persons, NEW z \in PremiumOf(x)',
                      credits'[z][q] > 0
               PROVE  chosen'[x][q] > 0
    BY DEF Traced
  <2>1. CASE x = pl /\ q = p
    BY <1>1, <1>5, <2>1
  <2>2. CASE ~ (x = pl /\ q = p)
    <3>1. z \in PremiumOf(x) /\ credits[z][q] > 0
      BY <1>14, <2>2
    <3>2. chosen[x][q] > 0
      BY <3>1 DEF Once, Traced
    <3> QED
      BY <1>5, <2>2, <3>2
  <2> QED
    BY <2>1, <2>2
<1> QED
  BY <1>13, <1>16, <1>17 DEF Once

LEMMA OnceStep ==
    ASSUME TypeOK, TypeOK', Once, [Next]_vars
    PROVE  Once'
<1>0. source \in [Sources -> SourceRow \cup {None}]
  BY DEF TypeOK
<1>a. Marked(source) /\ Alone /\ Traced
  BY DEF Once
<1>1. CASE RunReminders
  <2>1. Due(source, ActivePlans) \in SUBSET Uncredited(source)
    BY DEF Due, Uncredited
  <2>2. /\ CreditSources(source, Due(source, ActivePlans), WorkerPopulations)
        /\ chosen' = chosen
    BY <1>1 DEF RunReminders, DoRunReminders
  <2> QED
    BY <1>0, <1>a, <2>1, <2>2, CreditSourcesOnce DEF Once
<1>2. ASSUME NEW pl \in Plans, ActivatePlan(pl) PROVE Once'
  <2>1. Due(source, {pl}) \in SUBSET Uncredited(source)
    BY DEF Due, Uncredited
  <2>2. CreditSources(source, Due(source, {pl}), ApiPopulations) /\ chosen' = chosen
    BY <1>2 DEF ActivatePlan, DoActivatePlan
  <2> QED
    BY <1>0, <1>a, <2>1, <2>2, CreditSourcesOnce DEF Once
<1>3. ASSUME NEW s \in Sources, NEW pl \in Plans, NEW f \in SourceForms, AddSource(s, pl, f)
      PROVE  Once'
  <2> DEFINE row == [plan |-> pl, amount |-> f.amount, day |-> f.day,
                     premium |-> f.premium, credited |-> FALSE]
             src == [source EXCEPT ![s] = row]
             due == Due(src, {pl} \cap ActivePlans)
  <2>1. f \in SourceType
    BY ConstantsAssumption
  <2>2. row \in SourceRow /\ ~ row.credited
    BY <2>1 DEF SourceType, SourceRow
  <2>3. src \in [Sources -> SourceRow \cup {None}]
    BY <1>0, <2>2
  <2>4. due \in SUBSET Uncredited(src)
    BY DEF Due, Uncredited
  <2>5. CreditSources(src, due, ApiPopulations) /\ source[s] = None /\ chosen' = chosen
    BY <1>3 DEF AddSource, CanAddSource, DoAddSource, WithSource
  <2>6. \A y \in Sources \ {s} : src[y] = source[y]
    BY <1>0
  <2>7. src[s] = row
    BY <1>0
  <2> HIDE DEF src, due
  <2>8. Marked(src)
    <3>1. \A p \in Persons : credits[s][p] <= 0
      BY <2>5 DEF Once, Marked
    <3> SUFFICES ASSUME NEW y \in Sources, NEW p \in Persons,
                        src[y] = None \/ ~ src[y].premium
                 PROVE  credits[y][p] <= IF src[y] # None /\ src[y].credited THEN 1 ELSE 0
      BY DEF Marked
    <3>2. CASE y = s
      BY <2>2, <2>7, <3>1, <3>2
    <3>3. CASE y # s
      BY <2>6, <3>3 DEF Once, Marked
    <3> QED
      BY <3>2, <3>3
  <2>9. \A y \in Sources : source[y] = src[y] \/ source[y] = None
    BY <2>5, <2>6
  <2> QED
    BY <1>a, <2>3, <2>4, <2>5, <2>8, <2>9, CreditSourcesOnce DEF Once
<1>4. ASSUME NEW p \in Persons, NEW pl \in Plans, NEW percent \in UNION {t.percents : t \in Terms},
             ChoosePremium(p, pl, percent)
      PROVE  Once'
  <2>1. PICK s \in Sources :
            /\ PremiumSource(pl, s)
            /\ DoChoosePremium(p, pl, RoundPercent(terms[pl].premium, percent), s)
    BY <1>4 DEF ChoosePremium
  <2>2. chosen[pl][p] = 0
    BY <1>4 DEF ChoosePremium, CanChoosePremium
  <2> QED
    BY <2>1, <2>2, ChoiceOnce
<1>5. CASE UNCHANGED <<source, credits, chosen>>
  BY <1>5 DEF Once, Marked, Alone, Traced, PremiumOf
<1> QED
  <2>1. CASE UNCHANGED vars
    BY <1>5, <2>1 DEF vars
  <2>2. CASE Next
    BY <1>1, <1>2, <1>3, <1>4, <1>5, <2>2 DEF Next, CreatePlan, UpdatePlan, ClosePlan,
        DoClosePlan, Adjust, CreateRequest, DoCreateRequest, CancelRequest,
        RejectRequest, Release, ApproveRequest, DoApprove, AskForDocs, SetNeedsDocs,
        CreateBatch, DoCreateBatch, ConfirmBatch, DoConfirmBatch, UpsertCategory,
        PutThresholds, LoadPresets, Declare, Hire, Leave, Tick
  <2> QED
    BY <2>1, <2>2

\* Activation, addition, the worker and the premium choices between them credit a
\* person once from a source, and once from all the premium sources of a plan.
THEOREM NeverCreditedTwice == Spec => []CreditedOnce
<1>1. Init => Once
  BY DEF Init, Once, Marked, Alone, Traced, PremiumOf
<1>2. TypeOK /\ TypeOK' /\ Once /\ [Next]_vars => Once'
  BY OnceStep
<1>3. Once => CreditedOnce
  BY DEF Once, Marked, Alone, CreditedOnce
<1> QED
  BY <1>1, <1>2, <1>3, TypeCorrect, PTL DEF Spec

-------------------------------------------------------------------------------
(* Payroll lots *)

InPayroll == {"in_payroll", "paid"}

\* The inductive form: a request is in a lot only once it is on its way to payroll.
Filed ==
    \A r \in Requests : req[r].status # "none" /\ req[r].batch # None => req[r].status \in InPayroll
Lots == LotsMatchRequests /\ Filed

LotTotal(b) == Sum([r \in InBatch(b) |-> Reimbursed(r)], InBatch(b))
LotOK(b) ==
    batch[b] # None =>
        /\ batch[b].items = Cardinality(InBatch(b))
        /\ batch[b].total = LotTotal(b)
        /\ \A r \in InBatch(b) :
            req[r].status = IF batch[b].status = "confirmed" THEN "paid" ELSE "in_payroll"
LotOfPaid(r) ==
    req[r].status \in InPayroll => req[r].batch \in Batches /\ batch[req[r].batch] # None

LEMMA LotsParts ==
    Lots <=> (\A b \in Batches : LotOK(b)) /\ (\A r \in Requests : LotOfPaid(r)) /\ Filed
BY DEF Lots, LotsMatchRequests, LotOK, LotTotal, LotOfPaid, InPayroll

LEMMA LotsPartsNext ==
    Lots' <=> (\A b \in Batches : LotOK(b)') /\ (\A r \in Requests : LotOfPaid(r)') /\ Filed'
BY DEF Lots, LotsMatchRequests, LotOK, LotTotal, LotOfPaid, InPayroll

\* A step that leaves the lots and what is in them alone.
LEMMA LotsFrame ==
    ASSUME Lots, batch' = batch,
           \A r \in Requests :
              \/ req'[r] = req[r]
              \/ /\ req[r].status = "none" \/ req[r].batch = None
                 /\ req'[r].batch = None /\ req'[r].status \notin InPayroll
    PROVE  Lots'
<1>1. \A b \in Batches : InBatch(b)' = InBatch(b) /\ \A r \in InBatch(b) : req'[r] = req[r]
  BY NoneAssumption DEF InBatch
<1>2. ASSUME NEW b \in Batches PROVE LotTotal(b)' = LotTotal(b)
  <2>1. [r \in InBatch(b) |-> Reimbursed(r)]' = [r \in InBatch(b) |-> Reimbursed(r)]
    BY <1>1 DEF Reimbursed
  <2> QED
    BY <1>1, <2>1 DEF LotTotal
<1>3. \A b \in Batches : LotOK(b)'
  BY <1>1, <1>2, LotsParts DEF LotOK
<1>4. \A r \in Requests : LotOfPaid(r)'
  BY LotsParts DEF LotOfPaid
<1>5. Filed'
  BY DEF Lots, Filed
<1> QED
  BY <1>3, <1>4, <1>5, LotsPartsNext

\* The size and the total of the lot that createBatch would export.
LEMMA LotTotalType ==
    ASSUME TypeOK
    PROVE  Cardinality(ToPay) \in Nat /\ Sum([r \in ToPay |-> Reimbursed(r)], ToPay) \in Nat
<1>1. ToPay \subseteq Requests /\ IsFiniteSet(ToPay)
  BY ConstantsAssumption, FS_Subset DEF ToPay
<1>2. ASSUME NEW r \in ToPay PROVE Reimbursed(r) \in Nat
  <2>1. req[r] \in RequestRow
    BY <1>1 DEF ToPay, TypeOK, NoRequest
  <2> QED
    BY <2>1 DEF Reimbursed, RequestRow
<1> DEFINE a == [r \in ToPay |-> Reimbursed(r)]
<1>3. \A r \in ToPay : a[r] \in Nat
  BY <1>2
<1> HIDE DEF a
<1>4. Sum(a, ToPay) \in Nat
  BY <1>1, <1>3, SumType
<1> QED
  BY <1>1, <1>4, FS_CardinalityType DEF a

LEMMA LotsExport ==
    ASSUME TypeOK, Lots, NEW b \in Batches, CreateBatch(b)
    PROVE  Lots'
<1>1. /\ batch[b] = None
      /\ batch' = [batch EXCEPT ![b] =
                    [status |-> "exported", items |-> Cardinality(ToPay),
                     total |-> Sum([r \in ToPay |-> Reimbursed(r)], ToPay)]]
  BY DEF CreateBatch, CanCreateBatch, DoCreateBatch
<1>2. ASSUME NEW r \in ToPay
      PROVE  /\ r \in Requests /\ req[r] \in RequestRow /\ req[r].batch = None
             /\ req'[r].status = "in_payroll" /\ req'[r].batch = b
             /\ req'[r].kind = req[r].kind /\ req'[r].amount = req[r].amount
  <2>1. r \in Requests /\ req[r].status = "approved" /\ req[r].batch = None
    BY DEF ToPay
  <2>2. req[r] \in RequestRow
    BY <2>1 DEF TypeOK, NoRequest
  <2>3. req'[r] = [req[r] EXCEPT !.status = "in_payroll", !.batch = b]
    BY <2>1 DEF CreateBatch, DoCreateBatch
  <2> QED
    BY <2>1, <2>2, <2>3 DEF RequestRow
<1>3. \A r \in Requests \ ToPay : req'[r] = req[r]
  BY DEF CreateBatch, DoCreateBatch
<1>4. \A r \in Requests : req[r].status # "none" => req[r].batch # b
  BY <1>1, NoneAssumption, LotsParts DEF Lots, Filed, LotOfPaid
<1>5. InBatch(b)' = ToPay
  BY <1>2, <1>3, <1>4 DEF InBatch
<1>6. \A c \in Batches \ {b} : InBatch(c)' = InBatch(c) /\ \A r \in InBatch(c) : req'[r] = req[r]
  <2>1. ASSUME NEW c \in Batches \ {b}, NEW r \in ToPay PROVE r \notin InBatch(c) /\ r \notin InBatch(c)'
    BY <1>2, NoneAssumption DEF InBatch
  <2> QED
    BY <1>3, <2>1 DEF InBatch
<1>7. /\ batch'[b].status = "exported" /\ batch'[b].items = Cardinality(ToPay)
      /\ batch'[b].total = Sum([r \in ToPay |-> Reimbursed(r)], ToPay)
      /\ \A c \in Batches \ {b} : batch'[c] = batch[c]
  BY <1>1 DEF TypeOK
<1>8. batch'[b] # None
  <2>1. Cardinality(ToPay) \in Nat /\ Sum([r \in ToPay |-> Reimbursed(r)], ToPay) \in Nat
    BY LotTotalType
  <2> DEFINE total == Sum([r \in ToPay |-> Reimbursed(r)], ToPay)
  <2> HIDE DEF total
  <2>2. batch'[b] = [status |-> "exported", items |-> Cardinality(ToPay), total |-> total]
    BY <1>1 DEF TypeOK, total
  <2>3. batch'[b] \in BatchRow
    BY <2>1, <2>2 DEF BatchRow, total
  <2> QED
    BY <2>3, NoneAssumption
<1>9. LotTotal(b)' = Sum([r \in ToPay |-> Reimbursed(r)], ToPay)
  <2>1. [r \in InBatch(b) |-> Reimbursed(r)]' = [r \in ToPay |-> Reimbursed(r)]
    BY <1>2, <1>5 DEF Reimbursed
  <2> QED
    BY <1>5, <2>1 DEF LotTotal
<1>10. ASSUME NEW c \in Batches \ {b} PROVE LotTotal(c)' = LotTotal(c)
  <2>1. [r \in InBatch(c) |-> Reimbursed(r)]' = [r \in InBatch(c) |-> Reimbursed(r)]
    BY <1>6 DEF Reimbursed
  <2> QED
    BY <1>6, <2>1 DEF LotTotal
<1>11. LotOK(b)'
  BY <1>2, <1>5, <1>7, <1>9 DEF LotOK
<1>12. \A c \in Batches \ {b} : LotOK(c)'
  BY <1>6, <1>7, <1>10, LotsParts DEF LotOK
<1>13. \A r \in Requests : LotOfPaid(r)'
  BY <1>2, <1>3, <1>7, <1>8, LotsParts DEF LotOfPaid
<1>14. Filed'
  BY <1>2, <1>3 DEF Lots, Filed, InPayroll
<1> QED
  BY <1>11, <1>12, <1>13, <1>14, LotsPartsNext

LEMMA LotsConfirm ==
    ASSUME TypeOK, Lots, NEW b \in Batches, ConfirmBatch(b)
    PROVE  Lots'
<1>1. /\ batch[b] # None /\ batch[b].status = "exported"
      /\ batch' = [batch EXCEPT ![b].status = "confirmed"]
  BY DEF ConfirmBatch, CanConfirmBatch, DoConfirmBatch
<1>2. batch[b] \in BatchRow
  BY <1>1 DEF TypeOK
<1>3. /\ batch'[b] \in BatchRow /\ batch'[b].status = "confirmed"
      /\ batch'[b].items = batch[b].items /\ batch'[b].total = batch[b].total
      /\ \A c \in Batches \ {b} : batch'[c] = batch[c]
  BY <1>1, <1>2 DEF TypeOK, BatchRow
<1>4. \A r \in InBatch(b) : r \in Requests /\ req[r].status = "in_payroll" /\ req[r].batch = b
  BY <1>1, LotsParts DEF LotOK, InBatch
<1>5. ASSUME NEW r \in InBatch(b)
      PROVE  /\ req'[r].status = "paid" /\ req'[r].batch = b
             /\ req'[r].kind = req[r].kind /\ req'[r].amount = req[r].amount
  <2>1. req[r] \in RequestRow
    BY <1>4 DEF TypeOK, NoRequest
  <2>2. req'[r] = [req[r] EXCEPT !.status = "paid"]
    BY <1>4 DEF ConfirmBatch, DoConfirmBatch
  <2> QED
    BY <1>4, <2>1, <2>2 DEF RequestRow
<1>6. \A r \in Requests \ InBatch(b) : req'[r] = req[r]
  BY DEF ConfirmBatch, DoConfirmBatch, InBatch
<1>7. InBatch(b)' = InBatch(b)
  BY <1>4, <1>5, <1>6 DEF InBatch
<1>8. \A c \in Batches \ {b} : InBatch(c)' = InBatch(c) /\ \A r \in InBatch(c) : req'[r] = req[r]
  <2>1. ASSUME NEW c \in Batches \ {b}, NEW r \in InBatch(b)
        PROVE r \notin InBatch(c) /\ r \notin InBatch(c)'
    BY <1>4, <1>5 DEF InBatch
  <2> QED
    BY <1>6, <2>1 DEF InBatch
<1>9. ASSUME NEW c \in Batches PROVE LotTotal(c)' = LotTotal(c)
  <2>1. \A r \in InBatch(c) : Reimbursed(r)' = Reimbursed(r)
    BY <1>5, <1>8 DEF Reimbursed
  <2>2. InBatch(c)' = InBatch(c)
    BY <1>7, <1>8
  <2>3. [r \in InBatch(c) |-> Reimbursed(r)]' = [r \in InBatch(c) |-> Reimbursed(r)]
    BY <2>1, <2>2
  <2> QED
    BY <2>2, <2>3 DEF LotTotal
<1>10. LotOK(b)'
  BY <1>1, <1>3, <1>5, <1>7, <1>9, LotsParts DEF LotOK
<1>11. \A c \in Batches \ {b} : LotOK(c)'
  BY <1>3, <1>8, <1>9, LotsParts DEF LotOK
<1>12. \A c \in Batches : batch[c] # None => batch'[c] # None
  BY <1>3, NoneAssumption
<1>13. \A r \in Requests : LotOfPaid(r)'
  <2>1. ASSUME NEW r \in Requests, req'[r].status \in InPayroll
        PROVE  req[r].status \in InPayroll /\ req'[r].batch = req[r].batch
    BY <1>4, <1>5, <1>6, <2>1 DEF InPayroll
  <2> QED
    BY <1>12, <2>1, LotsParts DEF LotOfPaid
<1>14. Filed'
  BY <1>4, <1>5, <1>6 DEF Lots, Filed, InPayroll
<1> QED
  BY <1>10, <1>11, <1>13, <1>14, LotsPartsNext

\* Deciding, cancelling or asking about a request that is open touches no lot.
LEMMA LotsDecide ==
    ASSUME TypeOK, Lots, NEW r \in Requests, CanDecide(r), batch' = batch,
           NEW outcome \in OPEN \cup Released \cup {"approved", "fulfilled"},
           req' = [req EXCEPT ![r].status = outcome]
    PROVE  Lots'
<1>1. req[r] \in RequestRow /\ req[r].status \in OPEN
  BY DEF CanDecide, TypeOK, OPEN, NoRequest
<1>2. req[r].batch = None
  BY <1>1 DEF Lots, Filed, OPEN, InPayroll
<1>3. req'[r].status = outcome /\ req'[r].batch = None
  BY <1>1, <1>2 DEF TypeOK, RequestRow
<1>4. \A x \in Requests \ {r} : req'[x] = req[x]
  BY DEF TypeOK
<1>5. outcome \notin InPayroll
  BY DEF OPEN, Released, InPayroll
<1> QED
  BY <1>2, <1>3, <1>4, <1>5, LotsFrame

LEMMA LotsStep ==
    ASSUME TypeOK, Lots, [Next]_vars
    PROVE  Lots'
<1>1. CASE UNCHANGED <<req, batch>>
  BY <1>1, LotsFrame
<1>2. ASSUME NEW r \in Requests, NEW p \in Persons, NEW pl \in Plans, NEW k \in Claims,
             CreateRequest(r, p, pl, k)
      PROVE  Lots'
  <2>1. /\ batch' = batch /\ req[r].status = "none"
        /\ req'[r].status = "submitted" /\ req'[r].batch = None
        /\ \A x \in Requests \ {r} : req'[x] = req[x]
    BY <1>2 DEF CreateRequest, CanCreateRequest, DoCreateRequest, TypeOK
  <2> QED
    BY <2>1, LotsFrame DEF InPayroll
<1>3. ASSUME NEW r \in Requests, CancelRequest(r) \/ RejectRequest(r) PROVE Lots'
  BY <1>3, LotsDecide DEF CancelRequest, RejectRequest, Release, Released
<1>4. ASSUME NEW r \in Requests, ApproveRequest(r) PROVE Lots'
  BY <1>4, LotsDecide DEF ApproveRequest, DoApprove
<1>5. ASSUME NEW r \in Requests, AskForDocs(r) PROVE Lots'
  BY <1>5, LotsDecide DEF AskForDocs, SetNeedsDocs, OPEN
<1>6. ASSUME NEW b \in Batches, CreateBatch(b) \/ ConfirmBatch(b) PROVE Lots'
  BY <1>6, LotsExport, LotsConfirm
<1> QED
  <2>1. CASE UNCHANGED vars
    BY <1>1, <2>1 DEF vars
  <2>2. CASE Next
    BY <1>1, <1>2, <1>3, <1>4, <1>5, <1>6, <2>2 DEF Next, RunReminders, DoRunReminders,
        CreatePlan, UpdatePlan, ActivatePlan, DoActivatePlan, ClosePlan, DoClosePlan,
        AddSource, DoAddSource, Adjust, ChoosePremium, DoChoosePremium, UpsertCategory,
        PutThresholds, LoadPresets, Declare, Hire, Leave, Tick
  <2> QED
    BY <2>1, <2>2

\* A lot pays what it was exported with, whatever is decided after the export.
THEOREM LotsCorrect == Spec => []LotsMatchRequests
<1>1. Init => Lots
  BY DEF Init, Lots, LotsMatchRequests, Filed, NoRequest
<1>2. TypeOK /\ Lots /\ [Next]_vars => Lots'
  BY LotsStep
<1>3. Lots => LotsMatchRequests
  BY DEF Lots
<1> QED
  BY <1>1, <1>2, <1>3, TypeCorrect, PTL DEF Spec

-------------------------------------------------------------------------------
(* Thresholds *)

\* A person's requests of a category that are open or were approved.
Live(p, c) == {r \in Requests : /\ req[r].status \in OPEN \cup Approved
                                /\ req[r].person = p /\ req[r].cat = c}
LiveTotal(p, c) == Sum([r \in Live(p, c) |-> req[r].amount], Live(p, c))

\* What checkThreshold finds used is what the live requests amount to, and no
\* request is taxed for more than its amount.
UsedMatches == \A p \in Persons, c \in Categories : used[p][c] = LiveTotal(p, c)
TaxableFits == \A r \in Requests : req[r].status # "none" => req[r].taxable <= req[r].amount
Thresholds == UsedMatches /\ TaxableFits

LEMMA LiveFinite ==
    ASSUME NEW p, NEW c
    PROVE  IsFiniteSet(Live(p, c)) /\ Live(p, c) \subseteq Requests
BY ConstantsAssumption, FS_Subset DEF Live

LEMMA LiveRow ==
    ASSUME TypeOK, NEW p, NEW c, NEW r \in Live(p, c)
    PROVE  req[r] \in RequestRow /\ req[r].amount \in Nat /\ req[r].taxable \in Nat
<1>1. req[r] \in RequestRow
  BY DEF Live, TypeOK, NoRequest, OPEN, Approved
<1> QED
  BY <1>1 DEF RequestRow

LEMMA ExemptIs ==
    ASSUME NEW p, NEW c
    PROVE  Exempt(p, c) = Sum([r \in Live(p, c) |-> req[r].amount - req[r].taxable], Live(p, c))
BY DEF Exempt, Live

LEMMA ExemptIsNext ==
    ASSUME NEW p, NEW c
    PROVE  Exempt(p, c)' =
             Sum([r \in Live(p, c)' |-> req'[r].amount - req'[r].taxable], Live(p, c)')
BY DEF Exempt, Live

\* What is exempt is at most what is used.
LEMMA ExemptIsUsed ==
    ASSUME TypeOK, TaxableFits, NEW p, NEW c
    PROVE  /\ Exempt(p, c) \in Nat /\ LiveTotal(p, c) \in Nat
           /\ Exempt(p, c) <= LiveTotal(p, c)
<1> DEFINE S == Live(p, c)
           a == [r \in S |-> req[r].amount - req[r].taxable]
           b == [r \in S |-> req[r].amount]
<1>1. IsFiniteSet(S)
  BY LiveFinite
<1>2. \A r \in S : a[r] \in Nat /\ b[r] \in Nat /\ a[r] <= b[r]
  <2> SUFFICES ASSUME NEW r \in S PROVE a[r] \in Nat /\ b[r] \in Nat /\ a[r] <= b[r]
    OBVIOUS
  <2>1. r \in Requests /\ req[r].status # "none"
    BY DEF Live, OPEN, Approved
  <2>2. req[r].amount \in Nat /\ req[r].taxable \in Nat /\ req[r].taxable <= req[r].amount
    BY <2>1, LiveRow DEF TaxableFits
  <2> QED
    BY <2>2
<1>3. Exempt(p, c) = Sum(a, S) /\ LiveTotal(p, c) = Sum(b, S)
  BY ExemptIs DEF LiveTotal
<1> HIDE DEF S, a, b
<1>4. Sum(a, S) \in Nat /\ Sum(b, S) \in Nat
  BY <1>1, <1>2, SumType
<1>5. Sum(a, S) <= Sum(b, S)
  BY <1>1, <1>2, SumMonotone
<1> QED
  BY <1>3, <1>4, <1>5

SameAmounts(S) ==
    \A r \in S : req'[r].amount = req[r].amount /\ req'[r].taxable = req[r].taxable

\* A step that moves no request in or out of a person's live ones.
LEMMA LiveSame ==
    ASSUME NEW p, NEW c, Live(p, c)' = Live(p, c), SameAmounts(Live(p, c))
    PROVE  LiveTotal(p, c)' = LiveTotal(p, c) /\ Exempt(p, c)' = Exempt(p, c)
<1> DEFINE S == Live(p, c)
<1>1. [r \in S |-> req'[r].amount] = [r \in S |-> req[r].amount]
  BY DEF SameAmounts
<1>2. [r \in S |-> req'[r].amount - req'[r].taxable] = [r \in S |-> req[r].amount - req[r].taxable]
  BY DEF SameAmounts
<1>3. LiveTotal(p, c)' = Sum([r \in S |-> req'[r].amount], S)
  BY DEF LiveTotal
<1>4. Exempt(p, c)' = Sum([r \in S |-> req'[r].amount - req'[r].taxable], S)
  BY ExemptIsNext
<1> QED
  BY <1>1, <1>2, <1>3, <1>4, ExemptIs DEF LiveTotal

\* A step that brings one request into a person's live ones.
LEMMA LiveGain ==
    ASSUME TypeOK', TaxableFits', NEW p, NEW c, NEW x \in Requests, x \notin Live(p, c),
           Live(p, c)' = Live(p, c) \cup {x}, SameAmounts(Live(p, c))
    PROVE  /\ LiveTotal(p, c)' = LiveTotal(p, c) + req'[x].amount
           /\ Exempt(p, c)' = Exempt(p, c) + (req'[x].amount - req'[x].taxable)
<1> DEFINE S == Live(p, c)
           T == S \cup {x}
           a == [r \in S |-> req[r].amount]
           b == [r \in T |-> req'[r].amount]
           e == [r \in S |-> req[r].amount - req[r].taxable]
           f == [r \in T |-> req'[r].amount - req'[r].taxable]
<1>1. IsFiniteSet(T) /\ x \in T /\ T \ {x} = S
  BY LiveFinite, FS_AddElement
<1>2. \A r \in S : b[r] = a[r] /\ f[r] = e[r]
  BY DEF SameAmounts
<1>3. ASSUME NEW r \in T PROVE b[r] \in Nat /\ f[r] \in Nat
  <2>1. r \in Requests /\ req'[r].status \in OPEN \cup Approved
    BY DEF Live
  <2>2. req'[r] \in RequestRow /\ req'[r].status # "none"
    BY <2>1 DEF TypeOK, NoRequest, OPEN, Approved
  <2>3. req'[r].amount \in Nat /\ req'[r].taxable \in Nat /\ req'[r].taxable <= req'[r].amount
    BY <2>1, <2>2 DEF RequestRow, TaxableFits
  <2> QED
    BY <2>3
<1>4. LiveTotal(p, c)' = Sum(b, T) /\ LiveTotal(p, c) = Sum(a, S)
  BY DEF LiveTotal
<1>5. Exempt(p, c)' = Sum(f, T) /\ Exempt(p, c) = Sum(e, S)
  BY ExemptIs, ExemptIsNext
<1>6. b[x] = req'[x].amount /\ f[x] = req'[x].amount - req'[x].taxable
  OBVIOUS
<1> HIDE DEF S, T, a, b, e, f
<1>7. Sum(b, T) = Sum(a, S) + b[x]
  BY <1>1, <1>2, <1>3, SumGain
<1>8. Sum(f, T) = Sum(e, S) + f[x]
  BY <1>1, <1>2, <1>3, SumGain
<1> QED
  BY <1>4, <1>5, <1>6, <1>7, <1>8

\* A step that takes one request out of a person's live ones.
LEMMA LiveLoss ==
    ASSUME TypeOK, TaxableFits, NEW p, NEW c, NEW x \in Live(p, c),
           Live(p, c)' = Live(p, c) \ {x}, SameAmounts(Live(p, c))
    PROVE  /\ LiveTotal(p, c)' = LiveTotal(p, c) - req[x].amount
           /\ Exempt(p, c)' = Exempt(p, c) - (req[x].amount - req[x].taxable)
<1> DEFINE S == Live(p, c)
           T == S \ {x}
           a == [r \in S |-> req[r].amount]
           b == [r \in T |-> req'[r].amount]
           e == [r \in S |-> req[r].amount - req[r].taxable]
           f == [r \in T |-> req'[r].amount - req'[r].taxable]
<1>1. IsFiniteSet(S) /\ x \in S
  BY LiveFinite
<1>2. \A r \in S \ {x} : b[r] = a[r] /\ f[r] = e[r]
  BY DEF SameAmounts
<1>3. ASSUME NEW r \in S PROVE a[r] \in Nat /\ e[r] \in Nat
  <2>1. r \in Requests /\ req[r].status # "none"
    BY DEF Live, OPEN, Approved
  <2>2. req[r].amount \in Nat /\ req[r].taxable \in Nat /\ req[r].taxable <= req[r].amount
    BY <2>1, LiveRow DEF TaxableFits
  <2> QED
    BY <2>2
<1>4. LiveTotal(p, c)' = Sum(b, T) /\ LiveTotal(p, c) = Sum(a, S)
  BY DEF LiveTotal
<1>5. Exempt(p, c)' = Sum(f, T) /\ Exempt(p, c) = Sum(e, S)
  BY ExemptIs, ExemptIsNext
<1>6. a[x] = req[x].amount /\ e[x] = req[x].amount - req[x].taxable
  OBVIOUS
<1> HIDE DEF S, a, b, e, f
<1>7. Sum(b, S \ {x}) = Sum(a, S) - a[x]
  BY <1>1, <1>2, <1>3, SumLoss
<1>8. Sum(f, S \ {x}) = Sum(e, S) - e[x]
  BY <1>1, <1>2, <1>3, SumLoss
<1> QED
  BY <1>4, <1>5, <1>6, <1>7, <1>8

\* What a step must do with a person's exempt total of a threshold category.
Within(p, c) ==
    (category[c] # None /\ category[c].regime = "threshold"
        /\ ThresholdFor(c, p) # None /\ Exempt(p, c)' > Exempt(p, c))
    => Exempt(p, c)' <= ThresholdFor(c, p)
AllWithin == \A p \in Persons, c \in Categories : Within(p, c)

\* A step that keeps the live requests as they are.
LEMMA ThresholdsFrame ==
    ASSUME TypeOK, Thresholds, used' = used,
           \A r \in Requests :
              \/ req'[r] = req[r]
              \/ /\ req[r].status \in OPEN \cup Approved /\ req'[r].status \in OPEN \cup Approved
                 /\ req'[r].person = req[r].person /\ req'[r].cat = req[r].cat
                 /\ req'[r].amount = req[r].amount /\ req'[r].taxable = req[r].taxable
    PROVE  Thresholds' /\ AllWithin
<1>1. ASSUME NEW p \in Persons, NEW c \in Categories
      PROVE  LiveTotal(p, c)' = LiveTotal(p, c) /\ Exempt(p, c)' = Exempt(p, c)
  <2>1. Live(p, c)' = Live(p, c)
    BY DEF Live
  <2>2. SameAmounts(Live(p, c))
    BY DEF SameAmounts, Live
  <2> QED
    BY <2>1, <2>2, LiveSame
<1>2. UsedMatches'
  BY <1>1 DEF Thresholds, UsedMatches
<1>3. TaxableFits'
  BY DEF Thresholds, TaxableFits, OPEN, Approved
<1>4. \A p \in Persons, c \in Categories : Exempt(p, c) \in Nat
  BY ExemptIsUsed DEF Thresholds
<1>5. AllWithin
  BY <1>1, <1>4 DEF AllWithin, Within
<1> QED
  BY <1>2, <1>3, <1>5 DEF Thresholds

\* The arithmetic of checkThreshold: the exempt part fits in the room left.
LEMMA TaxableLaw ==
    ASSUME NEW T \in Nat, NEW u \in Nat, NEW a \in Nat,
           T # None
    PROVE  LET t == TaxablePortion("threshold", T, u, a) IN
           /\ t \in Nat /\ t <= a
           /\ a - t > 0 => u + (a - t) <= T
BY DEF TaxablePortion, Floor0

LEMMA TaxableFitsLaw ==
    ASSUME NEW regime \in Regimes, NEW T \in Limits, NEW u \in Nat, NEW a \in Nat
    PROVE  TaxablePortion(regime, T, u, a) \in Nat /\ TaxablePortion(regime, T, u, a) <= a
BY NoneAssumption DEF TaxablePortion, Floor0, Regimes, Limits

LEMMA ThresholdType ==
    ASSUME TypeOK, NEW c \in Categories, NEW p
    PROVE  ThresholdFor(c, p) \in Limits
BY DEF TypeOK, ThresholdFor, LimitType

LEMMA ThresholdsCreate ==
    ASSUME TypeOK, TypeOK', Thresholds,
           NEW r \in Requests, NEW p0 \in Persons, NEW pl0 \in Plans, NEW k \in Claims,
           CreateRequest(r, p0, pl0, k)
    PROVE  Thresholds' /\ AllWithin
<1>0. k.amount \in Nat /\ k.cat \in Categories
  BY ConstantsAssumption DEF ClaimType
<1> DEFINE tax == TaxableOf(p0, k)
<1>1. /\ req[r].status = "none" /\ req'[r].status = "submitted"
      /\ req'[r].person = p0 /\ req'[r].cat = k.cat /\ req'[r].amount = k.amount
      /\ req'[r].taxable = tax
      /\ \A x \in Requests \ {r} : req'[x] = req[x]
  BY DEF CreateRequest, CanCreateRequest, DoCreateRequest, TypeOK
<1>2. category[k.cat] \in CategoryType
  BY <1>0 DEF CreateRequest, CanCreateRequest, TypeOK
<1>3. used[p0][k.cat] = LiveTotal(p0, k.cat) /\ used[p0][k.cat] \in Nat
  BY <1>0, ExemptIsUsed DEF Thresholds, UsedMatches
<1>4. tax \in Nat /\ tax <= k.amount
  BY <1>0, <1>2, <1>3, ThresholdType, TaxableFitsLaw DEF TaxableOf, CategoryType
<1>5. \A p \in Persons, c \in Categories :
        used'[p][c] = IF p = p0 /\ c = k.cat THEN used[p][c] + k.amount ELSE used[p][c]
  BY <1>0 DEF CreateRequest, DoCreateRequest, TypeOK
<1> HIDE DEF tax
<1>6. TaxableFits'
  BY <1>0, <1>1, <1>4 DEF Thresholds, TaxableFits
<1>7. /\ r \notin Live(p0, k.cat)
      /\ Live(p0, k.cat)' = Live(p0, k.cat) \cup {r}
      /\ SameAmounts(Live(p0, k.cat))
  BY <1>1 DEF Live, OPEN, Approved, SameAmounts
<1>8. /\ LiveTotal(p0, k.cat)' = LiveTotal(p0, k.cat) + k.amount
      /\ Exempt(p0, k.cat)' = Exempt(p0, k.cat) + (k.amount - tax)
  BY <1>1, <1>6, <1>7, LiveGain
<1>9. ASSUME NEW p \in Persons, NEW c \in Categories, ~ (p = p0 /\ c = k.cat)
      PROVE  LiveTotal(p, c)' = LiveTotal(p, c) /\ Exempt(p, c)' = Exempt(p, c)
  <2>1. Live(p, c)' = Live(p, c) /\ SameAmounts(Live(p, c))
    BY <1>1, <1>9 DEF Live, OPEN, Approved, SameAmounts
  <2> QED
    BY <2>1, LiveSame
<1>10. UsedMatches'
  BY <1>3, <1>5, <1>8, <1>9 DEF Thresholds, UsedMatches
<1>11. ASSUME NEW p \in Persons, NEW c \in Categories PROVE Within(p, c)
  <2>1. Exempt(p, c) \in Nat /\ Exempt(p, c) <= LiveTotal(p, c)
    BY ExemptIsUsed DEF Thresholds
  <2>2. CASE p = p0 /\ c = k.cat
    <3> SUFFICES ASSUME category[c].regime = "threshold", ThresholdFor(c, p) # None,
                        Exempt(p, c)' > Exempt(p, c)
                 PROVE  Exempt(p, c)' <= ThresholdFor(c, p)
      BY DEF Within
    <3> DEFINE T == ThresholdFor(c, p)
               u == used[p][c]
    <3>1. T \in Nat /\ T # None /\ u \in Nat /\ u = LiveTotal(p, c)
      BY <1>3, <2>2, ThresholdType DEF Limits
    <3>2. tax = TaxablePortion("threshold", T, u, k.amount)
      BY <2>2 DEF tax, TaxableOf
    <3> HIDE DEF T, u
    <3>3. k.amount - tax > 0
      BY <1>0, <1>4, <1>8, <2>1, <2>2
    <3>4. u + (k.amount - tax) <= T
      BY <1>0, <3>1, <3>2, <3>3, TaxableLaw
    <3>5. Exempt(p, c)' = Exempt(p, c) + (k.amount - tax)
      BY <1>8, <2>2
    <3>6. Exempt(p, c)' <= T
      BY <1>0, <1>4, <2>1, <3>1, <3>4, <3>5
    <3> QED
      BY <3>6 DEF T
  <2>3. CASE ~ (p = p0 /\ c = k.cat)
    BY <1>9, <2>1, <2>3 DEF Within
  <2> QED
    BY <2>2, <2>3
<1> QED
  BY <1>6, <1>10, <1>11 DEF Thresholds, AllWithin

LEMMA ThresholdsRelease ==
    ASSUME TypeOK, Thresholds,
           NEW r \in Requests, NEW outcome \in Released, CanDecide(r), Release(r, outcome)
    PROVE  Thresholds' /\ AllWithin
<1>1. req[r] \in RequestRow /\ req[r].status \in OPEN
  BY DEF CanDecide, TypeOK, OPEN, NoRequest
<1>2. /\ req[r].person \in Persons /\ req[r].cat \in Categories
      /\ req[r].amount \in Nat /\ req[r].taxable \in Nat
  BY <1>1 DEF RequestRow
<1>3. /\ req'[r].status = outcome /\ req'[r].amount = req[r].amount
      /\ req'[r].taxable = req[r].taxable
      /\ \A x \in Requests \ {r} : req'[x] = req[x]
  BY <1>1 DEF Release, TypeOK, RequestRow
<1>0. PICK p0 \in Persons, c0 \in Categories : p0 = req[r].person /\ c0 = req[r].cat
  BY <1>2
<1>4. \A p \in Persons, c \in Categories :
        used'[p][c] = IF p = p0 /\ c = c0 THEN used[p][c] - req[r].amount ELSE used[p][c]
  BY <1>0, <1>2 DEF Release, TypeOK
<1>5. req[r].taxable <= req[r].amount
  BY <1>1 DEF Thresholds, TaxableFits, OPEN
<1>6. TaxableFits'
  BY <1>1, <1>3, <1>5 DEF Thresholds, TaxableFits
<1>7. /\ r \in Live(p0, c0) /\ Live(p0, c0)' = Live(p0, c0) \ {r}
      /\ SameAmounts(Live(p0, c0))
  BY <1>0, <1>1, <1>3 DEF Live, OPEN, Approved, Released, SameAmounts
<1>8. /\ LiveTotal(p0, c0)' = LiveTotal(p0, c0) - req[r].amount
      /\ Exempt(p0, c0)' = Exempt(p0, c0) - (req[r].amount - req[r].taxable)
  BY <1>7, LiveLoss DEF Thresholds
<1>9. ASSUME NEW p \in Persons, NEW c \in Categories, ~ (p = p0 /\ c = c0)
      PROVE  LiveTotal(p, c)' = LiveTotal(p, c) /\ Exempt(p, c)' = Exempt(p, c)
  <2>1. Live(p, c)' = Live(p, c) /\ SameAmounts(Live(p, c))
    BY <1>0, <1>1, <1>3, <1>9 DEF Live, OPEN, Approved, Released, SameAmounts
  <2> QED
    BY <2>1, LiveSame
<1>10. UsedMatches'
  BY <1>4, <1>8, <1>9 DEF Thresholds, UsedMatches
<1>11. ASSUME NEW p \in Persons, NEW c \in Categories
       PROVE  Exempt(p, c) \in Nat /\ ~ (Exempt(p, c)' > Exempt(p, c))
  <2>1. Exempt(p, c) \in Nat
    BY ExemptIsUsed DEF Thresholds
  <2> QED
    BY <1>2, <1>5, <1>8, <1>9, <2>1
<1>12. AllWithin
  BY <1>11 DEF AllWithin, Within
<1> QED
  BY <1>6, <1>10, <1>12 DEF Thresholds

\* Approving or asking for documents keeps a request among the live ones.
LEMMA ThresholdsKeep ==
    ASSUME TypeOK, Thresholds, NEW r \in Requests, CanDecide(r), used' = used,
           NEW outcome \in OPEN \cup Approved, req' = [req EXCEPT ![r].status = outcome]
    PROVE  Thresholds' /\ AllWithin
<1>1. req[r] \in RequestRow /\ req[r].status \in OPEN
  BY DEF CanDecide, TypeOK, OPEN, NoRequest
<1>2. /\ req'[r].status = outcome /\ req'[r].person = req[r].person
      /\ req'[r].cat = req[r].cat /\ req'[r].amount = req[r].amount
      /\ req'[r].taxable = req[r].taxable
  BY <1>1 DEF TypeOK, RequestRow
<1>3. \A x \in Requests \ {r} : req'[x] = req[x]
  BY DEF TypeOK
<1> QED
  BY <1>1, <1>2, <1>3, ThresholdsFrame

LEMMA ThresholdsBatch ==
    ASSUME TypeOK, Thresholds, NEW b \in Batches, CreateBatch(b) \/ ConfirmBatch(b)
    PROVE  Thresholds' /\ AllWithin
<1>1. ASSUME NEW r \in Requests
      PROVE  \/ req'[r] = req[r]
             \/ /\ req[r].status \in OPEN \cup Approved /\ req'[r].status \in OPEN \cup Approved
                /\ req'[r].person = req[r].person /\ req'[r].cat = req[r].cat
                /\ req'[r].amount = req[r].amount /\ req'[r].taxable = req[r].taxable
  <2>1. CASE CreateBatch(b) /\ r \in ToPay
    <3>1. req[r].status = "approved" /\ req[r] \in RequestRow
      BY <2>1 DEF ToPay, TypeOK, NoRequest
    <3>2. req'[r] = [req[r] EXCEPT !.status = "in_payroll", !.batch = b]
      BY <2>1 DEF CreateBatch, DoCreateBatch
    <3> QED
      BY <3>1, <3>2 DEF RequestRow, Approved
  <2>2. CASE ConfirmBatch(b) /\ req[r].status = "in_payroll" /\ req[r].batch = b
    <3>1. req[r] \in RequestRow
      BY <2>2 DEF TypeOK, NoRequest
    <3>2. req'[r] = [req[r] EXCEPT !.status = "paid"]
      BY <2>2 DEF ConfirmBatch, DoConfirmBatch
    <3> QED
      BY <2>2, <3>1, <3>2 DEF RequestRow, Approved
  <2>3. CASE CreateBatch(b) /\ r \notin ToPay
    BY <2>3 DEF CreateBatch, DoCreateBatch
  <2>4. CASE ConfirmBatch(b) /\ ~ (req[r].status = "in_payroll" /\ req[r].batch = b)
    BY <2>4 DEF ConfirmBatch, DoConfirmBatch
  <2> QED
    BY <2>1, <2>2, <2>3, <2>4
<1>2. used' = used
  BY DEF CreateBatch, DoCreateBatch, ConfirmBatch, DoConfirmBatch
<1> QED
  BY <1>1, <1>2, ThresholdsFrame

LEMMA ThresholdsStep ==
    ASSUME TypeOK, TypeOK', Thresholds, [Next]_vars
    PROVE  Thresholds' /\ AllWithin
<1>1. CASE UNCHANGED <<req, used>>
  BY <1>1, ThresholdsFrame
<1>2. ASSUME NEW r \in Requests, NEW p \in Persons, NEW pl \in Plans, NEW k \in Claims,
             CreateRequest(r, p, pl, k)
      PROVE  Thresholds' /\ AllWithin
  BY <1>2, ThresholdsCreate
<1>3. ASSUME NEW r \in Requests, CancelRequest(r) \/ RejectRequest(r)
      PROVE  Thresholds' /\ AllWithin
  BY <1>3, ThresholdsRelease DEF CancelRequest, RejectRequest, Released
<1>4. ASSUME NEW r \in Requests, ApproveRequest(r) PROVE Thresholds' /\ AllWithin
  BY <1>4, ThresholdsKeep DEF ApproveRequest, DoApprove, Approved
<1>5. ASSUME NEW r \in Requests, AskForDocs(r) PROVE Thresholds' /\ AllWithin
  BY <1>5, ThresholdsKeep DEF AskForDocs, SetNeedsDocs, OPEN
<1>6. ASSUME NEW b \in Batches, CreateBatch(b) \/ ConfirmBatch(b) PROVE Thresholds' /\ AllWithin
  BY <1>6, ThresholdsBatch
<1> QED
  <2>1. CASE UNCHANGED vars
    BY <1>1, <2>1 DEF vars
  <2>2. CASE Next
    BY <1>1, <1>2, <1>3, <1>4, <1>5, <1>6, <2>2 DEF Next, RunReminders, DoRunReminders,
        CreatePlan, UpdatePlan, ActivatePlan, DoActivatePlan, ClosePlan, DoClosePlan,
        AddSource, DoAddSource, Adjust, ChoosePremium, DoChoosePremium, UpsertCategory,
        PutThresholds, LoadPresets, Declare, Hire, Leave, Tick
  <2> QED
    BY <2>1, <2>2

LEMMA ThresholdsInit == Init => Thresholds
<1> SUFFICES ASSUME Init PROVE Thresholds
  OBVIOUS
<1>1. \A p \in Persons, c \in Categories : Live(p, c) = {}
  BY DEF Init, Live, NoRequest, OPEN, Approved
<1>2. \A p \in Persons, c \in Categories : LiveTotal(p, c) = 0
  BY <1>1, SumEmpty DEF LiveTotal
<1> QED
  BY <1>2 DEF Init, Thresholds, UsedMatches, TaxableFits, NoRequest

\* No request brings a person's exempt total above the threshold in force, over
\* all plans, whatever categories, thresholds and declarations become meanwhile.
THEOREM ExemptStaysWithin == Spec => ExemptWithinThreshold
<1>1. TypeOK /\ TypeOK' /\ Thresholds /\ [Next]_vars => Thresholds'
  BY ThresholdsStep
<1>2. TypeOK /\ TypeOK' /\ Thresholds /\ [Next]_vars => [AllWithin]_vars
  BY ThresholdsStep
<1>3. ExemptWithinThreshold <=> [][AllWithin]_vars
  BY DEF ExemptWithinThreshold, AllWithin, Within
<1> QED
  BY <1>1, <1>2, <1>3, ThresholdsInit, TypeCorrect, PTL DEF Spec

-------------------------------------------------------------------------------
(* Sessions *)

CreateWork == [op : {"create"}, r : Requests, p : Persons, pl : Plans, k : Claims, taxable : Nat]
DecideWork == [op : {"decide"}, r : Requests, verb : Verbs]
PremiumWork == [op : {"premium"}, p : Persons, pl : Plans, s : Sources, new : BOOLEAN,
                amount : Nat]
ActivateWork == [op : {"activate"}, pl : Plans]
CloseWork == [op : {"close"}, pl : Plans, lost : [Persons -> Nat]]
Pops == UNION {[S -> SUBSET Persons] : S \in SUBSET Plans}
SourceWork == [op : {"source"}, s : Sources, pl : Plans, f : SourceForms, pops : Pops,
               due : SUBSET Sources]
RemindersWork == [op : {"reminders"}, due : SUBSET Sources, pops : Pops]
ExportWork == [op : {"export"}, b : Batches, toPay : SUBSET Requests]
ConfirmWork == [op : {"confirm"}, b : Batches]
Work == CreateWork \cup DecideWork \cup PremiumWork \cup ActivateWork \cup CloseWork
        \cup SourceWork \cup RemindersWork \cup ExportWork \cup ConfirmWork

\* What a session has read and no other can take away: rows are never deleted,
\* and the row it is to insert has an id of its own.
Bound(w) ==
    /\ w.op = "create" => req[w.r].status = "none"
    /\ w.op = "decide" => req[w.r].status # "none"
    /\ w.op \in {"activate", "close", "source", "premium"} => status[w.pl] # "none"
    /\ w.op = "premium" => (w.new <=> source[w.s] = None)
    /\ w.op = "source" => source[w.s] = None /\ \A t \in w.due : source[t] # None \/ t = w.s
    /\ w.op = "reminders" => \A t \in w.due : source[t] # None
    /\ w.op = "export" => batch[w.b] = None /\ \A r \in w.toPay : req[r].status # "none"
    /\ w.op = "confirm" => batch[w.b] # None

\* Two sessions never insert the same row.
InsertsSource(w) == w.op = "source" \/ (w.op = "premium" /\ w.new)
Distinct(v, w) ==
    /\ v.op = "create" /\ w.op = "create" => v.r # w.r
    /\ v.op = "export" /\ w.op = "export" => v.b # w.b
    /\ InsertsSource(v) /\ InsertsSource(w) => v.s # w.s

SessionsOK ==
    /\ session \in [Sessions -> Work \cup {Idle}]
    /\ \A x \in Sessions : session[x] # Idle => Bound(session[x])
    /\ \A x, y \in Sessions : x # y => Distinct(session[x], session[y])
TxInv == TypeOK /\ SessionsOK

\* An operation is of one of the nine forms, told by its name.
LEMMA WorkForms ==
    ASSUME NEW w \in Work
    PROVE  /\ w.op \in {"create", "decide", "premium", "activate", "close", "source",
                        "reminders", "export", "confirm"}
           /\ w.op = "create" => w \in CreateWork
           /\ w.op = "decide" => w \in DecideWork
           /\ w.op = "premium" => w \in PremiumWork
           /\ w.op = "activate" => w \in ActivateWork
           /\ w.op = "close" => w \in CloseWork
           /\ w.op = "source" => w \in SourceWork
           /\ w.op = "reminders" => w \in RemindersWork
           /\ w.op = "export" => w \in ExportWork
           /\ w.op = "confirm" => w \in ConfirmWork
BY DEF Work, CreateWork, DecideWork, PremiumWork, ActivateWork, CloseWork, SourceWork,
       RemindersWork, ExportWork, ConfirmWork

LEMMA CreateForm ==
    ASSUME NEW w \in Work, w.op = "create"
    PROVE  /\ w.r \in Requests /\ w.p \in Persons /\ w.pl \in Plans /\ w.k \in Claims
           /\ w.taxable \in Nat
<1>1. w \in CreateWork
  BY WorkForms
<1> QED
  BY <1>1 DEF CreateWork

LEMMA DecideForm ==
    ASSUME NEW w \in Work, w.op = "decide"
    PROVE  w.r \in Requests /\ w.verb \in Verbs
<1>1. w \in DecideWork
  BY WorkForms
<1> QED
  BY <1>1 DEF DecideWork

LEMMA PremiumForm ==
    ASSUME NEW w \in Work, w.op = "premium"
    PROVE  /\ w.p \in Persons /\ w.pl \in Plans /\ w.s \in Sources /\ w.new \in BOOLEAN
           /\ w.amount \in Nat
<1>1. w \in PremiumWork
  BY WorkForms
<1> QED
  BY <1>1 DEF PremiumWork

LEMMA PlanForms ==
    ASSUME NEW w \in Work
    PROVE  /\ w.op = "activate" => w.pl \in Plans
           /\ w.op = "close" => w.pl \in Plans /\ w.lost \in [Persons -> Nat]
<1>1. CASE w.op = "activate"
  <2>1. w \in ActivateWork
    BY <1>1, WorkForms
  <2> QED
    BY <1>1, <2>1 DEF ActivateWork
<1>2. CASE w.op = "close"
  <2>1. w \in CloseWork
    BY <1>2, WorkForms
  <2> QED
    BY <1>2, <2>1 DEF CloseWork
<1> QED
  BY <1>1, <1>2

LEMMA SourceForm ==
    ASSUME NEW w \in Work, w.op = "source"
    PROVE  /\ w.s \in Sources /\ w.pl \in Plans /\ w.f \in SourceForms
           /\ w.due \in SUBSET Sources
<1>1. w \in SourceWork
  BY WorkForms
<1> QED
  BY <1>1 DEF SourceWork

LEMMA RemindersForm ==
    ASSUME NEW w \in Work, w.op = "reminders"
    PROVE  w.due \in SUBSET Sources
<1>1. w \in RemindersWork
  BY WorkForms
<1> QED
  BY <1>1 DEF RemindersWork

LEMMA BatchForms ==
    ASSUME NEW w \in Work
    PROVE  /\ w.op = "export" => w.b \in Batches /\ w.toPay \in SUBSET Requests
           /\ w.op = "confirm" => w.b \in Batches
<1>1. CASE w.op = "export"
  <2>1. w \in ExportWork
    BY <1>1, WorkForms
  <2> QED
    BY <1>1, <2>1 DEF ExportWork
<1>2. CASE w.op = "confirm"
  <2>1. w \in ConfirmWork
    BY <1>2, WorkForms
  <2> QED
    BY <1>2, <2>1 DEF ConfirmWork
<1> QED
  BY <1>1, <1>2

LEMMA IdleFacts == Idle.op = "idle" /\ Idle \notin Work
<1>1. Idle.op = "idle"
  BY DEF Idle
<1> QED
  BY <1>1, WorkForms

-------------------------------------------------------------------------------
(* What a commit writes *)

LEMMA WriteForms ==
    ASSUME NEW w, Write(w)
    PROVE  /\ w.op = "create" => DoCreateRequest(w.r, w.p, w.pl, w.k, w.taxable)
           /\ w.op = "decide" => Decide(w.r, w.verb)
           /\ w.op = "premium" => DoChoosePremium(w.p, w.pl, w.amount, w.s)
           /\ w.op = "activate" => DoActivatePlan(w.pl)
           /\ w.op = "close" => DoClosePlan(w.pl, w.lost)
           /\ w.op = "source" => DoAddSource(w.s, w.pl, w.f, w.due, w.pops)
           /\ w.op = "reminders" => DoRunReminders(w.due, w.pops)
           /\ w.op = "export" => DoCreateBatch(w.b, w.toPay)
           /\ w.op = "confirm" => DoConfirmBatch(w.b)
BY DEF Write

LEMMA DecideForms ==
    ASSUME NEW r, NEW verb \in Verbs, Decide(r, verb)
    PROVE  \/ verb = "approved" /\ DoApprove(r)
           \/ verb = "needs_docs" /\ SetNeedsDocs(r)
           \/ verb \in Released /\ Release(r, verb)
BY DEF Decide, Verbs, Released

\* The due sources of a session are there when it commits.
LEMMA DueIsThere ==
    ASSUME TypeOK, NEW w \in Work, Bound(w), w.op = "source"
    PROVE  w.due \in SUBSET {x \in Sources : WithSource(w.s, w.pl, w.f)[x] # None}
<1>1. /\ w.s \in Sources /\ w.pl \in Plans /\ w.f \in SourceForms /\ w.due \in SUBSET Sources
      /\ \A t \in w.due : source[t] # None \/ t = w.s
  BY SourceForm DEF Bound
<1>2. /\ WithSource(w.s, w.pl, w.f)[w.s] # None
      /\ \A x \in Sources \ {w.s} : WithSource(w.s, w.pl, w.f)[x] = source[x]
  BY <1>1, WithSourceType
<1> QED
  BY <1>1, <1>2

LEMMA WriteType ==
    ASSUME TypeOK, NEW w \in Work, Bound(w), Write(w)
    PROVE  TypeOK'
<1>1. CASE w.op = "create"
  BY <1>1, WriteForms, CreateForm, CreateType
<1>2. CASE w.op = "decide"
  <2>1. w.r \in Requests /\ w.verb \in Verbs /\ Decide(w.r, w.verb) /\ req[w.r].status # "none"
    BY <1>2, WriteForms, DecideForm DEF Bound
  <2> QED
    BY <2>1, DecideForms, ReleaseType, ApproveType, NeedsDocsType
<1>3. CASE w.op = "premium"
  BY <1>3, WriteForms, PremiumForm, PremiumType
<1>4. CASE w.op = "activate"
  <2>1. w.pl \in Plans /\ DoActivatePlan(w.pl) /\ status[w.pl] # "none"
    BY <1>4, WriteForms, PlanForms DEF Bound
  <2> QED
    BY <2>1, ActivateType
<1>5. CASE w.op = "close"
  <2>1. /\ w.pl \in Plans /\ w.lost \in [Persons -> Nat] /\ DoClosePlan(w.pl, w.lost)
        /\ status[w.pl] # "none"
    BY <1>5, WriteForms, PlanForms DEF Bound
  <2> QED
    BY <2>1, ClosePlanType
<1>6. CASE w.op = "source"
  <2>1. /\ w.s \in Sources /\ w.pl \in Plans /\ w.f \in SourceForms
        /\ DoAddSource(w.s, w.pl, w.f, w.due, w.pops)
    BY <1>6, WriteForms, SourceForm
  <2>2. w.due \in SUBSET {x \in Sources : WithSource(w.s, w.pl, w.f)[x] # None}
    BY <1>6, DueIsThere
  <2> QED
    BY <2>1, <2>2, AddSourceType
<1>7. CASE w.op = "reminders"
  <2>1. w.due \in SUBSET {s \in Sources : source[s] # None} /\ DoRunReminders(w.due, w.pops)
    BY <1>7, WriteForms, RemindersForm DEF Bound
  <2> QED
    BY <2>1, RunRemindersType
<1>8. CASE w.op = "export"
  <2>1. /\ w.b \in Batches /\ DoCreateBatch(w.b, w.toPay)
        /\ w.toPay \in SUBSET {r \in Requests : req[r].status # "none"}
    BY <1>8, WriteForms, BatchForms DEF Bound
  <2> QED
    BY <2>1, CreateBatchType
<1>9. CASE w.op = "confirm"
  <2>1. w.b \in Batches /\ batch[w.b] # None /\ DoConfirmBatch(w.b)
    BY <1>9, WriteForms, BatchForms DEF Bound
  <2> QED
    BY <2>1, ConfirmType
<1> QED
  BY <1>1, <1>2, <1>3, <1>4, <1>5, <1>6, <1>7, <1>8, <1>9, WorkForms

\* Which tables each operation writes.
LEMMA WriteFrame ==
    ASSUME NEW w \in Work, Write(w)
    PROVE  /\ UNCHANGED <<staff, today, terms, declared, category, limit>>
           /\ w.op \notin {"activate", "close"} => UNCHANGED status
           /\ w.op \notin {"activate", "source", "reminders", "premium"} =>
                    UNCHANGED <<source, credits>>
           /\ w.op \notin {"export", "confirm"} => UNCHANGED batch
           /\ w.op \notin {"create", "decide", "export", "confirm"} => UNCHANGED req
           /\ w.op \notin {"create", "decide"} => UNCHANGED <<entries, used>>
           /\ w.op \in {"export", "confirm"} => UNCHANGED led
           /\ w.op # "premium" => UNCHANGED chosen
<1>1. CASE w.op = "create"
  <2>1. DoCreateRequest(w.r, w.p, w.pl, w.k, w.taxable)
    BY <1>1, WriteForms
  <2> QED
    BY <1>1, <2>1 DEF DoCreateRequest
<1>2. CASE w.op = "decide"
  <2>1. w.r \in Requests /\ w.verb \in Verbs /\ Decide(w.r, w.verb)
    BY <1>2, WriteForms, DecideForm
  <2>2. DoApprove(w.r) \/ SetNeedsDocs(w.r) \/ Release(w.r, w.verb)
    BY <2>1, DecideForms
  <2> QED
    BY <1>2, <2>2 DEF DoApprove, SetNeedsDocs, Release
<1>3. CASE w.op = "premium"
  <2>1. DoChoosePremium(w.p, w.pl, w.amount, w.s)
    BY <1>3, WriteForms
  <2> QED
    BY <1>3, <2>1 DEF DoChoosePremium
<1>4. CASE w.op = "activate"
  <2>1. DoActivatePlan(w.pl)
    BY <1>4, WriteForms
  <2> QED
    BY <1>4, <2>1 DEF DoActivatePlan
<1>5. CASE w.op = "close"
  <2>1. DoClosePlan(w.pl, w.lost)
    BY <1>5, WriteForms
  <2> QED
    BY <1>5, <2>1 DEF DoClosePlan
<1>6. CASE w.op = "source"
  <2>1. DoAddSource(w.s, w.pl, w.f, w.due, w.pops)
    BY <1>6, WriteForms
  <2> QED
    BY <1>6, <2>1 DEF DoAddSource
<1>7. CASE w.op = "reminders"
  <2>1. DoRunReminders(w.due, w.pops)
    BY <1>7, WriteForms
  <2> QED
    BY <1>7, <2>1 DEF DoRunReminders
<1>8. CASE w.op = "export"
  <2>1. DoCreateBatch(w.b, w.toPay)
    BY <1>8, WriteForms
  <2> QED
    BY <1>8, <2>1 DEF DoCreateBatch
<1>9. CASE w.op = "confirm"
  <2>1. DoConfirmBatch(w.b)
    BY <1>9, WriteForms
  <2> QED
    BY <1>9, <2>1 DEF DoConfirmBatch
<1> QED
  BY <1>1, <1>2, <1>3, <1>4, <1>5, <1>6, <1>7, <1>8, <1>9, WorkForms

-------------------------------------------------------------------------------
(* What a commit leaves in place: rows are never deleted, and the only new row *)
(* is the one the operation inserts                                            *)

\* What identifies a request and is never rewritten.
SameRow(r) ==
    /\ req'[r].plan = req[r].plan /\ req'[r].person = req[r].person
    /\ req'[r].amount = req[r].amount

LEMMA RequestsKept ==
    ASSUME TypeOK, NEW w \in Work, Bound(w), Write(w), NEW r \in Requests
    PROVE  /\ req[r].status # "none" => req'[r].status # "none" /\ SameRow(r)
           /\ req[r].status = "none" /\ ~ (w.op = "create" /\ r = w.r) => req'[r] = req[r]
<1> DEFINE Goal == /\ req[r].status # "none" => req'[r].status # "none" /\ SameRow(r)
                   /\ req[r].status = "none" /\ ~ (w.op = "create" /\ r = w.r) => req'[r] = req[r]
<1>1. CASE UNCHANGED req
  BY <1>1 DEF SameRow
<1>2. CASE w.op = "create"
  <2>1. /\ w.r \in Requests /\ req[w.r].status = "none"
        /\ DoCreateRequest(w.r, w.p, w.pl, w.k, w.taxable)
    BY <1>2, CreateForm, WriteForms DEF Bound
  <2>2. r # w.r => req'[r] = req[r]
    BY <2>1 DEF DoCreateRequest, TypeOK
  <2> QED
    BY <1>2, <2>1, <2>2 DEF SameRow
<1>3. CASE w.op = "decide"
  <2>1. w.r \in Requests /\ w.verb \in Verbs /\ Decide(w.r, w.verb) /\ req[w.r].status # "none"
    BY <1>3, WriteForms, DecideForm DEF Bound
  <2>2. PICK stage \in {"needs_docs", "approved", "fulfilled", "cancelled", "rejected"} :
            req' = [req EXCEPT ![w.r].status = stage]
    BY <2>1, DecideForms DEF DoApprove, SetNeedsDocs, Release, Released
  <2>3. CASE r = w.r
    <3>1. req[r] \in RequestRow
      BY <2>1, <2>3, RowFacts
    <3>2. req'[r] = [req[r] EXCEPT !.status = stage]
      BY <2>2, <2>3 DEF TypeOK
    <3> QED
      BY <2>1, <2>3, <3>1, <3>2 DEF SameRow, RequestRow
  <2>4. CASE r # w.r
    <3>1. req'[r] = req[r]
      BY <2>2, <2>4 DEF TypeOK
    <3> QED
      BY <3>1 DEF SameRow
  <2> QED
    BY <2>3, <2>4
<1>4. CASE w.op = "export"
  <2>1. /\ w.toPay \in SUBSET {q \in Requests : req[q].status # "none"}
        /\ DoCreateBatch(w.b, w.toPay)
    BY <1>4, WriteForms, BatchForms DEF Bound
  <2>2. CASE r \in w.toPay
    <3>1. req[r] \in RequestRow /\ req[r].status # "none"
      BY <2>1, <2>2, RowFacts
    <3>2. req'[r] = [req[r] EXCEPT !.status = "in_payroll", !.batch = w.b]
      BY <2>1, <2>2 DEF DoCreateBatch
    <3> QED
      BY <3>1, <3>2 DEF SameRow, RequestRow
  <2>3. CASE r \notin w.toPay
    <3>1. req'[r] = req[r]
      BY <2>1, <2>3 DEF DoCreateBatch
    <3> QED
      BY <3>1 DEF SameRow
  <2> QED
    BY <2>2, <2>3
<1>5. CASE w.op = "confirm"
  <2>1. DoConfirmBatch(w.b)
    BY <1>5, WriteForms
  <2>2. CASE req[r].status = "in_payroll" /\ req'[r] = [req[r] EXCEPT !.status = "paid"]
    <3>1. req[r] \in RequestRow
      BY <2>2, RowFacts
    <3> QED
      BY <2>2, <3>1 DEF SameRow, RequestRow
  <2>3. CASE req'[r] = req[r]
    BY <2>3 DEF SameRow
  <2> QED
    BY <2>1, <2>2, <2>3 DEF DoConfirmBatch
<1>6. ~ UNCHANGED req => w.op \in {"create", "decide", "export", "confirm"}
  BY WriteFrame
<1> QED
  BY <1>1, <1>2, <1>3, <1>4, <1>5, <1>6

\* Crediting adds and removes no source.
LEMMA CreditSourcesKept ==
    ASSUME NEW src \in [Sources -> SourceRow \cup {None}],
           NEW due \in SUBSET {s \in Sources : src[s] # None}, NEW pops,
           CreditSources(src, due, pops), NEW s \in Sources
    PROVE  source'[s] # None <=> src[s] # None
<1>1. source'[s] = IF s \in due THEN [src[s] EXCEPT !.credited = TRUE] ELSE src[s]
  BY DEF CreditSources
<1>2. ASSUME s \in due PROVE [src[s] EXCEPT !.credited = TRUE] \in SourceRow
  BY <1>2 DEF SourceRow
<1> QED
  BY <1>1, <1>2, NoneAssumption

LEMMA SourcesKept ==
    ASSUME TypeOK, NEW w \in Work, Bound(w), Write(w), NEW s \in Sources
    PROVE  /\ source[s] # None => source'[s] # None
           /\ source'[s] # None => source[s] # None \/ (InsertsSource(w) /\ s = w.s)
<1>1. source \in [Sources -> SourceRow \cup {None}]
  BY DEF TypeOK
<1>2. CASE w.op = "activate"
  <2>1. CreditSources(source, Due(source, {w.pl}), ApiPopulations)
    BY <1>2, WriteForms DEF DoActivatePlan
  <2>2. Due(source, {w.pl}) \in SUBSET {x \in Sources : source[x] # None}
    BY DEF Due
  <2> QED
    BY <1>1, <2>1, <2>2, CreditSourcesKept
<1>3. CASE w.op = "reminders"
  <2>1. /\ w.due \in SUBSET {x \in Sources : source[x] # None}
        /\ CreditSources(source, w.due, w.pops)
    BY <1>3, WriteForms, RemindersForm DEF Bound, DoRunReminders
  <2> QED
    BY <1>1, <2>1, CreditSourcesKept
<1>4. CASE w.op = "source"
  <2> DEFINE src == WithSource(w.s, w.pl, w.f)
  <2>1. w.s \in Sources /\ w.pl \in Plans /\ w.f \in SourceForms
    BY <1>4, SourceForm
  <2>2. /\ src \in [Sources -> SourceRow \cup {None}] /\ src[w.s] # None
        /\ \A x \in Sources \ {w.s} : src[x] = source[x]
    BY <2>1, WithSourceType
  <2>3. w.due \in SUBSET {x \in Sources : src[x] # None}
    BY <1>4, DueIsThere
  <2>4. CreditSources(src, w.due, w.pops)
    BY <1>4, WriteForms DEF DoAddSource
  <2> HIDE DEF src
  <2>5. source'[s] # None <=> src[s] # None
    BY <2>2, <2>3, <2>4, CreditSourcesKept
  <2> QED
    BY <1>4, <2>2, <2>5 DEF InsertsSource
<1>5. CASE w.op = "premium"
  <2>1. /\ w.s \in Sources /\ w.pl \in Plans
        /\ w.new <=> source[w.s] = None
        /\ DoChoosePremium(w.p, w.pl, w.amount, w.s)
    BY <1>5, PremiumForm, WriteForms DEF Bound
  <2>2. s # w.s => source'[s] = source[s]
    BY <1>1, <2>1 DEF DoChoosePremium
  <2>3. PremiumRow(w.pl) # None
    BY <2>1, PremiumRowType
  <2>4. source'[w.s] = IF source[w.s] # None THEN source[w.s] ELSE PremiumRow(w.pl)
    BY <1>1, <2>1 DEF DoChoosePremium, PremiumRow
  <2> QED
    BY <1>5, <2>1, <2>2, <2>3, <2>4 DEF InsertsSource
<1>6. w.op \notin {"activate", "reminders", "source", "premium"} => source' = source
  BY WriteFrame
<1> QED
  BY <1>2, <1>3, <1>4, <1>5, <1>6

LEMMA BatchesKept ==
    ASSUME TypeOK, NEW w \in Work, Bound(w), Write(w), NEW b \in Batches
    PROVE  /\ batch[b] # None => batch'[b] # None
           /\ batch'[b] # None => batch[b] # None \/ (w.op = "export" /\ b = w.b)
<1>1. CASE w.op = "export"
  <2>1. w.b \in Batches /\ batch[w.b] = None /\ DoCreateBatch(w.b, w.toPay)
    BY <1>1, WriteForms, BatchForms DEF Bound
  <2>2. b # w.b => batch'[b] = batch[b]
    BY <2>1 DEF DoCreateBatch, TypeOK
  <2> QED
    BY <1>1, <2>1, <2>2
<1>2. CASE w.op = "confirm"
  <2>1. w.b \in Batches /\ batch[w.b] # None /\ DoConfirmBatch(w.b)
    BY <1>2, WriteForms, BatchForms DEF Bound
  <2>2. b # w.b => batch'[b] = batch[b]
    BY <2>1 DEF DoConfirmBatch, TypeOK
  <2>3. [batch[w.b] EXCEPT !.status = "confirmed"] \in BatchRow
    BY <2>1 DEF TypeOK, BatchRow
  <2>4. batch'[w.b] = [batch[w.b] EXCEPT !.status = "confirmed"]
    BY <2>1 DEF DoConfirmBatch, TypeOK
  <2> QED
    BY <2>1, <2>2, <2>3, <2>4, NoneAssumption
<1>3. w.op \notin {"export", "confirm"} => batch' = batch
  BY WriteFrame
<1> QED
  BY <1>1, <1>2, <1>3

LEMMA PlansKept ==
    ASSUME TypeOK, NEW w \in Work, Bound(w), Write(w), NEW pl \in Plans
    PROVE  (status'[pl] = "none") = (status[pl] = "none")
<1>1. CASE w.op \in {"activate", "close"}
  <2>1. w.pl \in Plans /\ status[w.pl] # "none"
    BY <1>1, PlanForms DEF Bound
  <2>2. PICK stage \in {"active", "closed"} : status' = [status EXCEPT ![w.pl] = stage]
    BY <1>1, WriteForms DEF DoActivatePlan, DoClosePlan
  <2> QED
    BY <2>1, <2>2 DEF TypeOK
<1>2. w.op \notin {"activate", "close"} => status' = status
  BY WriteFrame
<1> QED
  BY <1>1, <1>2

-------------------------------------------------------------------------------
(* Sessions stay in order *)

\* The settings, the people and the calendar take no row away.
LEMMA SettingsKept ==
    ASSUME TypeOK, Settings
    PROVE  /\ req' = req /\ source' = source /\ batch' = batch /\ entries' = entries
           /\ \A pl \in Plans : status[pl] # "none" => status'[pl] # "none"
<1>1. ASSUME NEW pl \in Plans, NEW t \in Terms, CreatePlan(pl, t) \/ UpdatePlan(pl, t)
      PROVE  /\ req' = req /\ source' = source /\ batch' = batch /\ entries' = entries
             /\ \A q \in Plans : status[q] # "none" => status'[q] # "none"
  BY <1>1 DEF CreatePlan, UpdatePlan, TypeOK
<1>2. ASSUME ~ \E pl \in Plans, t \in Terms : CreatePlan(pl, t) \/ UpdatePlan(pl, t)
      PROVE  UNCHANGED <<req, source, batch, status, entries>>
  BY <1>2 DEF Settings, Adjust, UpsertCategory, PutThresholds, LoadPresets, Declare, Hire,
     Leave, Tick
<1> QED
  BY <1>1, <1>2

\* What a session is bound to stays true while it waits.
LEMMA BoundStays ==
    ASSUME NEW v \in Work, Bound(v),
           \A r \in Requests : req[r].status # "none" => req'[r].status # "none",
           \A s \in Sources : source[s] # None => source'[s] # None,
           \A b \in Batches : batch[b] # None => batch'[b] # None,
           \A pl \in Plans : status[pl] # "none" => status'[pl] # "none",
           v.op = "create" => req'[v.r].status = "none",
           InsertsSource(v) => source'[v.s] = None,
           v.op = "export" => batch'[v.b] = None
    PROVE  Bound(v)'
<1>1. CASE v.op = "create"
  BY <1>1 DEF Bound
<1>2. CASE v.op = "decide"
  BY <1>2, DecideForm DEF Bound
<1>3. CASE v.op = "premium"
  BY <1>3, PremiumForm DEF Bound, InsertsSource
<1>4. CASE v.op \in {"activate", "close"}
  BY <1>4, PlanForms DEF Bound
<1>5. CASE v.op = "source"
  BY <1>5, SourceForm DEF Bound, InsertsSource
<1>6. CASE v.op = "reminders"
  BY <1>6, RemindersForm DEF Bound
<1>7. CASE v.op \in {"export", "confirm"}
  BY <1>7, BatchForms DEF Bound
<1> QED
  BY <1>1, <1>2, <1>3, <1>4, <1>5, <1>6, <1>7, WorkForms

\* A commit leaves every other session with what it is bound to.
LEMMA CommitBound ==
    ASSUME TypeOK, NEW w \in Work, Bound(w), Write(w), NEW v \in Work, Bound(v), Distinct(v, w)
    PROVE  Bound(v)'
<1>1. \A r \in Requests : req[r].status # "none" => req'[r].status # "none"
  BY RequestsKept
<1>2. \A s \in Sources : source[s] # None => source'[s] # None
  BY SourcesKept
<1>3. \A b \in Batches : batch[b] # None => batch'[b] # None
  BY BatchesKept
<1>4. \A pl \in Plans : status[pl] # "none" => status'[pl] # "none"
  BY PlansKept
<1>5. v.op = "create" => req'[v.r].status = "none"
  BY RequestsKept, CreateForm DEF Distinct, Bound
<1>6. ASSUME InsertsSource(v) PROVE source'[v.s] = None
  <2>1. v.s \in Sources /\ source[v.s] = None
    BY <1>6, SourceForm, PremiumForm DEF InsertsSource, Bound
  <2>2. ~ (InsertsSource(w) /\ v.s = w.s)
    BY <1>6 DEF Distinct
  <2> QED
    BY <2>1, <2>2, SourcesKept
<1>7. v.op = "export" => batch'[v.b] = None
  BY BatchesKept, BatchForms DEF Distinct, Bound
<1> QED
  BY <1>1, <1>2, <1>3, <1>4, <1>5, <1>6, <1>7, BoundStays

LEMMA DistinctIdle ==
    ASSUME NEW w \in Work
    PROVE  Distinct(Idle, w) /\ Distinct(w, Idle) /\ Distinct(Idle, Idle)
<1>1. Idle.op = "idle" /\ w.op # "idle"
  BY IdleFacts, WorkForms
<1> QED
  BY <1>1 DEF Distinct, InsertsSource

\* A session that begins on work of its own joins the others.
LEMMA BeginGoes ==
    ASSUME SessionsOK, NEW x \in Sessions, NEW w \in Work, Bound(w), Begin(x, w),
           \A y \in Sessions : Distinct(session[y], w)
    PROVE  SessionsOK'
<1>1. session' = [session EXCEPT ![x] = w] /\ session[x] = Idle
  BY DEF Begin
<1>2. session' \in [Sessions -> Work \cup {Idle}]
  BY <1>1 DEF SessionsOK
<1>3. ASSUME NEW v PROVE Bound(v)' = Bound(v)
  BY DEF Begin, Bound, vars
<1>4. \A y \in Sessions : Distinct(session[y], w) /\ Distinct(w, session[y])
  BY DEF Distinct
<1>5. session'[x] = w /\ \A y \in Sessions \ {x} : session'[y] = session[y]
  BY <1>1 DEF SessionsOK
<1>6. ASSUME NEW y \in Sessions, session'[y] # Idle PROVE Bound(session[y])'
  <2>1. CASE y = x
    <3>1. Bound(w)' /\ w = session'[y]
      BY <1>3, <1>5, <2>1
    <3> QED
      BY <3>1 DEF Bound
  <2>2. CASE y # x
    <3>1. Bound(session[y])
      BY <1>5, <1>6, <2>2 DEF SessionsOK
    <3>2. session'[y] = session[y]
      BY <1>5, <2>2
    <3>3. PICK v : v = session[y]
      OBVIOUS
    <3>4. Bound(v)' /\ v = session'[y]
      BY <1>3, <3>1, <3>2, <3>3
    <3> QED
      BY <3>4 DEF Bound
  <2> QED
    BY <2>1, <2>2
<1>7. ASSUME NEW y \in Sessions, NEW z \in Sessions, y # z
      PROVE  Distinct(session'[y], session'[z])
  <2>1. Distinct(session[y], session[z])
    BY <1>7 DEF SessionsOK
  <2> QED
    BY <1>4, <1>5, <1>7, <2>1
<1> QED
  BY <1>2, <1>6, <1>7 DEF SessionsOK

\* The other sessions after one has gone idle.
LEMMA GoesIdle ==
    ASSUME SessionsOK, NEW x \in Sessions, session' = [session EXCEPT ![x] = Idle],
           \A y \in Sessions \ {x}, v \in Work : session[y] = v => Bound(v)'
    PROVE  SessionsOK'
<1>1. session' \in [Sessions -> Work \cup {Idle}]
  BY DEF SessionsOK
<1>2. session'[x] = Idle /\ \A y \in Sessions \ {x} : session'[y] = session[y]
  BY DEF SessionsOK
<1>3. ASSUME NEW y \in Sessions, session'[y] # Idle PROVE Bound(session[y])'
  <2>1. y # x /\ session'[y] = session[y] /\ session[y] \in Work
    BY <1>2, <1>3 DEF SessionsOK
  <2>2. PICK v \in Work : v = session[y]
    BY <2>1
  <2>3. Bound(v)' /\ v = session'[y]
    BY <2>1, <2>2
  <2> QED
    BY <2>3 DEF Bound
<1>4. ASSUME NEW y \in Sessions, NEW z \in Sessions, y # z
      PROVE  Distinct(session'[y], session'[z])
  <2>1. session[y] \in Work \cup {Idle} /\ session[z] \in Work \cup {Idle}
    BY DEF SessionsOK
  <2>2. Distinct(session[y], session[z])
    BY <1>4 DEF SessionsOK
  <2>3. y = x => Distinct(Idle, session[z])
    BY <2>1, DistinctIdle, <1>4, <2>2 DEF SessionsOK
  <2>4. z = x => Distinct(session[y], Idle)
    BY <2>1, DistinctIdle, <1>4, <2>2 DEF SessionsOK
  <2> QED
    BY <1>2, <1>4, <2>2, <2>3, <2>4
<1> QED
  BY <1>1, <1>3, <1>4 DEF SessionsOK

\* The populations that a handler reads.
LEMMA PopsType == ASSUME TypeOK PROVE ApiPopulations \in Pops /\ WorkerPopulations \in Pops
<1>1. SavedPlans \in SUBSET Plans
  BY DEF SavedPlans
<1>2. ASSUME NEW t PROVE Population(t) \in SUBSET Persons /\ WorkerPopulation(t) \in SUBSET Persons
  BY DEF Population, WorkerPopulation, Members, TypeOK
<1>3. /\ ApiPopulations \in [SavedPlans -> SUBSET Persons]
      /\ WorkerPopulations \in [SavedPlans -> SUBSET Persons]
  BY <1>2 DEF ApiPopulations, WorkerPopulations
<1> QED
  BY <1>1, <1>3 DEF Pops

LEMMA BeginsOnRequests ==
    ASSUME TypeOK, SessionsOK, NEW x \in Sessions, NEW r \in Requests
    PROVE  /\ \A p \in Persons, pl \in Plans, k \in Claims :
                    BeginCreate(x, r, p, pl, k) => SessionsOK'
           /\ \A verb \in Verbs : BeginDecide(x, r, verb) => SessionsOK'
<1>1. ASSUME NEW p \in Persons, NEW pl \in Plans, NEW k \in Claims, BeginCreate(x, r, p, pl, k)
      PROVE  SessionsOK'
  <2>1. PICK w : w = [op |-> "create", r |-> r, p |-> p, pl |-> pl, k |-> k,
                      taxable |-> TaxableOf(p, k)]
    OBVIOUS
  <2>2. /\ Begin(x, w) /\ req[r].status = "none" /\ category[k.cat] # None
        /\ \A y \in Running("create") : session[y].r # r
    BY <1>1, <2>1 DEF BeginCreate, CanCreateRequest
  <2>3. TaxableOf(p, k) \in Nat
    BY <2>2, TaxableType
  <2>4. w \in Work /\ w.op = "create" /\ w.r = r
    BY <2>1, <2>3 DEF Work, CreateWork
  <2>5. Bound(w)
    BY <2>2, <2>4 DEF Bound
  <2>6. ASSUME NEW y \in Sessions PROVE Distinct(session[y], w)
    BY <2>2, <2>4, <2>6 DEF Running, Distinct, InsertsSource
  <2> QED
    BY <2>2, <2>4, <2>5, <2>6, BeginGoes
<1>2. ASSUME NEW verb \in Verbs, BeginDecide(x, r, verb) PROVE SessionsOK'
  <2>1. PICK w : w = [op |-> "decide", r |-> r, verb |-> verb]
    OBVIOUS
  <2>2. Begin(x, w) /\ req[r].status # "none"
    BY <1>2, <2>1 DEF BeginDecide, CanDecide, OPEN
  <2>3. w \in Work /\ w.op = "decide" /\ w.r = r
    BY <2>1 DEF Work, DecideWork
  <2>4. Bound(w) /\ \A v : Distinct(v, w)
    BY <2>2, <2>3 DEF Bound, Distinct, InsertsSource
  <2> QED
    BY <2>2, <2>3, <2>4, BeginGoes
<1> QED
  BY <1>1, <1>2

LEMMA BeginsOnPlans ==
    ASSUME TypeOK, SessionsOK, NEW x \in Sessions, NEW pl \in Plans
    PROVE  /\ \A p \in Persons : \A percent : BeginPremium(x, p, pl, percent) => SessionsOK'
           /\ BeginActivate(x, pl) \/ BeginClose(x, pl) => SessionsOK'
<1>1. ASSUME NEW p \in Persons, NEW percent, BeginPremium(x, p, pl, percent) PROVE SessionsOK'
  <2>0. PICK s \in Sources :
            /\ source[s] = None => Unclaimed(s)
            /\ Begin(x, [op |-> "premium", p |-> p, pl |-> pl, s |-> s, new |-> source[s] = None,
                         amount |-> RoundPercent(terms[pl].premium, percent)])
    BY <1>1 DEF BeginPremium
  <2>a. PICK new \in BOOLEAN : new = (source[s] = None)
    OBVIOUS
  <2>1. PICK w : w = [op |-> "premium", p |-> p, pl |-> pl, s |-> s, new |-> new,
                      amount |-> RoundPercent(terms[pl].premium, percent)]
    OBVIOUS
  <2>2. Begin(x, w)
    BY <2>0, <2>a, <2>1
  <2>b. status[pl] # "none" /\ CanChoosePremium(p, pl, percent)
    BY <1>1 DEF BeginPremium, CanChoosePremium
  <2>3. RoundPercent(terms[pl].premium, percent) \in Nat
    BY <2>b, PremiumAmount
  <2>4. w \in Work /\ w.op = "premium" /\ w.pl = pl /\ w.s = s /\ w.new = new
    BY <2>1, <2>3 DEF Work, PremiumWork
  <2>5. Bound(w)
    BY <2>a, <2>b, <2>4 DEF Bound
  <2>6. ASSUME NEW y \in Sessions PROVE Distinct(session[y], w)
    BY <2>0, <2>a, <2>4, <2>6 DEF Running, Unclaimed, Distinct, InsertsSource
  <2> QED
    BY <2>2, <2>4, <2>5, <2>6, BeginGoes
<1>2. CASE BeginActivate(x, pl)
  <2>1. PICK w : w = [op |-> "activate", pl |-> pl]
    OBVIOUS
  <2>2. Begin(x, w) /\ status[pl] # "none"
    BY <1>2, <2>1 DEF BeginActivate, CanActivatePlan
  <2>3. w \in Work /\ w.op = "activate" /\ w.pl = pl
    BY <2>1 DEF Work, ActivateWork
  <2>4. Bound(w) /\ \A v : Distinct(v, w)
    BY <2>2, <2>3 DEF Bound, Distinct, InsertsSource
  <2> QED
    BY <2>2, <2>3, <2>4, BeginGoes
<1>3. CASE BeginClose(x, pl)
  <2>1. PICK lost : lost = [p \in Persons |-> Lost(pl, p)]
    OBVIOUS
  <2>2. PICK w : w = [op |-> "close", pl |-> pl, lost |-> lost]
    OBVIOUS
  <2>3. Begin(x, w) /\ status[pl] # "none"
    BY <1>3, <2>1, <2>2 DEF BeginClose, CanClosePlan
  <2>4. lost \in [Persons -> Nat]
    BY <2>1, <2>3, LostType
  <2>5. w \in Work /\ w.op = "close" /\ w.pl = pl
    BY <2>2, <2>4 DEF Work, CloseWork
  <2>6. Bound(w) /\ \A v : Distinct(v, w)
    BY <2>3, <2>5 DEF Bound, Distinct, InsertsSource
  <2> QED
    BY <2>3, <2>5, <2>6, BeginGoes
<1> QED
  BY <1>1, <1>2, <1>3

LEMMA BeginsOnSources ==
    ASSUME TypeOK, SessionsOK, NEW x \in Sessions
    PROVE  /\ \A s \in Sources, pl \in Plans, f \in SourceForms :
                    BeginSource(x, s, pl, f) => SessionsOK'
           /\ BeginReminders(x) => SessionsOK'
<1>1. ASSUME NEW s \in Sources, NEW pl \in Plans, NEW f \in SourceForms, BeginSource(x, s, pl, f)
      PROVE  SessionsOK'
  <2>1. PICK due : due = Due(WithSource(s, pl, f), {pl} \cap ActivePlans)
    OBVIOUS
  <2>2. PICK pops : pops = ApiPopulations
    OBVIOUS
  <2>3. PICK w : w = [op |-> "source", s |-> s, pl |-> pl, f |-> f, pops |-> pops, due |-> due]
    OBVIOUS
  <2>4. /\ Begin(x, w) /\ source[s] = None /\ status[pl] # "none"
        /\ Unclaimed(s)
    <3>1. /\ Begin(x, [op |-> "source", s |-> s, pl |-> pl, f |-> f, pops |-> ApiPopulations,
                       due |-> Due(WithSource(s, pl, f), {pl} \cap ActivePlans)])
          /\ source[s] = None /\ status[pl] # "none"
          /\ Unclaimed(s)
      BY <1>1 DEF BeginSource, CanAddSource
    <3> QED
      BY <2>1, <2>2, <2>3, <3>1
  <2>5. /\ due \in SUBSET Sources
        /\ \A t \in due : source[t] # None \/ t = s
    BY <2>1, WithSourceType DEF Due
  <2>6. w \in Work /\ w.op = "source" /\ w.s = s /\ w.pl = pl /\ w.due = due
    <3>1. pops \in Pops
      BY <2>2, PopsType
    <3>2. w \in SourceWork
      BY <2>3, <2>5, <3>1 DEF SourceWork
    <3> QED
      BY <2>3, <3>2 DEF Work
  <2>7. Bound(w)
    BY <2>4, <2>5, <2>6 DEF Bound
  <2>8. ASSUME NEW y \in Sessions PROVE Distinct(session[y], w)
    BY <2>4, <2>6, <2>8 DEF Running, Unclaimed, Distinct, InsertsSource
  <2> QED
    BY <2>4, <2>6, <2>7, <2>8, BeginGoes
<1>2. CASE BeginReminders(x)
  <2>1. PICK due : due = Due(source, ActivePlans)
    OBVIOUS
  <2>2. PICK pops : pops = WorkerPopulations
    OBVIOUS
  <2>3. PICK w : w = [op |-> "reminders", due |-> due, pops |-> pops]
    OBVIOUS
  <2>4. Begin(x, w)
    BY <1>2, <2>1, <2>2, <2>3 DEF BeginReminders
  <2>5. due \in SUBSET Sources /\ \A t \in due : source[t] # None
    BY <2>1 DEF Due
  <2>6. w \in Work /\ w.op = "reminders" /\ w.due = due
    <3>1. pops \in Pops
      BY <2>2, PopsType
    <3>2. w \in RemindersWork
      BY <2>3, <2>5, <3>1 DEF RemindersWork
    <3> QED
      BY <2>3, <3>2 DEF Work
  <2>7. Bound(w) /\ \A v : Distinct(v, w)
    BY <2>5, <2>6 DEF Bound, Distinct, InsertsSource
  <2> QED
    BY <2>4, <2>6, <2>7, BeginGoes
<1> QED
  BY <1>1, <1>2

LEMMA BeginsOnBatches ==
    ASSUME TypeOK, SessionsOK, NEW x \in Sessions, NEW b \in Batches
    PROVE  BeginExport(x, b) \/ BeginConfirm(x, b) => SessionsOK'
<1>1. CASE BeginExport(x, b)
  <2>1. PICK w : w = [op |-> "export", b |-> b, toPay |-> ToPay]
    OBVIOUS
  <2>2. /\ Begin(x, w) /\ batch[b] = None
        /\ \A y \in Running("export") : session[y].b # b
    BY <1>1, <2>1 DEF BeginExport, CanCreateBatch
  <2>3. /\ ToPay \in SUBSET Requests
        /\ \A r \in ToPay : req[r].status # "none"
    BY DEF ToPay
  <2>4. w \in Work /\ w.op = "export" /\ w.b = b /\ w.toPay = ToPay
    BY <2>1, <2>3 DEF Work, ExportWork
  <2>5. Bound(w)
    BY <2>2, <2>3, <2>4 DEF Bound
  <2>6. ASSUME NEW y \in Sessions PROVE Distinct(session[y], w)
    BY <2>2, <2>4, <2>6 DEF Running, Distinct, InsertsSource
  <2> QED
    BY <2>2, <2>4, <2>5, <2>6, BeginGoes
<1>2. CASE BeginConfirm(x, b)
  <2>1. PICK w : w = [op |-> "confirm", b |-> b]
    OBVIOUS
  <2>2. Begin(x, w) /\ batch[b] # None
    BY <1>2, <2>1 DEF BeginConfirm, CanConfirmBatch
  <2>3. w \in Work /\ w.op = "confirm" /\ w.b = b
    BY <2>1 DEF Work, ConfirmWork
  <2>4. Bound(w) /\ \A v : Distinct(v, w)
    BY <2>2, <2>3 DEF Bound, Distinct, InsertsSource
  <2> QED
    BY <2>2, <2>3, <2>4, BeginGoes
<1> QED
  BY <1>1, <1>2

\* The handlers that stay single steps are those of the serial account.
LEMMA SettingsFacts == ASSUME SettingsStep PROVE Settings /\ session' = session
BY DEF SettingsStep

LEMMA CommitSessions ==
    ASSUME TxInv, NEW x \in Sessions, Commit(x)
    PROVE  /\ session[x] \in Work /\ Bound(session[x]) /\ Write(session[x])
           /\ TypeOK' /\ SessionsOK'
<1>1. session[x] \in Work /\ Bound(session[x]) /\ Write(session[x])
  BY DEF Commit, TxInv, SessionsOK
<1>2. PICK w \in Work : w = session[x]
  BY <1>1
<1>3. Bound(w) /\ Write(w) /\ TypeOK
  BY <1>1, <1>2 DEF TxInv
<1>4. ASSUME NEW y \in Sessions \ {x}, NEW v \in Work, session[y] = v PROVE Bound(v)'
  <2>1. Bound(session[y]) /\ Distinct(session[y], session[x])
    BY <1>4, IdleFacts DEF TxInv, SessionsOK
  <2>2. Bound(v) /\ Distinct(v, w)
    BY <1>2, <1>4, <2>1
  <2> QED
    BY <1>3, <2>2, CommitBound
<1>5. SessionsOK /\ session' = [session EXCEPT ![x] = Idle]
  BY DEF Commit, TxInv
<1> QED
  BY <1>1, <1>3, <1>4, <1>5, WriteType, GoesIdle

LEMMA AbortSessions ==
    ASSUME SessionsOK, NEW x \in Sessions, Abort(x)
    PROVE  SessionsOK'
<1>1. ASSUME NEW y \in Sessions \ {x}, NEW v \in Work, session[y] = v PROVE Bound(v)'
  <2>1. Bound(v)
    BY <1>1, IdleFacts DEF SessionsOK
  <2> QED
    BY <2>1 DEF Bound, Abort, vars
<1> QED
  BY <1>1, GoesIdle DEF Abort

LEMMA SettingsSessions ==
    ASSUME TxInv, SettingsStep
    PROVE  SessionsOK'
<1>1. /\ req' = req /\ source' = source /\ batch' = batch
      /\ \A pl \in Plans : status[pl] # "none" => status'[pl] # "none"
  BY SettingsFacts, SettingsKept DEF TxInv
<1>2. ASSUME NEW v \in Work, Bound(v) PROVE Bound(v)'
  <2>1. InsertsSource(v) => source'[v.s] = None
    BY <1>1, <1>2 DEF Bound, InsertsSource
  <2> QED
    BY <1>1, <1>2, <2>1, BoundStays DEF Bound
<1>3. session' = session
  BY SettingsFacts
<1>4. ASSUME NEW y \in Sessions, session'[y] # Idle PROVE Bound(session[y])'
  <2>1. PICK v \in Work : v = session[y] /\ Bound(v)
    BY <1>3, <1>4 DEF TxInv, SessionsOK
  <2>2. Bound(v)' /\ v = session'[y]
    BY <1>2, <1>3, <2>1
  <2> QED
    BY <2>2 DEF Bound
<1> QED
  BY <1>3, <1>4 DEF TxInv, SessionsOK

\* A step begins or ends a session without touching the account, commits one,
\* or is one of the single steps.
LEMMA TxForms ==
    ASSUME [TxNext]_txVars
    PROVE  UNCHANGED vars \/ (\E x \in Sessions : Commit(x)) \/ SettingsStep
<1>1. CASE UNCHANGED txVars
  BY <1>1 DEF txVars
<1>2. ASSUME NEW x, NEW w, Begin(x, w) \/ Abort(x) PROVE UNCHANGED vars
  BY <1>2 DEF Begin, Abort
<1>3. CASE TxNext
  BY <1>2, <1>3 DEF TxNext, BeginCreate, BeginDecide, BeginPremium, BeginActivate, BeginClose,
     BeginSource, BeginReminders, BeginExport, BeginConfirm
<1> QED
  BY <1>1, <1>3

LEMMA TxStep == ASSUME TxInv, [TxNext]_txVars PROVE TxInv'
<1>1. ASSUME UNCHANGED vars PROVE TypeOK'
  BY <1>1, NextType DEF TxInv
<1>2. ASSUME NEW x \in Sessions, Commit(x) PROVE TxInv'
  BY <1>2, CommitSessions DEF TxInv
<1>3. CASE SettingsStep
  BY <1>3, SettingsFacts, SettingsType, SettingsSessions DEF TxInv
<1>4. ASSUME NEW x \in Sessions,
             \/ \E r \in Requests, p \in Persons, pl \in Plans, k \in Claims :
                    BeginCreate(x, r, p, pl, k)
             \/ \E r \in Requests, verb \in Verbs : BeginDecide(x, r, verb)
             \/ \E p \in Persons, pl \in Plans, percent \in UNION {t.percents : t \in Terms} :
                    BeginPremium(x, p, pl, percent)
             \/ \E pl \in Plans : BeginActivate(x, pl) \/ BeginClose(x, pl)
             \/ \E s \in Sources, pl \in Plans, f \in SourceForms : BeginSource(x, s, pl, f)
             \/ BeginReminders(x)
             \/ \E b \in Batches : BeginExport(x, b) \/ BeginConfirm(x, b)
      PROVE  SessionsOK'
  BY <1>4, BeginsOnRequests, BeginsOnPlans, BeginsOnSources, BeginsOnBatches DEF TxInv
<1>5. ASSUME NEW x \in Sessions, Abort(x) PROVE SessionsOK'
  BY <1>5, AbortSessions DEF TxInv
<1>6. CASE UNCHANGED txVars
  <2>1. SessionsOK' = SessionsOK
    BY <1>6 DEF txVars, vars, SessionsOK, Bound
  <2> QED
    BY <1>1, <1>6, <2>1 DEF txVars, TxInv
<1>7. UNCHANGED vars /\ SessionsOK' => TxInv'
  BY <1>1 DEF TxInv
<1>8. CASE TxNext
  BY <1>2, <1>3, <1>4, <1>5, <1>7, <1>8, TxForms DEF TxNext
<1> QED
  BY <1>6, <1>8

LEMMA TxInitial == TxInit => TxInv
<1> SUFFICES ASSUME TxInit PROVE TxInv
  OBVIOUS
<1>1. session = [x \in Sessions |-> Idle] /\ TypeOK
  BY InitType DEF TxInit
<1>2. session \in [Sessions -> Work \cup {Idle}]
  BY <1>1
<1>3. \A x, y \in Sessions : Distinct(session[x], session[y])
  BY <1>1, IdleFacts DEF Distinct, InsertsSource
<1> QED
  BY <1>1, <1>2, <1>3 DEF TxInv, SessionsOK

\* Under the transactions the program really opens every table keeps its type,
\* and a session commits to rows that are still there and that no other inserts.
THEOREM SessionsSound == TxSpec => []TxInv
BY TxInitial, TxStep, PTL DEF TxSpec

-------------------------------------------------------------------------------
(* The register is explained by the requests *)

Mine(pl, p) == {r \in Requests : /\ req[r].status # "none"
                                 /\ req[r].plan = pl /\ req[r].person = p}
Carried(pl, p, k) == Sum([r \in Mine(pl, p) |-> entries[r][k] * req[r].amount], Mine(pl, p))

\* A request that is not there has no movements.
NoneBooked ==
    \A r \in Requests, k \in EntryKinds : req[r].status = "none" => entries[r][k] = 0
Explained == RegisterExplained /\ NoneBooked

LEMMA ExplainedIs ==
    RegisterExplained <=>
        \A pl \in Plans, p \in Persons, k \in EntryKinds : led[pl][p][k] = Carried(pl, p, k)
BY DEF RegisterExplained, Carried, Mine

LEMMA ExplainedIsNext ==
    RegisterExplained' <=>
        \A pl \in Plans, p \in Persons, k \in EntryKinds : led'[pl][p][k] = Carried(pl, p, k)'
BY DEF RegisterExplained, Carried, Mine

LEMMA MineFacts ==
    ASSUME TypeOK, NEW pl, NEW p, NEW k \in EntryKinds
    PROVE  /\ IsFiniteSet(Mine(pl, p)) /\ Mine(pl, p) \subseteq Requests
           /\ \A r \in Mine(pl, p) : entries[r][k] * req[r].amount \in Nat
<1>1. IsFiniteSet(Mine(pl, p)) /\ Mine(pl, p) \subseteq Requests
  BY ConstantsAssumption, FS_Subset DEF Mine
<1>2. ASSUME NEW r \in Mine(pl, p) PROVE entries[r][k] * req[r].amount \in Nat
  <2>1. r \in Requests /\ req[r].amount \in Nat /\ entries[r][k] \in Nat
    BY RowFacts DEF Mine, TypeOK
  <2> QED
    BY <2>1
<1> QED
  BY <1>1, <1>2

\* The same rows with the same movements carry the same total.
LEMMA CarriedSame ==
    ASSUME NEW pl, NEW p, NEW k, Mine(pl, p)' = Mine(pl, p),
           \A r \in Mine(pl, p) : /\ entries'[r][k] = entries[r][k]
                                  /\ req'[r].amount = req[r].amount
    PROVE  Carried(pl, p, k)' = Carried(pl, p, k)
<1> DEFINE S == Mine(pl, p)
           a == [r \in S |-> entries[r][k] * req[r].amount]
           b == [r \in S |-> entries'[r][k] * req'[r].amount]
<1>1. a = b
  OBVIOUS
<1>2. Carried(pl, p, k)' = Sum(b, S)
  BY DEF Carried
<1>3. Carried(pl, p, k) = Sum(a, S)
  BY DEF Carried
<1> HIDE DEF S, a, b
<1> QED
  BY <1>1, <1>2, <1>3

\* A new row adds what its movements carry.
LEMMA CarriedGain ==
    ASSUME TypeOK, TypeOK', NEW pl, NEW p, NEW k \in EntryKinds, NEW x \in Requests,
           x \notin Mine(pl, p), Mine(pl, p)' = Mine(pl, p) \cup {x},
           \A r \in Mine(pl, p) : /\ entries'[r][k] = entries[r][k]
                                  /\ req'[r].amount = req[r].amount
    PROVE  Carried(pl, p, k)' = Carried(pl, p, k) + entries'[x][k] * req'[x].amount
<1> DEFINE S == Mine(pl, p)
           T == S \cup {x}
           a == [r \in S |-> entries[r][k] * req[r].amount]
           b == [r \in T |-> entries'[r][k] * req'[r].amount]
<1>1. IsFiniteSet(T) /\ x \in T /\ T \ {x} = S
  BY MineFacts, FS_AddElement
<1>2. \A r \in S : b[r] = a[r]
  OBVIOUS
<1>3. ASSUME NEW r \in T PROVE b[r] \in Nat
  <2>1. r \in Requests /\ req'[r].status # "none"
    BY DEF Mine
  <2>2. req'[r] \in RequestRow
    BY <2>1 DEF TypeOK, NoRequest
  <2>3. req'[r].amount \in Nat /\ entries'[r][k] \in Nat
    BY <2>1, <2>2 DEF TypeOK, RequestRow
  <2> QED
    BY <2>3
<1>4. Carried(pl, p, k)' = Sum(b, T)
  BY DEF Carried
<1>5. Carried(pl, p, k) = Sum(a, S)
  BY DEF Carried
<1>6. b[x] = entries'[x][k] * req'[x].amount
  OBVIOUS
<1> HIDE DEF S, T, a, b
<1>7. Sum(b, T) = Sum(a, S) + b[x]
  BY <1>1, <1>2, <1>3, SumGain
<1> QED
  BY <1>4, <1>5, <1>6, <1>7

\* A row whose movements change changes the total by as much.
LEMMA CarriedRebook ==
    ASSUME TypeOK, TypeOK', NEW pl, NEW p, NEW k \in EntryKinds, NEW x \in Mine(pl, p),
           Mine(pl, p)' = Mine(pl, p),
           \A r \in Mine(pl, p) : req'[r].amount = req[r].amount,
           \A r \in Mine(pl, p) \ {x} : entries'[r][k] = entries[r][k]
    PROVE  Carried(pl, p, k)' = Carried(pl, p, k) - entries[x][k] * req[x].amount
                                                  + entries'[x][k] * req[x].amount
<1> DEFINE S == Mine(pl, p)
           a == [r \in S |-> entries[r][k] * req[r].amount]
           b == [r \in S |-> entries'[r][k] * req'[r].amount]
<1>1. IsFiniteSet(S) /\ x \in S
  BY MineFacts
<1>2. \A r \in S \ {x} : b[r] = a[r]
  OBVIOUS
<1>3. \A r \in S : a[r] \in Nat
  BY MineFacts
<1>4. ASSUME NEW r \in S PROVE b[r] \in Nat
  <2>1. r \in Requests /\ req[r].amount \in Nat /\ entries'[r][k] \in Nat
    BY RowFacts DEF Mine, TypeOK
  <2> QED
    BY <2>1
<1>5. Carried(pl, p, k)' = Sum(b, S)
  BY DEF Carried
<1>6. Carried(pl, p, k) = Sum(a, S)
  BY DEF Carried
<1>7. b[x] = entries'[x][k] * req[x].amount /\ a[x] = entries[x][k] * req[x].amount
  OBVIOUS
<1> HIDE DEF S, a, b
<1>8. Sum(b, S) = Sum(a, S \ {x}) + b[x]
  BY <1>1, <1>2, <1>4, SumGain
<1>9. Sum(a, S \ {x}) = Sum(a, S) - a[x]
  BY <1>1, <1>3, SumRemove
<1> QED
  BY <1>5, <1>6, <1>7, <1>8, <1>9

\* A step that books nothing keeps the register explained.
LEMMA ExplainedFrame ==
    ASSUME Explained, entries' = entries,
           \A r \in Requests : \/ req'[r] = req[r]
                               \/ req[r].status # "none" /\ req'[r].status # "none" /\ SameRow(r),
           \A pl \in Plans, p \in Persons, k \in EntryKinds : led'[pl][p][k] = led[pl][p][k]
    PROVE  Explained'
<1>1. ASSUME NEW pl \in Plans, NEW p \in Persons, NEW k \in EntryKinds
      PROVE  Carried(pl, p, k)' = Carried(pl, p, k)
  <2>1. Mine(pl, p)' = Mine(pl, p)
    BY DEF Mine, SameRow
  <2>2. \A r \in Mine(pl, p) : req'[r].amount = req[r].amount
    BY DEF Mine, SameRow
  <2> QED
    BY <2>1, <2>2, CarriedSame
<1>2. NoneBooked'
  BY DEF Explained, NoneBooked
<1>3. RegisterExplained'
  BY <1>1, ExplainedIs, ExplainedIsNext DEF Explained
<1> QED
  BY <1>2, <1>3 DEF Explained

\* The step books movements of the kinds `gains` for request x, at the plan and
\* the person of its row.
Books(x, gains, pl0, p0, amount) ==
    /\ \A r \in Requests \ {x} : req'[r] = req[r] /\ entries'[r] = entries[r]
    /\ req[x].status # "none" => SameRow(x)
    /\ req'[x].status # "none" /\ req'[x].plan = pl0 /\ req'[x].person = p0
    /\ req'[x].amount = amount
    /\ \A k \in EntryKinds :
          entries'[x][k] = entries[x][k] + (IF k \in gains THEN 1 ELSE 0)
    /\ \A pl \in Plans, p \in Persons, k \in EntryKinds :
          led'[pl][p][k] = led[pl][p][k]
                + (IF pl = pl0 /\ p = p0 /\ k \in gains THEN amount ELSE 0)

LEMMA ExplainedBooking ==
    ASSUME TypeOK, TypeOK', Explained, NEW x \in Requests, NEW gains \in SUBSET EntryKinds,
           NEW pl0 \in Plans, NEW p0 \in Persons, NEW amount \in Nat,
           Books(x, gains, pl0, p0, amount)
    PROVE  Explained'
<1> USE DEF Books
<1>1. ASSUME NEW pl \in Plans, NEW p \in Persons, NEW k \in EntryKinds
      PROVE  Carried(pl, p, k)' = Carried(pl, p, k)
                    + (IF pl = pl0 /\ p = p0 /\ k \in gains THEN amount ELSE 0)
  <2>1. Carried(pl, p, k) \in Nat
    <3>1. led[pl][p][k] = Carried(pl, p, k)
      BY ExplainedIs DEF Explained
    <3> QED
      BY <3>1 DEF TypeOK, EntryKinds, Kinds
  <2>2. entries[x][k] \in Nat
    BY DEF TypeOK
  <2>3. CASE pl = pl0 /\ p = p0 /\ req[x].status = "none"
    <3>1. x \notin Mine(pl, p) /\ Mine(pl, p)' = Mine(pl, p) \cup {x}
      BY <2>3 DEF Mine
    <3>2. \A r \in Mine(pl, p) : entries'[r][k] = entries[r][k] /\ req'[r].amount = req[r].amount
      BY <3>1 DEF Mine
    <3>3. Carried(pl, p, k)' = Carried(pl, p, k) + entries'[x][k] * req'[x].amount
      BY <3>1, <3>2, CarriedGain
    <3>4. entries[x][k] = 0
      BY <2>3 DEF Explained, NoneBooked
    <3>5. entries'[x][k] * req'[x].amount = IF k \in gains THEN amount ELSE 0
      BY <3>4
    <3> QED
      BY <2>1, <2>3, <3>3, <3>5
  <2>4. CASE pl = pl0 /\ p = p0 /\ req[x].status # "none"
    <3>1. x \in Mine(pl, p) /\ Mine(pl, p)' = Mine(pl, p) /\ req[x].amount = amount
      BY <2>4 DEF Mine, SameRow
    <3>2. /\ \A r \in Mine(pl, p) : req'[r].amount = req[r].amount
          /\ \A r \in Mine(pl, p) \ {x} : entries'[r][k] = entries[r][k]
      BY <2>4 DEF Mine, SameRow
    <3>3. Carried(pl, p, k)' = Carried(pl, p, k) - entries[x][k] * amount
                                                 + entries'[x][k] * amount
      BY <3>1, <3>2, CarriedRebook
    <3>4. entries[x][k] * amount \in Nat
      BY <2>2
    <3>5. (entries[x][k] + 1) * amount = entries[x][k] * amount + amount
      BY <2>2
    <3>6. entries'[x][k] * amount = entries[x][k] * amount + (IF k \in gains THEN amount ELSE 0)
      BY <2>2, <3>4, <3>5
    <3> QED
      BY <2>1, <2>4, <3>3, <3>4, <3>6
  <2>5. CASE ~ (pl = pl0 /\ p = p0)
    <3>1. x \notin Mine(pl, p) /\ Mine(pl, p)' = Mine(pl, p)
      BY <2>5 DEF Mine, SameRow
    <3>2. \A r \in Mine(pl, p) : entries'[r][k] = entries[r][k] /\ req'[r].amount = req[r].amount
      BY <3>1 DEF Mine
    <3>3. Carried(pl, p, k)' = Carried(pl, p, k)
      BY <3>1, <3>2, CarriedSame
    <3> QED
      BY <2>1, <2>5, <3>3
  <2> QED
    BY <2>3, <2>4, <2>5
<1>2. NoneBooked'
  BY DEF Explained, NoneBooked
<1>3. RegisterExplained'
  BY <1>1, ExplainedIs, ExplainedIsNext DEF Explained
<1> QED
  BY <1>2, <1>3 DEF Explained

\* Posting to a kind that no request books leaves the booked totals alone.
LEMMA PostOther ==
    ASSUME TypeOK, NEW pl0 \in Plans, NEW p0 \in Persons, NEW m \in Kinds \ EntryKinds,
           NEW n \in Nat, led' = [led EXCEPT ![pl0][p0] = Plus(led[pl0][p0], m, n)],
           NEW pl \in Plans, NEW p \in Persons, NEW k \in EntryKinds
    PROVE  led'[pl][p][k] = led[pl][p][k]
<1>1. led[pl0][p0] \in [Kinds -> Nat] /\ k \in Kinds \ {m}
  BY DEF TypeOK, EntryKinds, Kinds
<1>2. Plus(led[pl0][p0], m, n)[k] = led[pl0][p0][k]
  BY <1>1, PlusOther
<1>3. led'[pl][p] = IF pl = pl0 /\ p = p0 THEN Plus(led[pl0][p0], m, n) ELSE led[pl][p]
  BY DEF TypeOK
<1> QED
  BY <1>2, <1>3

\* Only requests book: crediting, choosing a premium, closing and the lots do not.
LEMMA CommitBooksNothing ==
    ASSUME TypeOK, NEW w \in Work, Bound(w), Write(w), w.op \notin {"create", "decide"},
           NEW pl \in Plans, NEW p \in Persons, NEW k \in EntryKinds
    PROVE  led'[pl][p][k] = led[pl][p][k]
<1>1. k \in Kinds \ {"credit"} /\ "credit" \in Kinds \ EntryKinds /\ k \in Kinds \ {"expire"}
  BY DEF EntryKinds, Kinds
<1>2. source \in [Sources -> SourceRow \cup {None}]
  BY DEF TypeOK
<1>3. CASE w.op = "activate"
  <2>1. Due(source, {w.pl}) \in SUBSET {x \in Sources : source[x] # None}
    BY DEF Due
  <2>2. CreditSources(source, Due(source, {w.pl}), ApiPopulations)
    BY <1>3, WriteForms DEF DoActivatePlan
  <2> QED
    BY <1>1, <1>2, <2>1, <2>2, CreditSourcesQuiet
<1>4. CASE w.op = "reminders"
  <2>1. /\ w.due \in SUBSET {x \in Sources : source[x] # None}
        /\ CreditSources(source, w.due, w.pops)
    BY <1>4, WriteForms, RemindersForm DEF Bound, DoRunReminders
  <2> QED
    BY <1>1, <1>2, <2>1, CreditSourcesQuiet
<1>5. CASE w.op = "source"
  <2> DEFINE src == WithSource(w.s, w.pl, w.f)
  <2>1. src \in [Sources -> SourceRow \cup {None}]
    BY <1>5, SourceForm, WithSourceType
  <2>2. w.due \in SUBSET {x \in Sources : src[x] # None}
    BY <1>5, DueIsThere
  <2>3. CreditSources(src, w.due, w.pops)
    BY <1>5, WriteForms DEF DoAddSource
  <2> HIDE DEF src
  <2> QED
    BY <1>1, <2>1, <2>2, <2>3, CreditSourcesQuiet
<1>6. CASE w.op = "premium"
  <2>1. /\ w.p \in Persons /\ w.pl \in Plans /\ w.amount \in Nat
        /\ DoChoosePremium(w.p, w.pl, w.amount, w.s)
    BY <1>6, PremiumForm, WriteForms
  <2>2. led' = [led EXCEPT ![w.pl][w.p] = Plus(led[w.pl][w.p], "credit", w.amount)]
    BY <2>1 DEF DoChoosePremium
  <2> QED
    BY <1>1, <2>1, <2>2, PostOther
<1>7. CASE w.op = "close"
  <2>1. w.pl \in Plans /\ w.lost \in [Persons -> Nat] /\ DoClosePlan(w.pl, w.lost)
    BY <1>7, PlanForms, WriteForms
  <2>2. led' = [led EXCEPT ![w.pl] =
                    [q \in Persons |-> Plus(led[w.pl][q], "expire", w.lost[q])]]
    BY <2>1 DEF DoClosePlan
  <2>3. led'[pl][p] = IF pl = w.pl THEN Plus(led[w.pl][p], "expire", w.lost[p]) ELSE led[pl][p]
    BY <2>1, <2>2 DEF TypeOK
  <2>4. led[w.pl][p] \in [Kinds -> Nat] /\ w.lost[p] \in Nat
    BY <2>1 DEF TypeOK
  <2>5. Plus(led[w.pl][p], "expire", w.lost[p])[k] = led[w.pl][p][k]
    BY <1>1, <2>4, PlusOther, KindNames
  <2> QED
    BY <2>3, <2>5
<1>8. CASE w.op \in {"export", "confirm"}
  BY <1>8, WriteFrame
<1> QED
  BY <1>3, <1>4, <1>5, <1>6, <1>7, <1>8, WorkForms

LEMMA ExplainedCreate ==
    ASSUME TypeOK, TypeOK', Explained, NEW w \in Work, Bound(w), Write(w), w.op = "create"
    PROVE  Explained'
<1>1. PICK r \in Requests, p0 \in Persons, pl0 \in Plans, c \in Claims, taxable \in Nat :
        DoCreateRequest(r, p0, pl0, c, taxable) /\ req[r].status = "none"
  BY CreateForm, WriteForms DEF Bound
<1>2. c.amount \in Nat
  BY ClaimFacts
<1>3. /\ \A x \in Requests \ {r} : req'[x] = req[x] /\ entries'[x] = entries[x]
      /\ req'[r].status # "none" /\ req'[r].plan = pl0 /\ req'[r].person = p0
      /\ req'[r].amount = c.amount
  BY <1>1 DEF DoCreateRequest, TypeOK
<1>4. PICK gains \in SUBSET EntryKinds : gains = {"reserve"}
  BY DEF EntryKinds
<1>5. \A k \in EntryKinds :
        entries'[r][k] = entries[r][k] + (IF k \in gains THEN 1 ELSE 0)
  <2>1. entries[r] \in [EntryKinds -> Nat] /\ entries'[r] = Plus(entries[r], "reserve", 1)
    BY <1>1 DEF DoCreateRequest, TypeOK
  <2> QED
    BY <1>4, <2>1 DEF Plus
<1>6. ASSUME NEW pl \in Plans, NEW p \in Persons, NEW k \in EntryKinds
      PROVE  led'[pl][p][k] = led[pl][p][k]
                + (IF pl = pl0 /\ p = p0 /\ k \in gains THEN c.amount ELSE 0)
  <2>1. led[pl][p] \in [Kinds -> Nat] /\ k \in Kinds
    BY DEF TypeOK, EntryKinds, Kinds
  <2>2. led'[pl][p] = IF pl = pl0 /\ p = p0 THEN Plus(led[pl][p], "reserve", c.amount)
                                            ELSE led[pl][p]
    BY <1>1 DEF DoCreateRequest, TypeOK
  <2>3. Plus(led[pl][p], "reserve", c.amount)[k]
            = led[pl][p][k] + (IF k \in gains THEN c.amount ELSE 0)
    BY <1>2, <1>4, <2>1 DEF Plus
  <2>4. led[pl][p][k] \in Nat
    BY <2>1
  <2> QED
    BY <2>2, <2>3, <2>4
<1>7. Books(r, gains, pl0, p0, c.amount)
  BY <1>1, <1>3, <1>5, <1>6 DEF Books
<1> QED
  BY <1>2, <1>7, ExplainedBooking

LEMMA ExplainedRelease ==
    ASSUME TypeOK, TypeOK', Explained, NEW r \in Requests, req[r].status # "none",
           NEW outcome \in Released, Release(r, outcome)
    PROVE  Explained'
<1>1. PICK pl0 \in Plans, p0 \in Persons, amount \in Nat :
        pl0 = req[r].plan /\ p0 = req[r].person /\ amount = req[r].amount
  BY RowFacts
<1>2. /\ \A x \in Requests \ {r} : req'[x] = req[x] /\ entries'[x] = entries[x]
      /\ req'[r] = [req[r] EXCEPT !.status = outcome]
  BY DEF Release, TypeOK
<1>3. /\ SameRow(r) /\ req'[r].status # "none" /\ req'[r].plan = pl0 /\ req'[r].person = p0
      /\ req'[r].amount = amount
  <2>1. req[r] \in RequestRow
    BY RowFacts
  <2> QED
    BY <1>1, <1>2, <2>1 DEF SameRow, RequestRow, Released
<1>4. PICK gains \in SUBSET EntryKinds : gains = {"release"}
  BY DEF EntryKinds
<1>5. \A k \in EntryKinds :
        entries'[r][k] = entries[r][k] + (IF k \in gains THEN 1 ELSE 0)
  <2>1. entries[r] \in [EntryKinds -> Nat] /\ entries'[r] = Plus(entries[r], "release", 1)
    BY DEF Release, TypeOK
  <2> QED
    BY <1>4, <2>1 DEF Plus
<1>6. ASSUME NEW pl \in Plans, NEW p \in Persons, NEW k \in EntryKinds
      PROVE  led'[pl][p][k] = led[pl][p][k]
                + (IF pl = pl0 /\ p = p0 /\ k \in gains THEN amount ELSE 0)
  <2>1. led[pl][p] \in [Kinds -> Nat] /\ k \in Kinds
    BY DEF TypeOK, EntryKinds, Kinds
  <2>2. led'[pl][p] = IF pl = pl0 /\ p = p0 THEN Plus(led[pl][p], "release", amount)
                                            ELSE led[pl][p]
    BY <1>1 DEF Release, TypeOK
  <2>3. Plus(led[pl][p], "release", amount)[k]
            = led[pl][p][k] + (IF k \in gains THEN amount ELSE 0)
    BY <1>4, <2>1 DEF Plus
  <2>4. led[pl][p][k] \in Nat
    BY <2>1
  <2> QED
    BY <2>2, <2>3, <2>4
<1>7. Books(r, gains, pl0, p0, amount)
  BY <1>2, <1>3, <1>5, <1>6 DEF Books
<1> QED
  BY <1>7, ExplainedBooking

LEMMA ExplainedApprove ==
    ASSUME TypeOK, TypeOK', Explained, NEW r \in Requests, req[r].status # "none", DoApprove(r)
    PROVE  Explained'
<1>1. PICK pl0 \in Plans, p0 \in Persons, amount \in Nat :
        pl0 = req[r].plan /\ p0 = req[r].person /\ amount = req[r].amount
  BY RowFacts
<1>2. PICK stage \in {"approved", "fulfilled"} :
        /\ \A x \in Requests \ {r} : req'[x] = req[x] /\ entries'[x] = entries[x]
        /\ req'[r] = [req[r] EXCEPT !.status = stage]
  BY DEF DoApprove, TypeOK
<1>3. /\ SameRow(r) /\ req'[r].status # "none" /\ req'[r].plan = pl0 /\ req'[r].person = p0
      /\ req'[r].amount = amount
  <2>1. req[r] \in RequestRow
    BY RowFacts
  <2> QED
    BY <1>1, <1>2, <2>1 DEF SameRow, RequestRow
<1>4. PICK gains \in SUBSET EntryKinds : gains = {"release", "spend"}
  BY DEF EntryKinds
<1>5. \A k \in EntryKinds :
        entries'[r][k] = entries[r][k] + (IF k \in gains THEN 1 ELSE 0)
  <2>1. /\ entries[r] \in [EntryKinds -> Nat]
        /\ entries'[r] = Plus(Plus(entries[r], "release", 1), "spend", 1)
    BY DEF DoApprove, TypeOK
  <2> QED
    BY <1>4, <2>1 DEF Plus
<1>6. ASSUME NEW pl \in Plans, NEW p \in Persons, NEW k \in EntryKinds
      PROVE  led'[pl][p][k] = led[pl][p][k]
                + (IF pl = pl0 /\ p = p0 /\ k \in gains THEN amount ELSE 0)
  <2>1. led[pl][p] \in [Kinds -> Nat] /\ k \in Kinds
    BY DEF TypeOK, EntryKinds, Kinds
  <2>2. led'[pl][p] = IF pl = pl0 /\ p = p0
                      THEN Plus(Plus(led[pl][p], "release", amount), "spend", amount)
                      ELSE led[pl][p]
    BY <1>1 DEF DoApprove, TypeOK
  <2>3. Plus(Plus(led[pl][p], "release", amount), "spend", amount)[k]
            = led[pl][p][k] + (IF k \in gains THEN amount ELSE 0)
    BY <1>4, <2>1 DEF Plus
  <2>4. led[pl][p][k] \in Nat
    BY <2>1
  <2> QED
    BY <2>2, <2>3, <2>4
<1>7. Books(r, gains, pl0, p0, amount)
  BY <1>2, <1>3, <1>5, <1>6 DEF Books
<1> QED
  BY <1>7, ExplainedBooking

\* A commit keeps the register explained, whatever its session has read.
LEMMA ExplainedWrite ==
    ASSUME TypeOK, TypeOK', Explained, NEW w \in Work, Bound(w), Write(w)
    PROVE  Explained'
<1>1. CASE w.op = "decide"
  <2>1. /\ w.r \in Requests /\ w.verb \in Verbs /\ Decide(w.r, w.verb)
        /\ req[w.r].status # "none"
    BY <1>1, WriteForms, DecideForm DEF Bound
  <2>2. CASE SetNeedsDocs(w.r)
    <3>1. led' = led /\ entries' = entries
      BY <2>2 DEF SetNeedsDocs
    <3>2. \A r \in Requests : \/ req'[r] = req[r]
                              \/ req[r].status # "none" /\ req'[r].status # "none" /\ SameRow(r)
      BY <1>1, RequestsKept
    <3> QED
      BY <3>1, <3>2, ExplainedFrame
  <2> QED
    BY <2>1, <2>2, DecideForms, ExplainedRelease, ExplainedApprove
<1>2. CASE w.op \notin {"create", "decide"}
  <2>1. entries' = entries
    BY <1>2, WriteFrame
  <2>2. \A r \in Requests : \/ req'[r] = req[r]
                            \/ req[r].status # "none" /\ req'[r].status # "none" /\ SameRow(r)
    BY <1>2, RequestsKept
  <2>3. \A pl \in Plans, p \in Persons, k \in EntryKinds : led'[pl][p][k] = led[pl][p][k]
    BY <1>2, CommitBooksNothing
  <2> QED
    BY <2>1, <2>2, <2>3, ExplainedFrame
<1> QED
  BY <1>1, <1>2, ExplainedCreate

LEMMA ExplainedSettings == ASSUME TypeOK, Explained, Settings PROVE Explained'
<1>1. req' = req /\ entries' = entries
  BY SettingsKept
<1>2. ASSUME NEW pl0 \in Plans, NEW p0 \in Persons, NEW n \in Adjustments, Adjust(pl0, p0, n),
             NEW pl \in Plans, NEW p \in Persons, NEW k \in EntryKinds
      PROVE  led'[pl][p][k] = led[pl][p][k]
  <2>1. n \in Int /\ {"recharge", "clawback"} \subseteq Kinds \ EntryKinds
    BY ConstantsAssumption DEF EntryKinds, Kinds
  <2>2. CASE n >= 0
    <3>1. n \in Nat /\ led' = [led EXCEPT ![pl0][p0] = Plus(led[pl0][p0], "recharge", n)]
      BY <1>2, <2>1, <2>2 DEF Adjust
    <3> QED
      BY <2>1, <3>1, PostOther
  <2>3. CASE ~ n >= 0
    <3>1. -n \in Nat /\ led' = [led EXCEPT ![pl0][p0] = Plus(led[pl0][p0], "clawback", -n)]
      BY <1>2, <2>1, <2>3 DEF Adjust
    <3> QED
      BY <2>1, <3>1, PostOther
  <2> QED
    BY <2>2, <2>3
<1>3. ASSUME ~ \E pl \in Plans, p \in Persons, n \in Adjustments : Adjust(pl, p, n)
      PROVE  led' = led
  BY <1>3 DEF Settings, CreatePlan, UpdatePlan, UpsertCategory, PutThresholds, LoadPresets,
     Declare, Hire, Leave, Tick
<1>4. \A pl \in Plans, p \in Persons, k \in EntryKinds : led'[pl][p][k] = led[pl][p][k]
  BY <1>2, <1>3
<1> QED
  BY <1>1, <1>4, ExplainedFrame

LEMMA ExplainedStep == ASSUME TxInv, TxInv', Explained, [TxNext]_txVars PROVE Explained'
<1>1. CASE UNCHANGED vars
  BY <1>1, ExplainedFrame DEF vars
<1>2. ASSUME NEW x \in Sessions, Commit(x) PROVE Explained'
  <2>1. PICK w \in Work : w = session[x]
    BY <1>2, CommitSessions
  <2>2. Bound(w) /\ Write(w)
    BY <1>2, <2>1, CommitSessions
  <2> QED
    BY <2>2, ExplainedWrite DEF TxInv
<1>3. CASE SettingsStep
  BY <1>3, SettingsFacts, ExplainedSettings DEF TxInv
<1> QED
  BY <1>1, <1>2, <1>3, TxForms

LEMMA ExplainedInit == TxInit => Explained
<1> SUFFICES ASSUME TxInit PROVE Explained
  OBVIOUS
<1>1. Init
  BY DEF TxInit
<1>2. ASSUME NEW pl \in Plans, NEW p \in Persons, NEW k \in EntryKinds
      PROVE  led[pl][p][k] = Carried(pl, p, k)
  <2>1. Mine(pl, p) = {}
    BY <1>1 DEF Init, Mine, NoRequest
  <2>2. Carried(pl, p, k) = 0
    BY <2>1, SumEmpty DEF Carried
  <2> QED
    BY <1>1, <2>2 DEF Init, Kinds, EntryKinds
<1>3. NoneBooked
  BY <1>1 DEF Init, NoneBooked
<1> QED
  BY <1>2, <1>3, ExplainedIs DEF Explained

\* Whatever the interleaving, the reserved, released and spent totals of every
\* account are the movements that carry its requests: no transaction books an
\* amount at a plan or a person other than those of the request's row.
THEOREM AlwaysExplained == TxSpec => []RegisterExplained
<1>1. Explained => RegisterExplained
  BY DEF Explained
<1>2. TxSpec => []Explained
  BY ExplainedInit, ExplainedStep, SessionsSound, PTL DEF TxSpec
<1> QED
  BY <1>1, <1>2, PTL

-------------------------------------------------------------------------------
(* Only an overtaken session leaves the serial account *)

\* What the session of work w has read still stands.
Fresh(w) ==
    /\ w.op = "create" =>
          CanCreateRequest(w.r, w.p, w.pl, w.k) /\ w.taxable = TaxableOf(w.p, w.k)
    /\ w.op = "decide" => CanDecide(w.r)
    /\ w.op = "premium" =>
          \E percent \in UNION {t.percents : t \in Terms} :
             /\ CanChoosePremium(w.p, w.pl, percent)
             /\ w.amount = RoundPercent(terms[w.pl].premium, percent)
    /\ w.op = "premium" => PremiumSource(w.pl, w.s)
    /\ w.op = "activate" => CanActivatePlan(w.pl)
    /\ w.op = "close" => CanClosePlan(w.pl) /\ w.lost = [p \in Persons |-> Lost(w.pl, p)]
    /\ w.op = "source" =>
          /\ CanAddSource(w.s, w.pl) /\ w.pops = ApiPopulations
          /\ w.due = Due(WithSource(w.s, w.pl, w.f), {w.pl} \cap ActivePlans)
    /\ w.op = "reminders" => w.due = Due(source, ActivePlans) /\ w.pops = WorkerPopulations
    /\ w.op = "export" => CanCreateBatch(w.b) /\ w.toPay = ToPay
    /\ w.op = "confirm" => CanConfirmBatch(w.b)

Freshness == \A x \in Sessions : session[x] # Idle /\ x \notin overtaken => Fresh(session[x])

\* The commit of what still stands is a step of the serial account.
LEMMA FreshIsSerial ==
    ASSUME NEW w \in Work, Fresh(w), Write(w)
    PROVE  Next
<1>1. CASE w.op = "create"
  <2>1. CreateRequest(w.r, w.p, w.pl, w.k)
    BY <1>1, WriteForms DEF Fresh, CreateRequest
  <2> QED
    BY <1>1, <2>1, CreateForm DEF Next
<1>2. CASE w.op = "decide"
  <2>1. w.r \in Requests /\ w.verb \in Verbs /\ Decide(w.r, w.verb) /\ CanDecide(w.r)
    BY <1>2, WriteForms, DecideForm DEF Fresh
  <2>2. CancelRequest(w.r) \/ RejectRequest(w.r) \/ ApproveRequest(w.r) \/ AskForDocs(w.r)
    BY <2>1, DecideForms DEF CancelRequest, RejectRequest, ApproveRequest, AskForDocs, Released
  <2> QED
    BY <2>1, <2>2 DEF Next
<1>3. CASE w.op = "premium"
  <2>0. PICK percent \in UNION {t.percents : t \in Terms} :
            /\ CanChoosePremium(w.p, w.pl, percent)
            /\ w.amount = RoundPercent(terms[w.pl].premium, percent)
    BY <1>3 DEF Fresh
  <2>a. w.s \in Sources /\ PremiumSource(w.pl, w.s) /\ DoChoosePremium(w.p, w.pl, w.amount, w.s)
    BY <1>3, WriteForms, PremiumForm DEF Fresh
  <2>1. ChoosePremium(w.p, w.pl, percent)
    BY <2>0, <2>a DEF ChoosePremium
  <2> QED
    BY <1>3, <2>1, PremiumForm DEF Next
<1>4. CASE w.op = "activate"
  <2>1. ActivatePlan(w.pl)
    BY <1>4, WriteForms DEF Fresh, ActivatePlan
  <2> QED
    BY <1>4, <2>1, PlanForms DEF Next
<1>5. CASE w.op = "close"
  <2>1. ClosePlan(w.pl)
    BY <1>5, WriteForms DEF Fresh, ClosePlan
  <2> QED
    BY <1>5, <2>1, PlanForms DEF Next
<1>6. CASE w.op = "source"
  <2>1. AddSource(w.s, w.pl, w.f)
    BY <1>6, WriteForms DEF Fresh, AddSource
  <2> QED
    BY <1>6, <2>1, SourceForm DEF Next
<1>7. CASE w.op = "reminders"
  <2>1. RunReminders
    BY <1>7, WriteForms DEF Fresh, RunReminders
  <2> QED
    BY <2>1 DEF Next
<1>8. CASE w.op = "export"
  <2>1. CreateBatch(w.b)
    BY <1>8, WriteForms DEF Fresh, CreateBatch
  <2> QED
    BY <1>8, <2>1, BatchForms DEF Next
<1>9. CASE w.op = "confirm"
  <2>1. ConfirmBatch(w.b)
    BY <1>9, WriteForms DEF Fresh, ConfirmBatch
  <2> QED
    BY <1>9, <2>1, BatchForms DEF Next
<1> QED
  BY <1>1, <1>2, <1>3, <1>4, <1>5, <1>6, <1>7, <1>8, <1>9, WorkForms

LEMMA WritesForms ==
    ASSUME NEW w
    PROVE  /\ w.op = "create" => Writes(w) = {<<"request", w.r>>, <<"person", w.p>>}
           /\ w.op = "decide" => Writes(w) = {<<"request", w.r>>, <<"person", req[w.r].person>>}
           /\ w.op = "premium" =>
                Writes(w) = {<<"choice", w.p>>, <<"person", w.p>>} \cup
                            (IF w.new THEN {<<"premium", w.pl>>} ELSE {})
           /\ w.op = "activate" =>
                Writes(w) = {<<"plan", w.pl>>, <<"sources">>} \cup Everyone
           /\ w.op = "close" => Writes(w) = {<<"plan", w.pl>>} \cup Everyone
           /\ w.op = "source" =>
                Writes(w) = {<<"sources">>} \cup Everyone \cup
                            (IF w.f.premium THEN {<<"premium", w.pl>>} ELSE {})
           /\ w.op = "reminders" => Writes(w) = {<<"sources">>} \cup Everyone
           /\ w.op = "export" =>
                Writes(w) = {<<"batch", w.b>>} \cup {<<"request", r>> : r \in w.toPay}
           /\ w.op = "confirm" => Writes(w) = {<<"batch", w.b>>} \cup AllRequests
BY DEF Writes

\* A plan, a table of sources, a premium choice or a lot that a commit does not
\* write is as it was.
LEMMA PlanRowHolds ==
    ASSUME TypeOK, NEW w \in Work, Write(w), NEW pl \in Plans, <<"plan", pl>> \notin Writes(w)
    PROVE  status'[pl] = status[pl]
<1>1. CASE w.op \in {"activate", "close"}
  <2>1. w.pl # pl /\ w.pl \in Plans
    BY <1>1, WritesForms, PlanForms
  <2>2. PICK stage : status' = [status EXCEPT ![w.pl] = stage]
    BY <1>1, WriteForms DEF DoActivatePlan, DoClosePlan
  <2> QED
    BY <2>1, <2>2 DEF TypeOK
<1> QED
  BY <1>1, WriteFrame

\* What a premium choice does to the sources.
LEMMA ChoiceSources ==
    ASSUME TypeOK, NEW w \in Work, Bound(w), Write(w), w.op = "premium", NEW s \in Sources
    PROVE  \/ source'[s] = source[s]
           \/ /\ w.new /\ source[s] = None /\ source'[s] # None
              /\ source'[s].premium /\ source'[s].plan = w.pl
<1>1. w.s \in Sources /\ w.pl \in Plans
  BY PremiumForm
<1>2. DoChoosePremium(w.p, w.pl, w.amount, w.s)
  BY WriteForms
<1>3. w.new <=> source[w.s] = None
  BY DEF Bound
<1>4. s # w.s => source'[s] = source[s]
  BY <1>1, <1>2 DEF DoChoosePremium, TypeOK
<1>5. source'[w.s] = IF source[w.s] # None THEN source[w.s] ELSE PremiumRow(w.pl)
  BY <1>1, <1>2 DEF DoChoosePremium, PremiumRow, TypeOK
<1>6. PremiumRow(w.pl) # None
  BY <1>1, PremiumRowType
<1>7. PremiumRow(w.pl).premium /\ PremiumRow(w.pl).plan = w.pl
  BY DEF PremiumRow
<1> QED
  BY <1>3, <1>4, <1>5, <1>6, <1>7

LEMMA SourcesHold ==
    ASSUME TypeOK, NEW w \in Work, Bound(w), Write(w), <<"sources">> \notin Writes(w),
           NEW s \in Sources
    PROVE  \/ source'[s] = source[s]
           \/ source[s] = None /\ source'[s] # None /\ source'[s].premium
<1>1. w.op \notin {"activate", "source", "reminders"}
  BY WritesForms
<1>2. CASE w.op = "premium"
  BY <1>2, ChoiceSources
<1>3. CASE w.op # "premium"
  BY <1>1, <1>3, WriteFrame
<1> QED
  BY <1>2, <1>3

\* Crediting keeps what a source is.
LEMMA CreditSourcesRows ==
    ASSUME NEW src \in [Sources -> SourceRow \cup {None}],
           NEW due \in SUBSET {s \in Sources : src[s] # None}, NEW pops,
           CreditSources(src, due, pops), NEW s \in Sources
    PROVE  /\ source'[s] # None <=> src[s] # None
           /\ src[s] # None => source'[s].plan = src[s].plan /\ source'[s].premium = src[s].premium
<1>1. source'[s] # None <=> src[s] # None
  BY CreditSourcesKept
<1>2. source'[s] = IF s \in due THEN [src[s] EXCEPT !.credited = TRUE] ELSE src[s]
  BY DEF CreditSources
<1>3. CASE s \in due
  <2>1. src[s] \in SourceRow
    BY <1>3
  <2>2. source'[s].plan = src[s].plan /\ source'[s].premium = src[s].premium
    BY <1>2, <1>3, <2>1 DEF SourceRow
  <2> QED
    BY <1>1, <2>2
<1>4. CASE s \notin due
  BY <1>1, <1>2, <1>4
<1> QED
  BY <1>3, <1>4

LEMMA PremiumHolds ==
    ASSUME TypeOK, NEW w \in Work, Bound(w), Write(w), NEW pl \in Plans,
           <<"premium", pl>> \notin Writes(w)
    PROVE  PremiumOf(pl)' = PremiumOf(pl)
<1> SUFFICES ASSUME NEW s \in Sources
             PROVE  source'[s] # None /\ source'[s].plan = pl /\ source'[s].premium
                        <=> source[s] # None /\ source[s].plan = pl /\ source[s].premium
  BY DEF PremiumOf
<1>1. source \in [Sources -> SourceRow \cup {None}]
  BY DEF TypeOK
<1>2. CASE w.op = "activate"
  <2>1. CreditSources(source, Due(source, {w.pl}), ApiPopulations)
    BY <1>2, WriteForms DEF DoActivatePlan
  <2>2. Due(source, {w.pl}) \in SUBSET {x \in Sources : source[x] # None}
    BY DEF Due
  <2> QED
    BY <1>1, <2>1, <2>2, CreditSourcesRows
<1>3. CASE w.op = "reminders"
  <2>1. /\ w.due \in SUBSET {x \in Sources : source[x] # None}
        /\ CreditSources(source, w.due, w.pops)
    BY <1>3, WriteForms, RemindersForm DEF Bound, DoRunReminders
  <2> QED
    BY <1>1, <2>1, CreditSourcesRows
<1>4. CASE w.op = "source"
  <2> DEFINE src == WithSource(w.s, w.pl, w.f)
  <2>1. w.s \in Sources /\ w.pl \in Plans /\ w.f \in SourceForms /\ source[w.s] = None
    BY <1>4, SourceForm DEF Bound
  <2>2. /\ src \in [Sources -> SourceRow \cup {None}] /\ src[w.s] # None
        /\ \A x \in Sources \ {w.s} : src[x] = source[x]
    BY <2>1, WithSourceType
  <2>3. w.due \in SUBSET {x \in Sources : src[x] # None}
    BY <1>4, DueIsThere
  <2>4. CreditSources(src, w.due, w.pops)
    BY <1>4, WriteForms DEF DoAddSource
  <2>5. src[w.s].plan = w.pl /\ src[w.s].premium = w.f.premium
    BY <1>1, <2>1 DEF WithSource
  <2>6. ~ (w.f.premium /\ w.pl = pl)
    BY <1>4, WritesForms
  <2> HIDE DEF src
  <2>7. /\ source'[s] # None <=> src[s] # None
        /\ src[s] # None => source'[s].plan = src[s].plan /\ source'[s].premium = src[s].premium
    BY <2>2, <2>3, <2>4, CreditSourcesRows
  <2>8. CASE s = w.s
    BY <2>1, <2>5, <2>6, <2>7, <2>8
  <2>9. CASE s # w.s
    BY <2>2, <2>7, <2>9
  <2> QED
    BY <2>8, <2>9
<1>5. CASE w.op = "premium"
  <2>1. ~ (w.new /\ w.pl = pl)
    BY <1>5, WritesForms
  <2> QED
    BY <1>5, <2>1, ChoiceSources
<1>6. w.op \notin {"activate", "reminders", "source", "premium"} => source' = source
  BY WriteFrame
<1> QED
  BY <1>2, <1>3, <1>4, <1>5, <1>6

LEMMA ChoiceHolds ==
    ASSUME TypeOK, NEW w \in Work, Write(w), NEW p \in Persons, <<"choice", p>> \notin Writes(w),
           NEW pl \in Plans
    PROVE  chosen'[pl][p] = chosen[pl][p]
<1>1. CASE w.op = "premium"
  <2>1. w.p # p /\ w.p \in Persons /\ w.pl \in Plans /\ DoChoosePremium(w.p, w.pl, w.amount, w.s)
    BY <1>1, WritesForms, WriteForms, PremiumForm
  <2> QED
    BY <2>1 DEF DoChoosePremium, TypeOK
<1> QED
  BY <1>1, WriteFrame

LEMMA BatchRowHolds ==
    ASSUME TypeOK, NEW w \in Work, Write(w), NEW b \in Batches, <<"batch", b>> \notin Writes(w)
    PROVE  batch'[b] = batch[b]
<1>1. CASE w.op \in {"export", "confirm"}
  <2>1. w.b # b /\ w.b \in Batches
    BY <1>1, WritesForms, BatchForms
  <2>2. PICK row : batch' = [batch EXCEPT ![w.b] = row]
    <3>1. CASE w.op = "export"
      BY <3>1, WriteForms DEF DoCreateBatch
    <3>2. CASE w.op = "confirm"
      BY <3>2, WriteForms DEF DoConfirmBatch
    <3> QED
      BY <1>1, <3>1, <3>2
  <2> QED
    BY <2>1, <2>2 DEF TypeOK
<1> QED
  BY <1>1, WriteFrame

LEMMA RequestRowHolds ==
    ASSUME TypeOK, NEW w \in Work, Write(w), NEW r \in Requests,
           <<"request", r>> \notin Writes(w)
    PROVE  req'[r] = req[r]
<1>1. CASE w.op = "create"
  <2>1. w.r # r /\ w.r \in Requests /\ DoCreateRequest(w.r, w.p, w.pl, w.k, w.taxable)
    BY <1>1, WritesForms, WriteForms, CreateForm
  <2> QED
    BY <2>1 DEF DoCreateRequest, TypeOK
<1>2. CASE w.op = "decide"
  <2>1. w.r # r /\ w.r \in Requests /\ w.verb \in Verbs /\ Decide(w.r, w.verb)
    BY <1>2, WritesForms, WriteForms, DecideForm
  <2>2. PICK stage : req' = [req EXCEPT ![w.r].status = stage]
    BY <2>1, DecideForms DEF DoApprove, SetNeedsDocs, Release
  <2> QED
    BY <2>1, <2>2 DEF TypeOK
<1>3. CASE w.op = "export"
  <2>1. r \notin w.toPay /\ DoCreateBatch(w.b, w.toPay)
    BY <1>3, WritesForms, WriteForms
  <2> QED
    BY <2>1 DEF DoCreateBatch
<1>4. CASE w.op = "confirm"
  <2>1. <<"request", r>> \in Writes(w)
    BY <1>4, WritesForms DEF AllRequests
  <2> QED
    BY <2>1
<1> QED
  BY <1>1, <1>2, <1>3, <1>4, WriteFrame

LEMMA PersonHolds ==
    ASSUME TypeOK, NEW w \in Work, Bound(w), Write(w), NEW p \in Persons,
           <<"person", p>> \notin Writes(w)
    PROVE  used'[p] = used[p] /\ \A pl \in Plans : led'[pl][p] = led[pl][p]
<1>1. CASE w.op = "create"
  <2>1. /\ w.p # p /\ w.p \in Persons /\ w.pl \in Plans
        /\ DoCreateRequest(w.r, w.p, w.pl, w.k, w.taxable)
    BY <1>1, WritesForms, WriteForms, CreateForm
  <2> QED
    BY <2>1 DEF DoCreateRequest, TypeOK
<1>2. CASE w.op = "decide"
  <2>1. /\ w.r \in Requests /\ w.verb \in Verbs /\ Decide(w.r, w.verb)
        /\ req[w.r].status # "none" /\ req[w.r].person # p
    BY <1>2, WritesForms, WriteForms, DecideForm DEF Bound
  <2>2. req[w.r].person \in Persons /\ req[w.r].plan \in Plans
    BY <2>1, RowFacts
  <2>3. CASE SetNeedsDocs(w.r)
    BY <2>3 DEF SetNeedsDocs
  <2>4. CASE DoApprove(w.r)
    BY <2>1, <2>2, <2>4 DEF DoApprove, TypeOK
  <2>5. CASE Release(w.r, w.verb)
    BY <2>1, <2>2, <2>5 DEF Release, TypeOK
  <2> QED
    BY <2>1, <2>3, <2>4, <2>5, DecideForms
<1>3. CASE w.op = "premium"
  <2>1. w.p # p /\ w.p \in Persons /\ w.pl \in Plans /\ DoChoosePremium(w.p, w.pl, w.amount, w.s)
    BY <1>3, WritesForms, WriteForms, PremiumForm
  <2> QED
    BY <2>1 DEF DoChoosePremium, TypeOK
<1>4. CASE w.op \in {"activate", "close", "source", "reminders"}
  <2>1. <<"person", p>> \in Writes(w)
    BY <1>4, WritesForms DEF Everyone
  <2> QED
    BY <2>1
<1>5. CASE w.op \in {"export", "confirm"}
  BY <1>5, WriteFrame
<1> QED
  BY <1>1, <1>2, <1>3, <1>4, <1>5, WorkForms

LEMMA ReadsForms ==
    ASSUME NEW v
    PROVE  /\ v.op = "create" => Reads(v) = {<<"plan", v.pl>>, <<"person", v.p>>}
           /\ v.op = "decide" => Reads(v) = {<<"request", v.r>>}
           /\ v.op = "premium" =>
                Reads(v) = {<<"plan", v.pl>>, <<"choice", v.p>>, <<"premium", v.pl>>}
           /\ v.op = "activate" => Reads(v) = {<<"plan", v.pl>>}
           /\ v.op = "close" => Reads(v) = {<<"plan", v.pl>>} \cup Everyone
           /\ v.op = "source" => Reads(v) = {<<"plan", v.pl>>, <<"sources">>}
           /\ v.op = "reminders" => Reads(v) = {<<"plan", pl>> : pl \in Plans} \cup {<<"sources">>}
           /\ v.op = "export" => Reads(v) = AllRequests
           /\ v.op = "confirm" => Reads(v) = {<<"batch", v.b>>}
BY DEF Reads

-------------------------------------------------------------------------------
(* What a session has read stands until a commit writes it *)

\* The commit of w writes nothing that v has read, and no row that v inserts.
Clear(v, w) == Distinct(v, w) /\ Reads(v) \cap Writes(w) = {}

LEMMA CreateStands ==
    ASSUME TypeOK, TypeOK', NEW w \in Work, Bound(w), Write(w),
           NEW v \in Work, v.op = "create", Bound(v), Fresh(v), Clear(v, w)
    PROVE  Fresh(v)'
<1>1. v.r \in Requests /\ v.p \in Persons /\ v.pl \in Plans /\ v.k \in Claims
  BY CreateForm
<1>2. <<"plan", v.pl>> \notin Writes(w) /\ <<"person", v.p>> \notin Writes(w)
  BY ReadsForms DEF Clear
<1>3. /\ status'[v.pl] = status[v.pl] /\ used'[v.p] = used[v.p]
      /\ led'[v.pl][v.p] = led[v.pl][v.p]
  BY <1>1, <1>2, PlanRowHolds, PersonHolds
<1>4. req'[v.r].status = "none"
  BY <1>1, RequestsKept DEF Clear, Distinct, Bound
<1>5. UNCHANGED <<staff, today, terms, declared, category, limit>>
  BY WriteFrame
<1>6. CanCreateRequest(v.r, v.p, v.pl, v.k) /\ v.taxable = TaxableOf(v.p, v.k)
  BY DEF Fresh
<1>7. Population(terms[v.pl])' = Population(terms[v.pl])
  BY <1>5 DEF Population, Members
<1>8. Available(led[v.pl][v.p])' = Available(led[v.pl][v.p])
  BY <1>3 DEF Available, Balance, Floor0
<1>9. CanCreateRequest(v.r, v.p, v.pl, v.k)'
  BY <1>3, <1>4, <1>5, <1>6, <1>7, <1>8 DEF CanCreateRequest
<1>10. TaxableOf(v.p, v.k)' = TaxableOf(v.p, v.k)
  BY <1>3, <1>5 DEF TaxableOf, ThresholdFor
<1> QED
  BY <1>6, <1>9, <1>10 DEF Fresh

LEMMA DecideStands ==
    ASSUME TypeOK, NEW w \in Work, Write(w),
           NEW v \in Work, v.op = "decide", Fresh(v), Clear(v, w)
    PROVE  Fresh(v)'
<1>1. v.r \in Requests /\ <<"request", v.r>> \notin Writes(w)
  BY DecideForm, ReadsForms DEF Clear
<1>2. req'[v.r] = req[v.r]
  BY <1>1, RequestRowHolds
<1> QED
  BY <1>2 DEF Fresh, CanDecide

LEMMA PremiumStands ==
    ASSUME TypeOK, NEW w \in Work, Bound(w), Write(w),
           NEW v \in Work, v.op = "premium", Bound(v), Fresh(v), Clear(v, w)
    PROVE  Fresh(v)'
<1>1. v.p \in Persons /\ v.pl \in Plans
  BY PremiumForm
<1>2. /\ <<"plan", v.pl>> \notin Writes(w) /\ <<"choice", v.p>> \notin Writes(w)
      /\ <<"premium", v.pl>> \notin Writes(w)
  BY ReadsForms DEF Clear
<1>3. status'[v.pl] = status[v.pl] /\ chosen'[v.pl][v.p] = chosen[v.pl][v.p]
  BY <1>1, <1>2, PlanRowHolds, ChoiceHolds
<1>4. today' = today /\ terms' = terms
  BY WriteFrame
<1>5. PICK percent \in UNION {t.percents : t \in Terms} :
        /\ CanChoosePremium(v.p, v.pl, percent)
        /\ v.amount = RoundPercent(terms[v.pl].premium, percent)
  BY DEF Fresh
<1>6. /\ CanChoosePremium(v.p, v.pl, percent)'
      /\ v.amount = RoundPercent(terms'[v.pl].premium, percent)
  BY <1>3, <1>4, <1>5 DEF CanChoosePremium
<1>7. PremiumSource(v.pl, v.s)'
  <2>1. PremiumOf(v.pl)' = PremiumOf(v.pl)
    BY <1>1, <1>2, PremiumHolds
  <2>2. source[v.s] = None => source'[v.s] = None
    <3>1. Bound(v)'
      BY CommitBound DEF Clear
    <3> QED
      BY <3>1 DEF Bound
  <2>3. PremiumSource(v.pl, v.s)
    BY DEF Fresh
  <2> QED
    BY <2>1, <2>2, <2>3 DEF PremiumSource
<1> QED
  BY <1>6, <1>7 DEF Fresh

LEMMA CloseStands ==
    ASSUME TypeOK, NEW w \in Work, Bound(w), Write(w),
           NEW v \in Work, v.op = "close", Fresh(v), Clear(v, w)
    PROVE  Fresh(v)'
<1>1. v.pl \in Plans /\ <<"plan", v.pl>> \notin Writes(w)
  BY PlanForms, ReadsForms DEF Clear
<1>2. \A p \in Persons : <<"person", p>> \notin Writes(w)
  BY ReadsForms DEF Clear, Everyone
<1>3. status'[v.pl] = status[v.pl] /\ \A p \in Persons : led'[v.pl][p] = led[v.pl][p]
  BY <1>1, <1>2, PlanRowHolds, PersonHolds
<1>4. terms' = terms
  BY WriteFrame
<1>5. \A p \in Persons : Lost(v.pl, p)' = Lost(v.pl, p)
  BY <1>3, <1>4 DEF Lost, RoundPercent, Floor0, Balance
<1>6. CanClosePlan(v.pl) /\ v.lost = [p \in Persons |-> Lost(v.pl, p)]
  BY DEF Fresh
<1>7. [p \in Persons |-> Lost(v.pl, p)]' = [p \in Persons |-> Lost(v.pl, p)]
  BY <1>5
<1>8. CanClosePlan(v.pl)'
  BY <1>3, <1>6 DEF CanClosePlan
<1> QED
  BY <1>6, <1>7, <1>8 DEF Fresh

LEMMA SourceStands ==
    ASSUME TypeOK, TypeOK', NEW w \in Work, Bound(w), Write(w),
           NEW v \in Work, v.op = "source", Bound(v), Fresh(v), Clear(v, w)
    PROVE  Fresh(v)'
<1>1. v.s \in Sources /\ v.pl \in Plans
  BY SourceForm
<1>2. <<"plan", v.pl>> \notin Writes(w) /\ <<"sources">> \notin Writes(w)
  BY ReadsForms DEF Clear
<1>3. status'[v.pl] = status[v.pl]
  BY <1>1, <1>2, PlanRowHolds
<1>a. ASSUME NEW s \in Sources
      PROVE  \/ source'[s] = source[s]
             \/ source[s] = None /\ source'[s] # None /\ source'[s].premium
  BY <1>2, SourcesHold
<1>4. staff' = staff /\ today' = today /\ terms' = terms
  BY WriteFrame
<1>5. /\ CanAddSource(v.s, v.pl) /\ v.pops = ApiPopulations
      /\ v.due = Due(WithSource(v.s, v.pl, v.f), {v.pl} \cap ActivePlans)
  BY DEF Fresh
<1>b. source'[v.s] = None
  <2>1. Bound(v)'
    BY CommitBound DEF Clear
  <2> QED
    BY <2>1 DEF Bound
<1>6. CanAddSource(v.s, v.pl)'
  BY <1>3, <1>5, <1>b DEF CanAddSource
<1>7. SavedPlans' = SavedPlans
  BY PlansKept DEF SavedPlans
<1>8. ApiPopulations' = ApiPopulations
  BY <1>4, <1>7 DEF ApiPopulations, Population, Members
<1>9. ({v.pl} \cap ActivePlans)' = {v.pl} \cap ActivePlans
  BY <1>3 DEF ActivePlans
<1>10. ASSUME NEW s \in Sources
       PROVE  \/ WithSource(v.s, v.pl, v.f)'[s] = WithSource(v.s, v.pl, v.f)[s]
              \/ /\ WithSource(v.s, v.pl, v.f)[s] = None
                 /\ WithSource(v.s, v.pl, v.f)'[s].premium
  <2>1. /\ source \in [Sources -> SourceRow \cup {None}]
        /\ source' \in [Sources -> SourceRow \cup {None}]
    BY DEF TypeOK
  <2>2. CASE s = v.s
    BY <2>1, <2>2 DEF WithSource
  <2>3. CASE s # v.s
    <3>1. /\ WithSource(v.s, v.pl, v.f)[s] = source[s]
          /\ WithSource(v.s, v.pl, v.f)'[s] = source'[s]
      BY <2>1, <2>3 DEF WithSource
    <3> QED
      BY <1>a, <3>1
  <2> QED
    BY <2>2, <2>3
<1>11. Due(WithSource(v.s, v.pl, v.f), {v.pl} \cap ActivePlans)'
          = Due(WithSource(v.s, v.pl, v.f), {v.pl} \cap ActivePlans)
  BY <1>4, <1>9, <1>10 DEF Due
<1> QED
  BY <1>5, <1>6, <1>8, <1>11 DEF Fresh

LEMMA RemindersStand ==
    ASSUME TypeOK, NEW w \in Work, Bound(w), Write(w),
           NEW v \in Work, v.op = "reminders", Fresh(v), Clear(v, w)
    PROVE  Fresh(v)'
<1>1. <<"sources">> \notin Writes(w) /\ \A pl \in Plans : <<"plan", pl>> \notin Writes(w)
  BY ReadsForms DEF Clear
<1>2. \A pl \in Plans : status'[pl] = status[pl]
  BY <1>1, PlanRowHolds
<1>a. ASSUME NEW s \in Sources
      PROVE  \/ source'[s] = source[s]
             \/ source[s] = None /\ source'[s] # None /\ source'[s].premium
  BY <1>1, SourcesHold
<1>3. staff' = staff /\ today' = today /\ terms' = terms
  BY WriteFrame
<1>4. SavedPlans' = SavedPlans /\ ActivePlans' = ActivePlans
  BY <1>2 DEF SavedPlans, ActivePlans
<1>5. WorkerPopulations' = WorkerPopulations
  BY <1>3, <1>4 DEF WorkerPopulations, WorkerPopulation, Members
<1>6. Due(source, ActivePlans)' = Due(source, ActivePlans)
  BY <1>3, <1>4, <1>a DEF Due
<1> QED
  BY <1>5, <1>6 DEF Fresh

LEMMA ExportStands ==
    ASSUME TypeOK, NEW w \in Work, Bound(w), Write(w),
           NEW v \in Work, v.op = "export", Bound(v), Fresh(v), Clear(v, w)
    PROVE  Fresh(v)'
<1>1. v.b \in Batches /\ \A r \in Requests : <<"request", r>> \notin Writes(w)
  BY BatchForms, ReadsForms DEF Clear, AllRequests
<1>2. \A r \in Requests : req'[r] = req[r]
  BY <1>1, RequestRowHolds
<1>3. ToPay' = ToPay
  BY <1>2 DEF ToPay
<1>4. batch'[v.b] = None
  BY <1>1, BatchesKept DEF Clear, Distinct, Bound
<1>5. CanCreateBatch(v.b) /\ v.toPay = ToPay
  BY DEF Fresh
<1>6. CanCreateBatch(v.b)'
  BY <1>3, <1>4, <1>5 DEF CanCreateBatch
<1> QED
  BY <1>3, <1>5, <1>6 DEF Fresh

LEMMA ReadsStand ==
    ASSUME TypeOK, TypeOK', NEW w \in Work, Bound(w), Write(w),
           NEW v \in Work, Bound(v), Fresh(v), Clear(v, w)
    PROVE  Fresh(v)'
<1>1. CASE v.op = "activate"
  <2>1. v.pl \in Plans /\ <<"plan", v.pl>> \notin Writes(w)
    BY <1>1, PlanForms, ReadsForms DEF Clear
  <2>2. status'[v.pl] = status[v.pl]
    BY <2>1, PlanRowHolds
  <2> QED
    BY <1>1, <2>2 DEF Fresh, CanActivatePlan
<1>2. CASE v.op = "confirm"
  <2>1. v.b \in Batches /\ <<"batch", v.b>> \notin Writes(w)
    BY <1>2, BatchForms, ReadsForms DEF Clear
  <2>2. batch'[v.b] = batch[v.b]
    BY <2>1, BatchRowHolds
  <2> QED
    BY <1>2, <2>2 DEF Fresh, CanConfirmBatch
<1> QED
  BY <1>1, <1>2, CreateStands, DecideStands, PremiumStands, CloseStands, SourceStands,
     RemindersStand, ExportStands, WorkForms

\* A session that begins has just read what it reads.
LEMMA BeginFresh ==
    ASSUME NEW x \in Sessions,
           \/ \E r \in Requests, p \in Persons, pl \in Plans, k \in Claims :
                  BeginCreate(x, r, p, pl, k)
           \/ \E r \in Requests, verb \in Verbs : BeginDecide(x, r, verb)
           \/ \E p \in Persons, pl \in Plans, percent \in UNION {t.percents : t \in Terms} :
                  BeginPremium(x, p, pl, percent)
           \/ \E pl \in Plans : BeginActivate(x, pl) \/ BeginClose(x, pl)
           \/ \E s \in Sources, pl \in Plans, f \in SourceForms : BeginSource(x, s, pl, f)
           \/ BeginReminders(x)
           \/ \E b \in Batches : BeginExport(x, b) \/ BeginConfirm(x, b)
    PROVE  \E w : Begin(x, w) /\ Fresh(w)
<1>1. ASSUME NEW r, NEW p, NEW pl, NEW k, BeginCreate(x, r, p, pl, k)
      PROVE  \E w : Begin(x, w) /\ Fresh(w)
  <2>1. PICK w : w = [op |-> "create", r |-> r, p |-> p, pl |-> pl, k |-> k,
                      taxable |-> TaxableOf(p, k)]
    OBVIOUS
  <2>2. Begin(x, w) /\ CanCreateRequest(r, p, pl, k)
    BY <1>1, <2>1 DEF BeginCreate
  <2> QED
    BY <2>1, <2>2 DEF Fresh
<1>2. ASSUME NEW r, NEW verb, BeginDecide(x, r, verb) PROVE \E w : Begin(x, w) /\ Fresh(w)
  <2>1. PICK w : w = [op |-> "decide", r |-> r, verb |-> verb]
    OBVIOUS
  <2>2. Begin(x, w) /\ CanDecide(r)
    BY <1>2, <2>1 DEF BeginDecide
  <2> QED
    BY <2>1, <2>2 DEF Fresh
<1>3. ASSUME NEW p, NEW pl, NEW percent \in UNION {t.percents : t \in Terms},
             BeginPremium(x, p, pl, percent)
      PROVE  \E w : Begin(x, w) /\ Fresh(w)
  <2>0. PICK s \in Sources :
            /\ PremiumSource(pl, s)
            /\ Begin(x, [op |-> "premium", p |-> p, pl |-> pl, s |-> s, new |-> source[s] = None,
                         amount |-> RoundPercent(terms[pl].premium, percent)])
    BY <1>3 DEF BeginPremium
  <2>1. PICK w : w = [op |-> "premium", p |-> p, pl |-> pl, s |-> s, new |-> source[s] = None,
                      amount |-> RoundPercent(terms[pl].premium, percent)]
    OBVIOUS
  <2>2. Begin(x, w) /\ CanChoosePremium(p, pl, percent)
    BY <1>3, <2>0, <2>1 DEF BeginPremium
  <2>3. /\ w.op = "premium" /\ w.p = p /\ w.pl = pl /\ w.s = s
        /\ w.amount = RoundPercent(terms[pl].premium, percent)
    BY <2>1
  <2>4. Fresh(w)
    BY <2>0, <2>2, <2>3 DEF Fresh
  <2> QED
    BY <2>2, <2>4
<1>4. ASSUME NEW pl, BeginActivate(x, pl) PROVE \E w : Begin(x, w) /\ Fresh(w)
  <2>1. PICK w : w = [op |-> "activate", pl |-> pl]
    OBVIOUS
  <2>2. Begin(x, w) /\ CanActivatePlan(pl)
    BY <1>4, <2>1 DEF BeginActivate
  <2> QED
    BY <2>1, <2>2 DEF Fresh
<1>5. ASSUME NEW pl, BeginClose(x, pl) PROVE \E w : Begin(x, w) /\ Fresh(w)
  <2> DEFINE lost == [p \in Persons |-> Lost(pl, p)]
             w == [op |-> "close", pl |-> pl, lost |-> lost]
  <2>1. Begin(x, w) /\ CanClosePlan(pl)
    BY <1>5 DEF BeginClose
  <2>2. w.op = "close" /\ w.pl = pl /\ w.lost = lost
    OBVIOUS
  <2> HIDE DEF w
  <2>3. Fresh(w)
    BY <2>1, <2>2 DEF Fresh
  <2> QED
    BY <2>1, <2>3
<1>6. ASSUME NEW s, NEW pl, NEW f, BeginSource(x, s, pl, f)
      PROVE  \E w : Begin(x, w) /\ Fresh(w)
  <2> DEFINE due == Due(WithSource(s, pl, f), {pl} \cap ActivePlans)
             w == [op |-> "source", s |-> s, pl |-> pl, f |-> f, pops |-> ApiPopulations,
                   due |-> due]
  <2>1. Begin(x, w) /\ CanAddSource(s, pl)
    BY <1>6 DEF BeginSource
  <2> HIDE DEF due
  <2>2. /\ w.op = "source" /\ w.s = s /\ w.pl = pl /\ w.f = f /\ w.pops = ApiPopulations
        /\ w.due = due
    OBVIOUS
  <2> HIDE DEF w
  <2>3. Fresh(w)
    BY <2>1, <2>2 DEF Fresh, due
  <2> QED
    BY <2>1, <2>3
<1>7. ASSUME BeginReminders(x) PROVE \E w : Begin(x, w) /\ Fresh(w)
  <2>1. PICK w : w = [op |-> "reminders", due |-> Due(source, ActivePlans),
                      pops |-> WorkerPopulations]
    OBVIOUS
  <2>2. Begin(x, w)
    BY <1>7, <2>1 DEF BeginReminders
  <2> QED
    BY <2>1, <2>2 DEF Fresh
<1>8. ASSUME NEW b, BeginExport(x, b) PROVE \E w : Begin(x, w) /\ Fresh(w)
  <2>1. PICK w : w = [op |-> "export", b |-> b, toPay |-> ToPay]
    OBVIOUS
  <2>2. Begin(x, w) /\ CanCreateBatch(b)
    BY <1>8, <2>1 DEF BeginExport
  <2> QED
    BY <2>1, <2>2 DEF Fresh
<1>9. ASSUME NEW b, BeginConfirm(x, b) PROVE \E w : Begin(x, w) /\ Fresh(w)
  <2>1. PICK w : w = [op |-> "confirm", b |-> b]
    OBVIOUS
  <2>2. Begin(x, w) /\ CanConfirmBatch(b)
    BY <1>9, <2>1 DEF BeginConfirm
  <2> QED
    BY <2>1, <2>2 DEF Fresh
<1> QED
  BY <1>1, <1>2, <1>3, <1>4, <1>5, <1>6, <1>7, <1>8, <1>9

\* A step that leaves the account alone leaves what stands standing.
LEMMA FreshFrame == ASSUME UNCHANGED vars, NEW w, Fresh(w) PROVE Fresh(w)'
<1> USE DEF vars, Fresh
<1>1. /\ (CanCreateRequest(w.r, w.p, w.pl, w.k))' = CanCreateRequest(w.r, w.p, w.pl, w.k)
      /\ TaxableOf(w.p, w.k)' = TaxableOf(w.p, w.k)
  BY DEF CanCreateRequest, Population, Members, Available, Balance, TaxableOf, ThresholdFor
<1>2. /\ CanDecide(w.r)' = CanDecide(w.r)
      /\ \A percent : CanChoosePremium(w.p, w.pl, percent)'
                        = CanChoosePremium(w.p, w.pl, percent)
      /\ CanActivatePlan(w.pl)' = CanActivatePlan(w.pl)
      /\ CanClosePlan(w.pl)' = CanClosePlan(w.pl)
      /\ CanAddSource(w.s, w.pl)' = CanAddSource(w.s, w.pl)
      /\ CanConfirmBatch(w.b)' = CanConfirmBatch(w.b)
      /\ PremiumSource(w.pl, w.s)' = PremiumSource(w.pl, w.s)
  BY DEF PremiumSource, PremiumOf, CanDecide, CanChoosePremium, CanActivatePlan, CanClosePlan, CanAddSource,
     CanConfirmBatch
<1>3. \A p : Lost(w.pl, p)' = Lost(w.pl, p)
  BY DEF Lost, Balance
<1>4. ActivePlans' = ActivePlans /\ SavedPlans' = SavedPlans /\ ToPay' = ToPay
  BY DEF ActivePlans, SavedPlans, ToPay
<1>5. ApiPopulations' = ApiPopulations /\ WorkerPopulations' = WorkerPopulations
  BY <1>4 DEF ApiPopulations, WorkerPopulations, Population, WorkerPopulation, Members
<1>6. /\ Due(source, ActivePlans)' = Due(source, ActivePlans)
      /\ Due(WithSource(w.s, w.pl, w.f), {w.pl} \cap ActivePlans)'
            = Due(WithSource(w.s, w.pl, w.f), {w.pl} \cap ActivePlans)
  BY <1>4 DEF Due, WithSource
<1>7. CanCreateBatch(w.b)' = CanCreateBatch(w.b)
  BY <1>4 DEF CanCreateBatch
<1> QED
  BY <1>1, <1>2, <1>3, <1>4, <1>5, <1>6, <1>7

LEMMA BeginFreshness ==
    ASSUME SessionsOK, Freshness, NEW x \in Sessions, NEW w, Begin(x, w), Fresh(w)
    PROVE  Freshness'
<1>1. /\ session' = [session EXCEPT ![x] = w] /\ overtaken' = overtaken \ {x}
      /\ UNCHANGED vars
  BY DEF Begin
<1>2. ASSUME NEW y \in Sessions, session'[y] # Idle, y \notin overtaken'
      PROVE  Fresh(session[y])'
  <2>1. PICK v : v = session'[y]
    OBVIOUS
  <2>2. Fresh(v)
    <3>1. CASE y = x
      BY <1>1, <2>1, <3>1 DEF SessionsOK
    <3>2. CASE y # x
      <4>1. session'[y] = session[y] /\ y \notin overtaken
        BY <1>1, <1>2, <3>2 DEF SessionsOK
      <4> QED
        BY <1>2, <2>1, <4>1 DEF Freshness
    <3> QED
      BY <3>1, <3>2
  <2>3. Fresh(v)'
    BY <1>1, <2>2, FreshFrame
  <2> QED
    BY <2>1, <2>3 DEF Fresh
<1> QED
  BY <1>2 DEF Freshness

LEMMA AbortFreshness ==
    ASSUME SessionsOK, Freshness, NEW x \in Sessions, Abort(x)
    PROVE  Freshness'
<1>1. /\ session' = [session EXCEPT ![x] = Idle] /\ overtaken' = overtaken \ {x}
      /\ UNCHANGED vars
  BY DEF Abort
<1>2. ASSUME NEW y \in Sessions, session'[y] # Idle, y \notin overtaken'
      PROVE  Fresh(session[y])'
  <2>1. y # x /\ session'[y] = session[y] /\ y \notin overtaken
    BY <1>1, <1>2 DEF SessionsOK
  <2>2. PICK v : v = session[y] /\ Fresh(v)
    BY <1>2, <2>1 DEF Freshness
  <2>3. Fresh(v)' /\ v = session'[y]
    BY <1>1, <2>1, <2>2, FreshFrame
  <2> QED
    BY <2>3 DEF Fresh
<1> QED
  BY <1>2 DEF Freshness

LEMMA CommitFreshness ==
    ASSUME TxInv, Freshness, NEW x \in Sessions, Commit(x)
    PROVE  Freshness'
<1>1. PICK w \in Work : w = session[x] /\ Bound(w) /\ Write(w)
  BY CommitSessions
<1>2. TypeOK /\ TypeOK'
  BY CommitSessions DEF TxInv
<1>3. /\ session' = [session EXCEPT ![x] = Idle]
      /\ overtaken' = (overtaken \ {x}) \cup
            {y \in Busy \ {x} : Reads(session[y]) \cap Writes(session[x]) # {}}
  BY DEF Commit
<1>4. ASSUME NEW y \in Sessions, session'[y] # Idle, y \notin overtaken'
      PROVE  Fresh(session[y])'
  <2>1. y # x /\ session'[y] = session[y] /\ session[y] # Idle
    BY <1>3, <1>4 DEF TxInv, SessionsOK
  <2>2. y \notin overtaken /\ Reads(session[y]) \cap Writes(session[x]) = {}
    BY <1>3, <1>4, <2>1 DEF Busy
  <2>3. /\ session[y] \in Work /\ Bound(session[y]) /\ Distinct(session[y], session[x])
        /\ Fresh(session[y])
    BY <2>1, <2>2 DEF TxInv, SessionsOK, Freshness
  <2>4. PICK v \in Work : v = session[y]
    BY <2>3
  <2>5. Bound(v) /\ Fresh(v) /\ Clear(v, w)
    BY <1>1, <2>2, <2>3, <2>4 DEF Clear
  <2>6. Fresh(v)' /\ v = session'[y]
    BY <1>1, <1>2, <2>1, <2>4, <2>5, ReadsStand
  <2> QED
    BY <2>6 DEF Fresh
<1> QED
  BY <1>4 DEF Freshness

LEMMA FreshnessStep == ASSUME TxInv, Freshness, [TxNext]_txVars PROVE Freshness'
<1>1. CASE UNCHANGED txVars
  <2>1. session' = session /\ overtaken' = overtaken /\ UNCHANGED vars
    BY <1>1 DEF txVars
  <2>2. ASSUME NEW y \in Sessions, session'[y] # Idle, y \notin overtaken'
        PROVE  Fresh(session[y])'
    <3>1. PICK v : v = session[y] /\ Fresh(v)
      BY <2>1, <2>2 DEF Freshness
    <3>2. Fresh(v)' /\ v = session'[y]
      BY <2>1, <3>1, FreshFrame
    <3> QED
      BY <3>2 DEF Fresh
  <2> QED
    BY <2>2 DEF Freshness
<1>2. CASE SettingsStep
  <2>1. \A y \in Sessions : session'[y] # Idle => y \in overtaken'
    BY <1>2 DEF SettingsStep, Busy
  <2> QED
    BY <2>1 DEF Freshness
<1>3. ASSUME NEW x \in Sessions, NEW w, Begin(x, w), Fresh(w) PROVE Freshness'
  BY <1>3, BeginFreshness DEF TxInv
<1>4. ASSUME NEW x \in Sessions, Commit(x) \/ Abort(x) PROVE Freshness'
  BY <1>4, CommitFreshness, AbortFreshness DEF TxInv
<1>5. CASE TxNext
  BY <1>2, <1>3, <1>4, <1>5, BeginFresh DEF TxNext
<1> QED
  BY <1>1, <1>5

\* A step that ends a session which no one has overtaken writes nothing or is
\* the step of the serial account that its handler stands for.
LEMMA SerialStep ==
    ASSUME TxInv, Freshness, [TxNext]_txVars,
           \E x \in Busy \ overtaken : session'[x] = Idle
    PROVE  Next \/ UNCHANGED vars
<1>1. PICK x \in Sessions : session[x] # Idle /\ x \notin overtaken /\ session'[x] = Idle
  BY DEF Busy
<1>2. CASE UNCHANGED vars
  BY <1>2
<1>3. ASSUME NEW y \in Sessions, Commit(y) PROVE Next
  <2>1. y = x
    BY <1>1, <1>3 DEF Commit, TxInv, SessionsOK
  <2>2. PICK w \in Work : w = session[x]
    BY <1>3, <2>1, CommitSessions
  <2>3. Fresh(w) /\ Write(w)
    BY <1>1, <1>3, <2>1, <2>2, CommitSessions DEF Freshness
  <2> QED
    BY <2>3, FreshIsSerial
<1>4. CASE SettingsStep
  BY <1>1, <1>4, SettingsFacts
<1> QED
  BY <1>2, <1>3, <1>4, TxForms

LEMMA FreshnessInit == TxInit => Freshness
BY DEF TxInit, Freshness

\* The serial account is left by overtaken sessions only: as long as no other
\* transaction writes what a session has read, its commit is a step of
\* WelfareLedger, and every theorem about the serial account applies to it.
THEOREM OnlyOvertakenDiffer == TxSpec => SerialUnlessOvertaken
<1>1. TxSpec => []Freshness
  BY FreshnessInit, FreshnessStep, SessionsSound, PTL DEF TxSpec
<1>2. /\ TxInv /\ Freshness /\ [TxNext]_txVars
      => [(\E x \in Busy \ overtaken : session'[x] = Idle) => Next \/ UNCHANGED vars]_txVars
  BY SerialStep
<1> QED
  BY <1>1, <1>2, SessionsSound, PTL DEF TxSpec, SerialUnlessOvertaken

===============================================================================
