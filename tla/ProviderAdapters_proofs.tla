----------------------- MODULE ProviderAdapters_proofs -----------------------
(***************************************************************************)
(* What the pure functions of models.py and of the adapters compute, for   *)
(* every list of sessions and every response.                              *)
(***************************************************************************)
EXTENDS ProviderAdapters, SumTheorems

LEMMA ImageIsFinite ==
  ASSUME NEW S, IsFiniteSet(S), NEW f
  PROVE  IsFiniteSet({f[x] : x \in S})
<1> DEFINE T == {f[x] : x \in S}
           g == [x \in S |-> f[x]]
<1>1. g \in Surjection(S, T)
  BY DEF Surjection
<1> QED
  BY <1>1, FS_Surjection

----------------------------------------------------------------------------
(* aggregate_sessions *)

\* When every fee is known, the totals of the currencies add up to the fees:
\* whatever is added up per currency, nothing is left out or counted twice.
THEOREM TotalsAddUp ==
  ASSUME NEW active \in SUBSET Sessions, IsFiniteSet(active), \A s \in active : FeeKnown(s)
  PROVE  SumFunction(Totals(active)) = SumFunction([s \in active |-> s.fee.amount])
<1> DEFINE known == {s \in active : FeeKnown(s)}
           class == [s \in active |-> CurrencyOf(s)]
           C     == {class[s] : s \in active}
           total == Totals(active)
<1>1. known = active
  OBVIOUS
<1>2. \A s \in active : Amount(active)[s] \in Int
  BY DEF FeeKnown, Sessions, Fee, Amount
<1>3. C = {CurrencyOf(s) : s \in active}
  OBVIOUS
<1>4. \A c \in C : {s \in active : CurrencyOf(s) = c} = {s \in active : class[s] = c}
  OBVIOUS
<1>5. DOMAIN total = C
        /\ \A c \in C : total[c] = SumFunctionOnSet(Amount(active), {s \in active : class[s] = c})
  <2>1. total = [c \in C |-> SumFunctionOnSet(Amount(active), {s \in active : CurrencyOf(s) = c})]
    BY <1>1, <1>3 DEF Totals
  <2> HIDE DEF total, C, class
  <2> QED
    BY <1>4, <2>1
<1>6. IsFiniteSet(C)
  BY ImageIsFinite
<1>7. class \in [active -> C]
  OBVIOUS
<1> HIDE DEF total, C, class
<1>8. SumFunctionOnSet(total, C) = SumFunctionOnSet(Amount(active), active)
  BY <1>2, <1>5, <1>6, <1>7, SumByClass
<1> QED
  BY <1>5, <1>8 DEF SumFunction, Amount, total

----------------------------------------------------------------------------
(* apply_provider_result *)

\* A result of a provider holds sessions of that provider.
FromProvider(provider, result) == \A s \in result.sessions : s.provider = provider

\* What a result leaves of its own provider, and of the others, depends on
\* the sessions of that provider only.
OwnAfter(own, result) ==
  CASE result.outcome = "success"    -> result.sessions
    [] result.outcome = "no_parking" -> Doubted(own)
    [] OTHER                         -> own

LEMMA DoubtedKeepsProvider ==
  ASSUME NEW list \in SUBSET Sessions, NEW s \in Doubted(list)
  PROVE  /\ s \in Sessions /\ s.confidence = "possibly_active"
         /\ \E t \in list : t.provider = s.provider /\ t.id = s.id
<1>1. PICK t \in list : s = [t EXCEPT !.confidence = "possibly_active"]
  BY DEF Doubted
<1>2. t \in Sessions
  OBVIOUS
<1> QED
  BY <1>1, <1>2 DEF Sessions, Confidences

LEMMA ApplySplits ==
  ASSUME NEW list \in SUBSET Sessions, NEW provider, NEW result, FromProvider(provider, result)
  PROVE  /\ ApplyProviderResult(list, provider, result)
               = Retained(list, provider) \cup OwnAfter(Of(list, provider), result)
         /\ \A s \in OwnAfter(Of(list, provider), result) : s.provider = provider
<1>1. list = Retained(list, provider) \cup Of(list, provider)
  BY DEF Retained, Of
<1>2. \A s \in Doubted(Of(list, provider)) : s.provider = provider
  <2>1. Of(list, provider) \in SUBSET Sessions
    BY DEF Of
  <2> QED
    BY <2>1, DoubtedKeepsProvider DEF Of
<1>3. CASE result.outcome = "success"
  BY <1>3 DEF ApplyProviderResult, OwnAfter, FromProvider
<1>4. CASE result.outcome = "no_parking"
  BY <1>2, <1>4 DEF ApplyProviderResult, OwnAfter
<1>5. CASE result.outcome \notin {"success", "no_parking"}
  BY <1>1, <1>5 DEF ApplyProviderResult, OwnAfter, Of
<1> QED
  BY <1>3, <1>4, <1>5

\* The results of two providers for one plate may arrive in either order.
THEOREM ProvidersCommute ==
  ASSUME NEW list \in SUBSET Sessions, NEW p, NEW q, p # q, NEW r1, NEW r2,
         FromProvider(p, r1), r1.sessions \subseteq Sessions,
         FromProvider(q, r2), r2.sessions \subseteq Sessions
  PROVE  ApplyProviderResult(ApplyProviderResult(list, p, r1), q, r2)
           = ApplyProviderResult(ApplyProviderResult(list, q, r2), p, r1)
<1> DEFINE P == OwnAfter(Of(list, p), r1)
           Q == OwnAfter(Of(list, q), r2)
           first  == ApplyProviderResult(list, p, r1)
           second == ApplyProviderResult(list, q, r2)
<1>1. /\ first = Retained(list, p) \cup P /\ \A s \in P : s.provider = p
      /\ second = Retained(list, q) \cup Q /\ \A s \in Q : s.provider = q
  BY ApplySplits
<1>2. first \in SUBSET Sessions /\ second \in SUBSET Sessions
  <2>1. Of(list, p) \in SUBSET Sessions /\ Of(list, q) \in SUBSET Sessions
    BY DEF Of
  <2>2. Doubted(Of(list, p)) \subseteq Sessions /\ Doubted(Of(list, q)) \subseteq Sessions
    BY <2>1, DoubtedKeepsProvider
  <2>3. P \subseteq Sessions /\ Q \subseteq Sessions
    BY <2>1, <2>2 DEF OwnAfter
  <2> HIDE DEF P, Q, first, second
  <2> QED
    BY <1>1, <2>3 DEF Retained
<1> HIDE DEF first, second
<1>3. Of(first, q) = Of(list, q) /\ Of(second, p) = Of(list, p)
  <2> HIDE DEF P, Q
  <2> QED
    BY <1>1 DEF Of, Retained
<1>4. /\ ApplyProviderResult(first, q, r2) = Retained(first, q) \cup Q
      /\ ApplyProviderResult(second, p, r1) = Retained(second, p) \cup P
  BY <1>2, <1>3, ApplySplits
<1>5. Retained(first, q) \cup Q = Retained(second, p) \cup P
  <2> HIDE DEF P, Q
  <2>1. Retained(first, q) = ((list \ Of(list, p)) \ Of(list, q)) \cup P
    BY <1>1 DEF Of, Retained
  <2>2. Retained(second, p) = ((list \ Of(list, p)) \ Of(list, q)) \cup Q
    BY <1>1 DEF Of, Retained
  <2> QED
    BY <2>1, <2>2
<1> QED
  BY <1>4, <1>5 DEF first, second

\* One empty answer makes the provider's sessions doubtful, the second one in
\* a row forgets them.
THEOREM SecondSilenceForgets ==
  ASSUME NEW list \in SUBSET Sessions, NEW provider, NEW silence,
         silence.outcome = "no_parking", silence.sessions = {}
  PROVE  Of(ApplyProviderResult(ApplyProviderResult(list, provider, silence), provider, silence),
            provider) = {}
<1> DEFINE once == ApplyProviderResult(list, provider, silence)
<1>1. /\ once = Retained(list, provider) \cup Doubted(Of(list, provider))
      /\ \A s \in Doubted(Of(list, provider)) : s.provider = provider
  BY ApplySplits DEF FromProvider, OwnAfter
<1>2. Of(list, provider) \in SUBSET Sessions
  BY DEF Of
<1>3. \A s \in Of(once, provider) : s.confidence = "possibly_active"
  BY <1>1, <1>2, DoubtedKeepsProvider DEF Of, Retained
<1>4. Doubted(Of(once, provider)) = {}
  BY <1>3 DEF Doubted
<1> HIDE DEF once
<1>5. ApplyProviderResult(once, provider, silence) = Retained(once, provider)
  BY <1>4 DEF ApplyProviderResult
<1> QED
  BY <1>5 DEF once, Of, Retained

----------------------------------------------------------------------------
(* A batched response *)

\* An accepted response lists orders of the plates it was asked for only.
LEMMA AcceptedOrders ==
  ASSUME NEW plates, NEW response, VerdictOf("parkdepot", plates, response) = "results",
         NEW i \in DOMAIN response.items
  PROVE  LET order == response.items[i] IN
         order.id # Absent /\ order.plate # Absent /\ NormalizePlate[order.plate] \in plates
<1>1. ~ParkDepotMalformed(plates, response.items)
  BY DEF VerdictOf, Verdict
<1> QED
  BY <1>1 DEF ParkDepotMalformed

LEMMA ResultOfPlate ==
  ASSUME NEW plates, NEW response, NEW p \in plates
  PROVE  ResultsOf("parkdepot", plates, response)[p].sessions = ParkDepotSessions(p, response.items)
  BY DEF ResultsOf, PlatesAnswered, Found

\* No order of a batch is lost and none ends up at two plates: it makes one
\* session, of the one plate it is for.
THEOREM OrdersAreReportedOnce ==
  ASSUME NEW plates, NEW response, VerdictOf("parkdepot", plates, response) = "results",
         NEW i \in DOMAIN response.items
  PROVE  LET results == ResultsOf("parkdepot", plates, response)
             owner   == NormalizePlate[response.items[i].plate]
         IN  /\ owner \in plates
             /\ \E s \in results[owner].sessions : s.nth = i /\ s.id = response.items[i].id
             /\ \A p \in plates : \A s \in results[p].sessions : s.nth = i => p = owner
<1> DEFINE items == response.items
           owner == NormalizePlate[items[i].plate]
           made(k) == Session("parkdepot", items[k], k, FeeOf(items[k], Price(items[k]), "amount_due"))
<1>1. owner \in plates
  BY AcceptedOrders
<1>2. \A k : made(k).nth = k /\ made(k).id = items[k].id
  BY DEF Session
<1>3. \A p : ParkDepotSessions(p, items) = {made(k) : k \in OrdersOf(p, items)}
  BY DEF ParkDepotSessions
<1>4. i \in OrdersOf(owner, items)
  BY DEF OrdersOf
<1>5. \E s \in ParkDepotSessions(owner, items) : s.nth = i /\ s.id = items[i].id
  <2> HIDE DEF made, items, owner
  <2> QED
    BY <1>2, <1>3, <1>4
<1>6. ASSUME NEW p \in plates, NEW s \in ParkDepotSessions(p, items), s.nth = i
      PROVE  p = owner
  <2>1. PICK k \in OrdersOf(p, items) : s = made(k)
    BY <1>3, <1>6
  <2>2. k = i
    <3> HIDE DEF made
    <3> QED
      BY <1>2, <1>6, <2>1
  <2> QED
    BY <2>1, <2>2 DEF OrdersOf
<1> QED
  BY <1>1, <1>5, <1>6, ResultOfPlate

\* The number of sessions a batch reports, over all its plates, is the number
\* of orders in the response.
THEOREM SessionsAreCounted ==
  ASSUME NEW plates, IsFiniteSet(plates), NEW response \in ResponseOf(Order),
         VerdictOf("parkdepot", plates, response) = "results"
  PROVE  SumFunction([p \in plates |->
             Cardinality(ResultsOf("parkdepot", plates, response)[p].sessions)])
           = Len(response.items)
<1> DEFINE items == response.items
           made == [k \in DOMAIN items |->
                      Session("parkdepot", items[k], k, FeeOf(items[k], Price(items[k]), "amount_due"))]
           class == [k \in DOMAIN items |-> NormalizePlate[items[k].plate]]
           one   == [k \in DOMAIN items |-> 1]
           count == [p \in plates |-> Cardinality(ParkDepotSessions(p, items))]
<1>1. /\ DOMAIN items = 1..Len(items) /\ Len(items) \in Nat
      /\ IsFiniteSet(DOMAIN items) /\ Cardinality(DOMAIN items) = Len(items)
  <2>1. items \in Seq(Order)
    BY DEF ResponseOf
  <2>2. DOMAIN items = 1..Len(items) /\ Len(items) \in Nat
    BY <2>1
  <2> HIDE DEF items
  <2>3. IsFiniteSet(1..Len(items)) /\ Cardinality(1..Len(items)) = Len(items)
    BY <2>2, FS_Interval
  <2> QED
    BY <2>2, <2>3
<1>2. class \in [DOMAIN items -> plates]
  BY AcceptedOrders
<1>3. ASSUME NEW p \in plates
      PROVE  /\ OrdersOf(p, items) = {k \in DOMAIN items : class[k] = p}
             /\ count[p] = SumFunctionOnSet(one, OrdersOf(p, items))
  <2> DEFINE M == [k \in OrdersOf(p, items) |-> made[k]]
  <2>1. OrdersOf(p, items) \subseteq DOMAIN items
    BY DEF OrdersOf
  <2>2. M \in Bijection(OrdersOf(p, items), ParkDepotSessions(p, items))
    <3>1. \A k \in OrdersOf(p, items) : M[k].nth = k
      BY <2>1 DEF Session
    <3>2. ParkDepotSessions(p, items) = {M[k] : k \in OrdersOf(p, items)}
      BY <2>1 DEF ParkDepotSessions
    <3> HIDE DEF M
    <3>3. M \in [OrdersOf(p, items) -> ParkDepotSessions(p, items)]
      BY <3>2 DEF M
    <3> QED
      BY <3>1, <3>2, <3>3 DEF Bijection, Injection, Surjection, IsInjective
  <2>3. IsFiniteSet(OrdersOf(p, items))
    BY <1>1, <2>1, FS_Subset
  <2>4. Cardinality(ParkDepotSessions(p, items)) = Cardinality(OrdersOf(p, items))
    BY <2>2, <2>3, FS_Bijection DEF ExistsBijection
  <2>5. \A k \in OrdersOf(p, items) : one[k] = 1
    BY <2>1
  <2> HIDE DEF one
  <2>6. SumFunctionOnSet(one, OrdersOf(p, items)) = Cardinality(OrdersOf(p, items))
    BY <2>3, <2>5, SumOfOnes
  <2> QED
    BY <2>4, <2>6 DEF OrdersOf
<1>4. \A k \in DOMAIN items : one[k] = 1
  OBVIOUS
<1>5. DOMAIN count = plates
        /\ \A p \in plates : count[p] = SumFunctionOnSet(one, {k \in DOMAIN items : class[k] = p})
  <2>1. DOMAIN count = plates
    OBVIOUS
  <2> HIDE DEF count, class, one
  <2> QED
    BY <1>3, <2>1
<1>6. [p \in plates |-> Cardinality(ResultsOf("parkdepot", plates, response)[p].sessions)] = count
  BY ResultOfPlate
<1> HIDE DEF items, class, one, count
<1>7. SumFunctionOnSet(count, plates) = SumFunctionOnSet(one, DOMAIN items)
  <2> DEFINE J == DOMAIN items
  <2>1. /\ IsFiniteSet(J) /\ \A k \in J : one[k] \in Int
        /\ class \in [J -> plates]
        /\ \A p \in plates : count[p] = SumFunctionOnSet(one, {k \in J : class[k] = p})
    BY <1>1, <1>2, <1>4, <1>5
  <2> HIDE DEF J, made
  <2>2. \A total : (\A p \in plates : total[p] = SumFunctionOnSet(one, {k \in J : class[k] = p}))
                   => SumFunctionOnSet(total, plates) = SumFunctionOnSet(one, J)
    <3>1. IsFiniteSet(J) /\ (\A k \in J : one[k] \in Int) /\ class \in [J -> plates]
      BY <2>1
    <3> QED
      BY <3>1, SumByClass
  <2>3. SumFunctionOnSet(count, plates) = SumFunctionOnSet(one, J)
    BY <2>1, <2>2
  <2> QED
    BY <2>3 DEF J
<1>8. SumFunctionOnSet(one, DOMAIN items) = Len(items)
  BY <1>1, <1>4, SumOfOnes
<1> QED
  BY <1>5, <1>6, <1>7, <1>8 DEF SumFunction, items

=============================================================================
