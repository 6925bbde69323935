------------------------- MODULE EntryRuntime_proofs -------------------------
(***************************************************************************)
(* Proofs about EntryRuntime, for all plates, selections and responses.    *)
(* Everything the runtime stores goes through HandleResults, so its effect *)
(* is stated once (Handled) for any answer an adapter or the scheduler can *)
(* hand over (Sound), and the actions are reduced to it.                   *)
(***************************************************************************)
EXTENDS EntryRuntime, ProviderAdapters_proofs

\* A ParkDepot session of a plate is of an order that names it.
Written(p, s) ==
  \E r \in Responses["parkdepot"] : \E i \in DOMAIN r.items :
    LET order == r.items[i] IN
    /\ order.plate # Absent /\ NormalizePlate[order.plate] = p
    /\ order.id = s.id /\ s.fee = FeeOf(order, Price(order), "amount_due")

SoundResult(provider, p, result) ==
  /\ result.outcome \in Outcomes
  /\ result.sessions \subseteq Sessions /\ IsFiniteSet(result.sessions)
  /\ \A s \in result.sessions : s.provider = provider /\ (provider = "parkdepot" => Written(p, s))

Sound(provider, answer) ==
  /\ DOMAIN answer = PlatesOf(Checking)
  /\ \A p \in DOMAIN answer : SoundResult(provider, p, answer[p])

\* A request is for one provider, and for one plate unless that provider takes
\* batches: BetterPark's loop over plates never sees two of them.
OneRequest == \A k, l \in Checking : k[2] = l[2] /\ (k = l \/ k[2] \in Batching)

\* Only totals are announced, and their currencies are in upper case.
AnnouncedUpper == \A key \in published : Upper[key[2]] = key[2]

\* The strengthening of ShownIsCurrent to plates that were removed.
ShownFresh == Added => \A p \in Plates : shown[p] # None => shown[p] = AggregateFor(p)

\* Sums over the sessions of a plate are sums over finite sets.
FinitelyMany == \A p \in Plates : IsFiniteSet(sessions[p])

Inv ==
  /\ FinitelyMany
  /\ TypeOK /\ OneRequest /\ AnnouncedUpper
  /\ OneFeeSensor /\ ShownFresh /\ IdleIsAnswered /\ Attributed

----------------------------------------------------------------------------
(* The models *)

\* The totals of typed sessions are in currencies spelled in upper case.
LEMMA TotalsAreUpper ==
  ASSUME NEW list \in SUBSET Sessions, NEW c \in DOMAIN AggregateSessions(list).fee_totals
  PROVE  c \in Currencies /\ Upper[c] = c
<1>1. DOMAIN AggregateSessions(list).fee_totals = DOMAIN Totals(Active(list))
  BY DEF AggregateSessions
<1>2. PICK s \in Active(list) : FeeKnown(s) /\ c = CurrencyOf(s)
  BY <1>1 DEF Totals
<1>3. s \in Sessions
  BY <1>2 DEF Active
<1>4. s.fee \in Fee
  BY <1>2, <1>3 DEF FeeKnown, Sessions
<1>5. s.fee.currency \in Currencies
  BY <1>4 DEF Fee
<1> QED
  BY <1>2, <1>5, CurrencyAssumption DEF CurrencyOf

\* What a sound result makes of typed and attributed sessions is both.
LEMMA ApplyIsSound ==
  ASSUME NEW list \in SUBSET Sessions, NEW provider \in Providers, NEW p, NEW result,
         SoundResult(provider, p, result),
         \A s \in Of(list, "parkdepot") : Written(p, s)
  PROVE  /\ ApplyProviderResult(list, provider, result) \subseteq Sessions
         /\ \A s \in Of(ApplyProviderResult(list, provider, result), "parkdepot") : Written(p, s)
<1>1. ASSUME NEW s \in Doubted(Of(list, provider))
      PROVE  s \in Sessions /\ (s.provider = "parkdepot" => Written(p, s))
  <2>1. PICK t \in list : s = [t EXCEPT !.confidence = "possibly_active"]
    BY <1>1 DEF Doubted, Of
  <2>2. t \in Sessions
    BY <2>1
  <2>3. s \in Sessions /\ s.provider = t.provider /\ s.id = t.id /\ s.fee = t.fee
    BY <2>1, <2>2 DEF Sessions, Confidences
  <2>4. t.provider = "parkdepot" => Written(p, t)
    BY <2>1 DEF Of
  <2> QED
    BY <2>3, <2>4 DEF Written
<1>2. \A s \in Retained(list, provider) : s \in Sessions /\ (s.provider = "parkdepot" => Written(p, s))
  BY DEF Retained, Of
<1>3. \A s \in result.sessions : s \in Sessions /\ (s.provider = "parkdepot" => Written(p, s))
  BY DEF SoundResult
<1>4. \A s \in list : s \in Sessions /\ (s.provider = "parkdepot" => Written(p, s))
  BY DEF Of
<1>5. \A s \in ApplyProviderResult(list, provider, result) :
        s \in Retained(list, provider) \cup result.sessions \cup Doubted(Of(list, provider)) \cup list
  BY DEF ApplyProviderResult
<1> QED
  BY <1>1, <1>2, <1>3, <1>4, <1>5 DEF Of

\* One result makes finitely many sessions out of finitely many.
LEMMA ApplyIsFinite ==
  ASSUME NEW list, IsFiniteSet(list), NEW provider, NEW result, IsFiniteSet(result.sessions)
  PROVE  IsFiniteSet(ApplyProviderResult(list, provider, result))
<1>1. IsFiniteSet(Retained(list, provider)) /\ IsFiniteSet(Of(list, provider))
  BY FS_Subset, FS_Difference DEF Retained, Of
<1>2. IsFiniteSet(Doubted(Of(list, provider)))
  <2> DEFINE sure == {t \in Of(list, provider) : t.confidence = "confirmed"}
             doubt == [s \in sure |-> [s EXCEPT !.confidence = "possibly_active"]]
  <2>1. IsFiniteSet(sure)
    BY <1>1, FS_Subset
  <2>2. Doubted(Of(list, provider)) = {doubt[s] : s \in sure}
    BY DEF Doubted
  <2> HIDE DEF sure, doubt
  <2> QED
    BY <2>1, <2>2, ImageIsFinite
<1>3. /\ IsFiniteSet(Retained(list, provider) \cup result.sessions)
      /\ IsFiniteSet(Retained(list, provider) \cup Doubted(Of(list, provider)))
  BY <1>1, <1>2, FS_Union
<1> QED
  BY <1>3 DEF ApplyProviderResult

\* A sound result of one provider leaves the sessions of the others alone.
LEMMA ApplyLeavesOthers ==
  ASSUME NEW list, NEW provider, NEW p, NEW result,
         SoundResult(provider, p, result), list \subseteq Sessions,
         NEW q, q # provider
  PROVE  Of(ApplyProviderResult(list, provider, result), q) = Of(list, q)
<1>1. \A s \in Doubted(Of(list, provider)) : s.provider = provider
  <2>1. ASSUME NEW s \in Doubted(Of(list, provider)) PROVE s.provider = provider
    <3>1. PICK t \in list : t.provider = provider /\ s = [t EXCEPT !.confidence = "possibly_active"]
      BY <2>1 DEF Doubted, Of
    <3>2. t \in Sessions
      BY <3>1
    <3> QED
      BY <3>1, <3>2 DEF Sessions
  <2> QED
    BY <2>1
<1>2. \A s \in result.sessions : s.provider = provider
  BY DEF SoundResult
<1>3. CASE result.outcome = "success"
  BY <1>2, <1>3 DEF ApplyProviderResult, Retained, Of
<1>4. CASE result.outcome = "no_parking"
  BY <1>1, <1>4 DEF ApplyProviderResult, Retained, Of
<1>5. CASE result.outcome \notin {"success", "no_parking"}
  BY <1>5 DEF ApplyProviderResult
<1> QED
  BY <1>3, <1>4, <1>5

\* A confirmed session stays active unless its provider reports success.
LEMMA ApplyKeepsConfirmed ==
  ASSUME NEW list \in SUBSET Sessions, NEW provider, NEW result, NEW s \in list,
         s.confidence = "confirmed", ~(s.provider = provider /\ result.outcome = "success")
  PROVE  Reported(s, Active(ApplyProviderResult(list, provider, result)))
<1> DEFINE after == ApplyProviderResult(list, provider, result)
           t     == [s EXCEPT !.confidence = "possibly_active"]
<1>1. t.provider = s.provider /\ t.id = s.id /\ t.confidence = "possibly_active"
  BY DEF Sessions
<1>2. s \in after \/ t \in after
  <2>1. CASE s.provider # provider
    BY <2>1 DEF ApplyProviderResult, Retained, Of
  <2>2. CASE s.provider = provider /\ result.outcome = "no_parking"
    BY <2>2 DEF ApplyProviderResult, Doubted, Of
  <2>3. CASE s.provider = provider /\ result.outcome \notin {"success", "no_parking"}
    BY <2>3 DEF ApplyProviderResult
  <2> QED
    BY <2>1, <2>2, <2>3
<1> QED
  BY <1>1, <1>2 DEF Reported, Active

----------------------------------------------------------------------------
(* The adapters *)

\* The fee of a record that an adapter lets through has its type.
LEMMA FeesAreTyped ==
  ASSUME NEW item, NEW amount, NEW meaning \in FeeMeanings,
         item.currency \in Currencies \cup {Absent},
         item.currency # Absent => amount \in Int \cup {Absent}
  PROVE  FeeOf(item, amount, meaning) \in Fee \cup {NoFee}
  BY DEF FeeOf, Fee

LEMMA BetterParkIsSound ==
  ASSUME NEW items \in Seq(Process), ~BetterParkMalformed(items),
         NEW s \in BetterParkSessions(items)
  PROVE  s \in Sessions /\ s.provider = "betterpark"
<1>1. PICK i \in DOMAIN items : Running(items[i]) /\
        s = Session("betterpark", items[i], i, FeeOf(items[i], items[i].value, "accrued_estimate"))
  BY DEF BetterParkSessions
<1>2. items[i] \in Process /\ i \in Nat
  BY <1>1
<1>3. items[i].id \in RecordIds /\ (items[i].currency # Absent => items[i].value \in Int)
  BY <1>1, <1>2 DEF BetterParkMalformed, Process, Amounts
<1>4. FeeOf(items[i], items[i].value, "accrued_estimate") \in Fee \cup {NoFee}
  BY <1>2, <1>3, FeesAreTyped DEF Process, FeeMeanings
<1> QED
  BY <1>1, <1>2, <1>3, <1>4 DEF Session, Sessions, Providers, Confidences

LEMMA ParkDepotIsSound ==
  ASSUME NEW r \in Responses["parkdepot"], NEW plates, NEW p \in plates,
         ~ParkDepotMalformed(plates, r.items), NEW s \in ParkDepotSessions(p, r.items)
  PROVE  s \in Sessions /\ s.provider = "parkdepot" /\ Written(p, s)
<1> DEFINE items == r.items
<1>1. items \in Seq(Order)
  BY ResponseAssumption DEF ResponseOf
<1>2. PICK i \in OrdersOf(p, items) :
        s = Session("parkdepot", items[i], i, FeeOf(items[i], Price(items[i]), "amount_due"))
  BY DEF ParkDepotSessions
<1>3. i \in DOMAIN items /\ items[i].plate # Absent /\ NormalizePlate[items[i].plate] = p
  BY <1>2 DEF OrdersOf, ParkDepotMalformed
<1>4. items[i] \in Order /\ i \in Nat
  BY <1>1, <1>3
<1>5. items[i].id \in RecordIds /\ (items[i].currency # Absent => Price(items[i]) \in Int \cup {Absent})
  BY <1>3, <1>4 DEF ParkDepotMalformed, Order, Amounts, Price
<1>6. FeeOf(items[i], Price(items[i]), "amount_due") \in Fee \cup {NoFee}
  BY <1>4, <1>5, FeesAreTyped DEF Order, FeeMeanings
<1>7. s \in Sessions /\ s.provider = "parkdepot" /\ s.id = items[i].id
        /\ s.fee = FeeOf(items[i], Price(items[i]), "amount_due")
  BY <1>2, <1>4, <1>5, <1>6 DEF Session, Sessions, Providers, Confidences
<1> QED
  BY <1>3, <1>7 DEF Written

\* An adapter reports finitely many sessions for a plate.
LEMMA ReportsAreFinite ==
  ASSUME NEW I, NEW items \in Seq(I), NEW p
  PROVE  IsFiniteSet(BetterParkSessions(items)) /\ IsFiniteSet(ParkDepotSessions(p, items))
<1>1. IsFiniteSet(DOMAIN items)
  <2>1. DOMAIN items = 1..Len(items) /\ Len(items) \in Int
    OBVIOUS
  <2> QED
    BY <2>1, FS_Interval
<1> DEFINE running == {i \in DOMAIN items : Running(items[i])}
           fee(i) == FeeOf(items[i], items[i].value, "accrued_estimate")
           due(i) == FeeOf(items[i], Price(items[i]), "amount_due")
           bp == [i \in running |-> Session("betterpark", items[i], i, fee(i))]
           pd == [i \in OrdersOf(p, items) |-> Session("parkdepot", items[i], i, due(i))]
<1>2. IsFiniteSet(running) /\ IsFiniteSet(OrdersOf(p, items))
  BY <1>1, FS_Subset DEF OrdersOf
<1>3. /\ BetterParkSessions(items) = {bp[i] : i \in running}
      /\ ParkDepotSessions(p, items) = {pd[i] : i \in OrdersOf(p, items)}
  BY DEF BetterParkSessions, ParkDepotSessions
<1> HIDE DEF running, bp, pd
<1> QED
  BY <1>2, <1>3, ImageIsFinite

\* Whatever an adapter returns for the request that is out is sound.
LEMMA AnswersAreSound ==
  ASSUME NEW provider \in Providers, NEW r \in Answers(provider, "results")
  PROVE  Sound(provider, ResultsOf(provider, PlatesOf(Checking), r))
<1> DEFINE plates == PlatesOf(Checking)
           answer == ResultsOf(provider, plates, r)
<1>1. r \in Responses[provider] /\ VerdictOf(provider, plates, r) = "results"
  BY DEF Answers
<1>2. DOMAIN answer = plates
  BY DEF ResultsOf, PlatesAnswered
<1>3. ASSUME NEW p \in plates PROVE SoundResult(provider, p, answer[p])
  <2>1. CASE provider = "betterpark"
    <3>1. r.items \in Seq(Process)
      BY <1>1, <2>1, ResponseAssumption DEF ResponseOf
    <3>2. ~BetterParkMalformed(r.items)
      BY <1>1, <2>1 DEF VerdictOf, Verdict
    <3>3. answer[p] = Found(BetterParkSessions(r.items))
      BY <2>1 DEF ResultsOf, PlatesAnswered
    <3>4. IsFiniteSet(BetterParkSessions(r.items))
      BY <3>1, ReportsAreFinite
    <3> QED
      BY <2>1, <3>1, <3>2, <3>3, <3>4, BetterParkIsSound DEF SoundResult, Found, Outcomes
  <2>2. CASE provider = "parkdepot"
    <3>1. r \in Responses["parkdepot"] /\ ~ParkDepotMalformed(plates, r.items)
      BY <1>1, <2>2 DEF VerdictOf, Verdict
    <3>2. answer[p] = Found(ParkDepotSessions(p, r.items))
      BY <2>2 DEF ResultsOf, PlatesAnswered
    <3>3. IsFiniteSet(ParkDepotSessions(p, r.items))
      <4>1. r.items \in Seq(Order)
        BY <3>1, ResponseAssumption DEF ResponseOf
      <4> QED
        BY <4>1, ReportsAreFinite
    <3> QED
      BY <2>2, <3>1, <3>2, <3>3, ParkDepotIsSound DEF SoundResult, Found, Outcomes
  <2> QED
    BY <2>1, <2>2 DEF Providers
<1> QED
  BY <1>2, <1>3 DEF Sound

----------------------------------------------------------------------------
(* async_handle_results *)

\* A failed request has a sound answer as well.
LEMMA FailuresAreSound ==
  ASSUME NEW provider, NEW outcome \in Outcomes
  PROVE  Sound(provider, [p \in PlatesOf(Checking) |-> [outcome |-> outcome, sessions |-> {}]])
  BY FS_EmptySet DEF Sound, SoundResult

\* What async_handle_results does with a sound answer to a request for one
\* provider, whatever becomes of the request itself.
LEMMA Handled ==
  ASSUME Inv, NEW provider \in Providers, NEW answer,
         Sound(provider, answer), HandleResults(provider, answer),
         UNCHANGED <<configured, phase>>
  PROVE  /\ results' \in [Plates -> [Providers -> Outcomes \cup {None}]]
         /\ \A p \in Plates : sessions'[p] \subseteq Sessions
         /\ published' \subseteq Plates \X Currencies
         /\ feeSensors' \in [Plates \X Currencies -> Nat]
         /\ AnnouncedUpper' /\ OneFeeSensor' /\ ShownFresh' /\ Attributed' /\ FinitelyMany'
         /\ \A p \in Concerned(answer) : results'[p][provider] # None
         /\ \A p \in Plates, q \in Providers : results[p][q] # None => results'[p][q] # None
<1> DEFINE plates == Concerned(answer)
<1>0. plates \subseteq Plates /\ plates \subseteq DOMAIN answer
  BY DEF Inv, TypeOK, Concerned
<1>1. \A p \in plates : answer[p].outcome \in Outcomes
  BY <1>0 DEF Sound, SoundResult
<1>2. results' = [p \in Plates |-> IF p \in plates
                   THEN [results[p] EXCEPT ![provider] = answer[p].outcome] ELSE results[p]]
  BY DEF HandleResults
<1>3. results' \in [Plates -> [Providers -> Outcomes \cup {None}]]
  BY <1>1, <1>2 DEF Inv, TypeOK
<1>4. /\ \A p \in plates : results'[p][provider] # None
      /\ \A p \in Plates, q \in Providers : results[p][q] # None => results'[p][q] # None
  BY <1>0, <1>1, <1>2, SelectionAssumption DEF Inv, TypeOK, Outcomes
<1>5. sessions' = [p \in Plates |-> IF p \in plates
                   THEN ApplyProviderResult(sessions[p], provider, answer[p]) ELSE sessions[p]]
  BY DEF HandleResults
<1>6. ASSUME NEW p \in Plates
      PROVE  sessions'[p] \subseteq Sessions /\ \A s \in Of(sessions'[p], "parkdepot") : Written(p, s)
  <2>1. sessions[p] \subseteq Sessions /\ \A s \in Of(sessions[p], "parkdepot") : Written(p, s)
    BY DEF Inv, TypeOK, Attributed, Written
  <2>2. CASE p \in plates
    <3>1. SoundResult(provider, p, answer[p])
      BY <1>0, <2>2 DEF Sound
    <3> QED
      BY <1>5, <2>1, <2>2, <3>1, ApplyIsSound
  <2> QED
    BY <1>5, <2>1, <2>2
<1>7. Attributed'
  <2>1. ASSUME NEW p \in Plates, NEW s \in Of(sessions'[p], "parkdepot") PROVE Written(p, s)
    BY <1>6
  <2> QED
    BY <2>1 DEF Attributed, Written
<1>8. \A key \in Seen(plates) : key \in Plates \X Currencies /\ Upper[key[2]] = key[2]
  <2>1. ASSUME NEW key \in Seen(plates)
        PROVE  key \in Plates \X Currencies /\ Upper[key[2]] = key[2]
    <3>1. key \in Plates \X Currencies /\ key[1] \in Plates
      BY <1>0, <2>1 DEF Seen
    <3>2. key[2] \in DOMAIN AggregateSessions(sessions'[key[1]]).fee_totals
      BY <2>1 DEF Seen, TotalsOf, AggregateFor
    <3> QED
      BY <1>6, <3>1, <3>2, TotalsAreUpper
  <2> QED
    BY <2>1
<1>9. /\ published' = published \cup Seen(plates)
      /\ feeSensors' = [key \in Plates \X Currencies |->
            IF Listening /\ key \in Seen(plates) \ published THEN feeSensors[key] + 1 ELSE feeSensors[key]]
  BY DEF HandleResults, Publish, Announced
<1>10. published' \subseteq Plates \X Currencies /\ AnnouncedUpper'
  BY <1>8, <1>9 DEF Inv, TypeOK, AnnouncedUpper
<1>11. feeSensors' \in [Plates \X Currencies -> Nat] /\ OneFeeSensor'
  <2>1. feeSensors' \in [Plates \X Currencies -> Nat]
    BY <1>9 DEF Inv, TypeOK
  <2>2. ASSUME NEW key \in Plates \X Currencies
        PROVE  feeSensors'[key] <= 1
                 /\ (feeSensors'[key] = 1 => key \in published' /\ Upper[key[2]] = key[2])
    <3>1. feeSensors[key] \in Nat /\ feeSensors[key] <= 1
            /\ (feeSensors[key] = 1 => key \in published /\ Upper[key[2]] = key[2])
      BY DEF Inv, TypeOK, OneFeeSensor
    <3> QED
      BY <1>8, <1>9, <3>1
  <2> QED
    BY <2>1, <2>2 DEF OneFeeSensor
<1>12. ShownFresh'
  <2>1. ASSUME NEW p \in Plates, Added', shown'[p] # None PROVE shown'[p] = AggregateFor(p)'
    <3>1. Added
      BY <2>1 DEF Added
    <3>2. shown'[p] = IF p \in plates /\ Told(p, answer) THEN AggregateFor(p)' ELSE shown[p]
      BY DEF HandleResults
    <3>3. CASE p \in plates /\ Told(p, answer)
      BY <3>2, <3>3
    <3>4. CASE ~(p \in plates /\ Told(p, answer))
      <4>1. p \notin plates /\ shown[p] # None
        BY <2>1, <3>1, <3>2, <3>4 DEF Told
      <4>2. sessions'[p] = sessions[p]
        BY <1>5, <4>1
      <4> QED
        BY <3>1, <3>2, <3>4, <4>1, <4>2 DEF Inv, ShownFresh, AggregateFor
    <3> QED
      BY <3>3, <3>4
  <2> QED
    BY <2>1 DEF ShownFresh
<1>13. FinitelyMany'
  <2>1. ASSUME NEW p \in Plates PROVE IsFiniteSet(sessions'[p])
    <3>1. IsFiniteSet(sessions[p])
      BY DEF Inv, FinitelyMany
    <3>2. CASE p \in plates
      <4>1. IsFiniteSet(answer[p].sessions)
        BY <1>0, <3>2 DEF Sound, SoundResult
      <4> QED
        BY <1>5, <3>1, <3>2, <4>1, ApplyIsFinite
    <3> QED
      BY <1>5, <3>1, <3>2
  <2> QED
    BY <2>1 DEF FinitelyMany
<1> QED
  BY <1>3, <1>4, <1>6, <1>7, <1>10, <1>11, <1>12, <1>13

----------------------------------------------------------------------------
(* Steps *)

\* A step that hands results over; every other one leaves the data alone.
HandsOver ==
  \E provider \in Asked : \E answer :
    /\ Sound(provider, answer) /\ HandleResults(provider, answer)
    /\ UNCHANGED <<configured, phase>>

Settles(next) ==
  stage' = [k \in Keys |-> IF k \in Checking THEN next ELSE stage[k]]

LEMMA RequestEnding ==
  ASSUME NEW next \in {"idle", "waiting"}, TypeOK, RequestEnds(next)
  PROVE  Settles(next) /\ Checking # {} /\ up' = up /\ up /\ UNCHANGED <<configured, phase, requests>>
<1>1. Checking # {} /\ Checking \subseteq Keys
  BY DEF RequestEnds, Checking, Scheduler!Settle, Scheduler!In, Scheduler!Keys, Keys
<1>2. PICK s \in {"idle", "waiting"} : stage' = [k \in Keys |-> IF k \in Checking THEN s ELSE stage[k]]
  BY DEF RequestEnds, Checking, Scheduler!Settle, Scheduler!Move, Scheduler!In, Scheduler!Keys, Keys
<1>3. s = next
  BY <1>1, <1>2 DEF RequestEnds
<1> QED
  BY <1>1, <1>2, <1>3 DEF RequestEnds, Scheduler!Settle, Settles

LEMMA AskedIsProvider == TypeOK => Asked \subseteq Providers
  BY DEF Asked, Checking, Scheduler!In, Scheduler!Keys

\* The three ways a request ends with results.
LEMMA EndsSoundly ==
  ASSUME Inv, Answered \/ Malformed \/ RateLimited
  PROVE  /\ up /\ up' = up /\ UNCHANGED requests
         /\ Settles("idle") \/ Settles("waiting")
         /\ HandsOver
<1>0. TypeOK
  BY DEF Inv
<1>1. CASE Answered
  <2>1. RequestEnds("idle")
    BY <1>1 DEF Answered
  <2>2. PICK provider \in Asked : \E r \in Answers(provider, "results") :
          HandleResults(provider, ResultsOf(provider, PlatesOf(Checking), r))
    BY <1>1 DEF Answered
  <2>3. PICK r \in Answers(provider, "results") :
          HandleResults(provider, ResultsOf(provider, PlatesOf(Checking), r))
    BY <2>2
  <2>4. Sound(provider, ResultsOf(provider, PlatesOf(Checking), r))
    BY <1>0, <2>3, AskedIsProvider, AnswersAreSound
  <2> QED
    BY <1>0, <2>1, <2>3, <2>4, RequestEnding DEF HandsOver
<1>2. CASE Malformed
  <2>1. RequestEnds("idle") /\ Fails("format", "error")
    BY <1>2 DEF Malformed
  <2>2. "error" \in Outcomes
    BY DEF Outcomes
  <2> QED
    BY <1>0, <2>1, <2>2, RequestEnding, FailuresAreSound DEF HandsOver, Fails
<1>3. CASE RateLimited
  <2>1. RequestEnds("waiting") /\ Fails("rate_limited", "rate_limited")
    BY <1>3 DEF RateLimited
  <2>2. "rate_limited" \in Outcomes
    BY DEF Outcomes
  <2> QED
    BY <1>0, <2>1, <2>2, RequestEnding, FailuresAreSound DEF HandsOver, Fails
<1> QED
  BY <1>1, <1>2, <1>3

LEMMA EndsKeepInv ==
  ASSUME Inv, Answered \/ Malformed \/ RateLimited
  PROVE  Inv'
<1>1. PICK next \in {"idle", "waiting"} : Settles(next)
  BY EndsSoundly
<1>2. PICK provider \in Asked : \E answer :
        Sound(provider, answer) /\ HandleResults(provider, answer) /\ UNCHANGED <<configured, phase>>
  BY EndsSoundly DEF HandsOver
<1>3. PICK answer :
        Sound(provider, answer) /\ HandleResults(provider, answer) /\ UNCHANGED <<configured, phase>>
  BY <1>2
<1>4. provider \in Providers
  BY AskedIsProvider DEF Inv
<1>5. up' = up /\ UNCHANGED <<configured, phase>>
  BY <1>3, EndsSoundly
<1> HIDE DEF HandsOver
<1>6. stage' \in [Keys -> {"idle", "waiting", "checking"}]
  BY <1>1 DEF Settles, Inv, TypeOK
<1>7. TypeOK'
  BY <1>3, <1>4, <1>5, <1>6, Handled DEF TypeOK, Inv
<1>8. Checking' = {}
  BY <1>1 DEF Settles, Checking, Scheduler!In, Scheduler!Keys, Keys
<1>9. IdleIsAnswered'
  <2>1. ASSUME up', NEW k \in KeysOf(configured)', stage'[k] = "idle"
        PROVE  results'[k[1]][k[2]] # None
    <3>1. k \in Keys /\ k \in KeysOf(configured) /\ k[1] \in configured /\ k[1] \in Plates /\ k[2] \in Providers
      BY <1>5, <2>1 DEF KeysOf, Keys
    <3>2. CASE k \in Checking
      <4>1. k[2] = provider
        BY <3>2 DEF Asked, Inv, OneRequest
      <4>2. k[1] \in Concerned(answer)
        BY <1>3, <3>1, <3>2 DEF Concerned, Sound, PlatesOf
      <4> QED
        BY <1>3, <1>4, <4>1, <4>2, Handled
    <3>3. CASE k \notin Checking
      <4>1. stage[k] = "idle"
        BY <1>1, <2>1, <3>1, <3>3 DEF Settles
      <4>2. results[k[1]][k[2]] # None
        BY <1>5, <2>1, <3>1, <4>1 DEF Inv, IdleIsAnswered
      <4> QED
        BY <1>3, <1>4, <3>1, <4>2, Handled
    <3> QED
      BY <3>2, <3>3
  <2> QED
    BY <2>1 DEF IdleIsAnswered
<1> QED
  BY <1>3, <1>4, <1>7, <1>8, <1>9, Handled DEF Inv, OneRequest

\* What a step that leaves the data and the listeners' work alone has to keep.
LEMMA QuietSteps ==
  ASSUME Inv, UNCHANGED <<data, feeSensors>>,
         stage' \in [Keys -> {"idle", "waiting", "checking"}], up' \in BOOLEAN,
         configured' \subseteq Plates, phase' \in {"starting", "sensors", "entities", "unloaded", "stopped"},
         OneRequest', ShownFresh', IdleIsAnswered'
  PROVE  Inv'
  BY DEF Inv, TypeOK, data, AnnouncedUpper, OneFeeSensor, Attributed, FinitelyMany

\* Fewer keys are idle, or the scheduler is down.
LEMMA IdleKept ==
  ASSUME Inv, UNCHANGED <<results, configured>>,
         up' => up /\ \A k \in Keys : stage'[k] = "idle" => stage[k] = "idle"
  PROVE  IdleIsAnswered'
  BY DEF Inv, IdleIsAnswered, KeysOf

LEMMA ShownKept ==
  ASSUME Inv, UNCHANGED <<sessions, shown>>, Added' => Added
  PROVE  ShownFresh'
  BY DEF Inv, ShownFresh, AggregateFor

LEMMA StageSteps ==
  ASSUME Inv,
         \/ SendRequest \/ SchedulerDies \/ Cancelled \/ Stop
         \/ \E p \in Plates : Press(p)
  PROVE  Inv'
<1>1. CASE SendRequest
  <2>1. PICK K \in SUBSET Keys : Scheduler!Begin(K)
    BY <1>1 DEF SendRequest
  <2>2. /\ stage' = [k \in Keys |-> IF k \in K THEN "checking" ELSE stage[k]]
        /\ up /\ up' = up /\ Checking = {}
        /\ \A k, l \in K : k[2] = l[2] /\ (k = l \/ k[2] \in Batching)
    BY <2>1 DEF Scheduler!Begin, Scheduler!Move, Scheduler!Keys, Keys, Checking
  <2>3. UNCHANGED <<configured, data, entities, requests>>
    BY <1>1 DEF SendRequest
  <2>4. Checking' \subseteq K
    BY <2>2 DEF Checking, Scheduler!In, Scheduler!Keys, Keys
  <2>5. OneRequest'
    BY <2>2, <2>4 DEF OneRequest
  <2>6. IdleIsAnswered'
    BY <2>2, <2>3, IdleKept DEF data, Keys
  <2>7. ShownFresh'
    BY <2>3, ShownKept DEF data, entities, Added
  <2> QED
    BY <2>2, <2>3, <2>5, <2>6, <2>7, QuietSteps DEF Inv, TypeOK, data, entities
<1>2. CASE SchedulerDies
  <2>1. /\ up' = FALSE /\ stage' \in [Keys -> {"idle", "waiting", "checking"}]
        /\ \A k \in Keys : stage'[k] = "idle"
    BY <1>2 DEF SchedulerDies, Scheduler!Close, Scheduler!Move, Scheduler!Keys, Keys, Inv, TypeOK
  <2>2. UNCHANGED <<configured, data, entities, requests>>
    BY <1>2 DEF SchedulerDies
  <2>3. Checking' = {}
    BY <2>1 DEF Checking, Scheduler!In, Scheduler!Keys, Keys
  <2>4. OneRequest' /\ IdleIsAnswered'
    BY <2>1, <2>3 DEF OneRequest, IdleIsAnswered
  <2>5. ShownFresh'
    BY <2>2, ShownKept DEF data, entities, Added
  <2> QED
    BY <2>1, <2>2, <2>4, <2>5, QuietSteps DEF Inv, TypeOK, data, entities
<1>3. CASE Cancelled
  <2>1. ~up /\ up' = up /\ UNCHANGED <<configured, data, entities, requests>>
    BY <1>3 DEF Cancelled, Scheduler!Settle
  <2>2. /\ stage' \in [Keys -> {"idle", "waiting", "checking"}]
        /\ \A k \in Keys : stage'[k] # "checking"
    BY <1>3 DEF Cancelled, Scheduler!Settle, Scheduler!Move, Scheduler!In, Scheduler!Keys, Keys, Inv, TypeOK
  <2>3. Checking' = {}
    BY <2>2 DEF Checking, Scheduler!In, Scheduler!Keys, Keys
  <2>4. OneRequest' /\ IdleIsAnswered'
    BY <2>1, <2>3 DEF OneRequest, IdleIsAnswered
  <2>5. ShownFresh'
    BY <2>1, ShownKept DEF data, entities, Added
  <2> QED
    BY <2>1, <2>2, <2>4, <2>5, QuietSteps DEF Inv, TypeOK, data, entities
<1>4. CASE Stop
  <2>1. /\ UNCHANGED <<configured, data, feeSensors, shown, requests>>
        /\ phase' = "stopped"
    BY <1>4 DEF Stop
  <2>2. /\ up' = FALSE \/ (up' = up /\ stage' = stage /\ ~up)
        /\ stage' \in [Keys -> {"idle", "waiting", "checking"}]
        /\ Checking' \subseteq Checking
    BY <1>4 DEF Stop, Scheduler!Close, Scheduler!Move, Scheduler!In, Scheduler!Keys, Keys, Checking, Inv, TypeOK
  <2>3. OneRequest' /\ IdleIsAnswered'
    BY <2>2 DEF Inv, TypeOK, OneRequest, IdleIsAnswered
  <2>4. ShownFresh'
    BY <2>1 DEF ShownFresh, Added
  <2> QED
    BY <2>1, <2>2, <2>3, <2>4, QuietSteps DEF Inv, TypeOK, data
<1>5. ASSUME NEW p \in Plates, Press(p) PROVE Inv'
  <2>1. up' = up /\ UNCHANGED <<configured, data, entities>>
    BY <1>5 DEF Press, Scheduler!Call
  <2>2. /\ stage' \in [Keys -> {"idle", "waiting", "checking"}]
        /\ Checking' = Checking
        /\ \A k \in Keys : stage'[k] = "idle" => stage[k] = "idle"
    BY <1>5 DEF Press, Scheduler!Call, Scheduler!In, Scheduler!Keys, Keys, Checking, Inv, TypeOK
  <2>3. OneRequest'
    BY <2>2 DEF Inv, OneRequest
  <2>4. IdleIsAnswered'
    BY <2>1, <2>2, IdleKept DEF data
  <2>5. ShownFresh'
    BY <2>1, ShownKept DEF data, entities, Added
  <2> QED
    BY <2>1, <2>2, <2>3, <2>4, <2>5, QuietSteps DEF Inv, TypeOK, data, entities
<1> QED
  BY <1>1, <1>2, <1>3, <1>4, <1>5

LEMMA LifeSteps ==
  ASSUME Inv, \/ SetUpSensors \/ AddEntities \/ UnloadPlatforms
  PROVE  Inv'
<1>1. UNCHANGED <<stage, up, configured, data, feeSensors>>
  BY DEF SetUpSensors, AddEntities, UnloadPlatforms
<1>2. OneRequest' /\ IdleIsAnswered'
  BY <1>1 DEF Inv, OneRequest, IdleIsAnswered, KeysOf, Checking, Scheduler!In, data
<1>3. phase' \in {"starting", "sensors", "entities", "unloaded", "stopped"}
  BY DEF SetUpSensors, AddEntities, UnloadPlatforms
<1>4. ShownFresh'
  <2>1. CASE AddEntities
    <3>1. shown' = [p \in Plates |-> IF p \in configured THEN AggregateFor(p) ELSE None]
      BY <2>1 DEF AddEntities
    <3>2. \A p \in Plates : AggregateFor(p)' = AggregateFor(p)
      BY <1>1 DEF AggregateFor, data
    <3> QED
      BY <3>1, <3>2 DEF ShownFresh
  <2>2. CASE SetUpSensors \/ UnloadPlatforms
    BY <2>2 DEF ShownFresh, Added, SetUpSensors, UnloadPlatforms
  <2> QED
    BY <2>1, <2>2
<1> QED
  BY <1>1, <1>2, <1>3, <1>4, QuietSteps DEF Inv, TypeOK

LEMMA ReconfigureStep ==
  ASSUME Inv, NEW plates \in SUBSET Plates, Reconfigure(plates)
  PROVE  Inv'
<1>1. PICK dropped \in SUBSET {k \in Scheduler!In("waiting") : k[1] \in configured \ plates} :
        stage' = [k \in Keys |-> IF k \in dropped THEN "idle"
                   ELSE IF k \in KeysOf(plates) /\ stage[k] = "idle" THEN "waiting"
                   ELSE stage[k]]
  BY DEF Reconfigure, Scheduler!Call, Scheduler!Keys, Keys
<1>2. up /\ up' = up /\ configured' = plates /\ UNCHANGED <<data, entities>>
  BY DEF Reconfigure, Scheduler!Call
<1>3. stage' \in [Keys -> {"idle", "waiting", "checking"}] /\ Checking' \subseteq Checking
  BY <1>1 DEF Inv, TypeOK, Checking, Scheduler!In, Scheduler!Keys, Keys
<1>4. OneRequest'
  BY <1>3 DEF Inv, OneRequest
<1>5. \A k \in KeysOf(plates) : stage'[k] # "idle"
  <2>1. ASSUME NEW k \in KeysOf(plates) PROVE stage'[k] # "idle"
    <3>1. k \in Keys /\ k \notin dropped
      BY <1>1, <2>1 DEF KeysOf
    <3> QED
      BY <1>1, <2>1, <3>1
  <2> QED
    BY <2>1
<1>6. IdleIsAnswered'
  BY <1>2, <1>5 DEF IdleIsAnswered, KeysOf
<1>7. ShownFresh'
  BY <1>2, ShownKept DEF data, entities, Added
<1> QED
  BY <1>2, <1>3, <1>4, <1>6, <1>7, QuietSteps DEF Inv, TypeOK, entities

LEMMA InitInv == Init => Inv
<1> SUFFICES ASSUME Init PROVE Inv
  OBVIOUS
<1>1. TypeOK
  BY DEF Init, TypeOK
<1>2. Checking = {}
  BY DEF Init, Checking, Scheduler!In, Scheduler!Keys, Keys
<1>3. IdleIsAnswered
  BY DEF Init, IdleIsAnswered, KeysOf
<1>4. OneFeeSensor /\ AnnouncedUpper /\ ShownFresh /\ Attributed
  BY DEF Init, OneFeeSensor, AnnouncedUpper, ShownFresh, Added, Attributed, Of
<1>5. FinitelyMany
  BY FS_EmptySet DEF Init, FinitelyMany
<1> QED
  BY <1>1, <1>2, <1>3, <1>4, <1>5 DEF Inv, OneRequest

LEMMA NextInv == Inv /\ [Next]_vars => Inv'
<1> SUFFICES ASSUME Inv, [Next]_vars PROVE Inv'
  OBVIOUS
<1>1. CASE UNCHANGED vars
  BY <1>1 DEF vars, data, entities, Inv, TypeOK, OneRequest, AnnouncedUpper, OneFeeSensor, ShownFresh,
              IdleIsAnswered, Attributed, FinitelyMany, KeysOf, Checking, Scheduler!In, Added, AggregateFor
<1>2. CASE Answered \/ Malformed \/ RateLimited
  BY <1>2, EndsKeepInv
<1>3. CASE SendRequest \/ SchedulerDies \/ Cancelled \/ Stop \/ \E p \in Plates : Press(p)
  BY <1>3, StageSteps
<1>4. CASE SetUpSensors \/ AddEntities \/ UnloadPlatforms
  BY <1>4, LifeSteps
<1>5. CASE \E plates \in SUBSET Plates : Reconfigure(plates)
  BY <1>5, ReconfigureStep
<1> QED
  BY <1>1, <1>2, <1>3, <1>4, <1>5 DEF Next, Task, SetUp

----------------------------------------------------------------------------
(* What each step may do with the data *)

\* Either results are handed over, or the data stays, and what is shown too
\* unless the platforms move on.
LEMMA StepKinds ==
  ASSUME Inv, [Next]_vars
  PROVE  HandsOver \/ (UNCHANGED <<data, feeSensors>> /\ (phase' = phase => shown' = shown))
<1>1. CASE Answered \/ Malformed \/ RateLimited
  BY <1>1, EndsSoundly
<1>2. CASE SendRequest \/ SchedulerDies \/ Cancelled \/ UNCHANGED vars
  BY <1>2 DEF SendRequest, SchedulerDies, Cancelled, vars, entities
<1>3. CASE SetUpSensors \/ AddEntities \/ UnloadPlatforms \/ Stop
  BY <1>3 DEF SetUpSensors, AddEntities, UnloadPlatforms, Stop, Added
<1>4. CASE \E p \in Plates : Press(p)
  BY <1>4 DEF Press, entities
<1>5. CASE \E plates \in SUBSET Plates : Reconfigure(plates)
  BY <1>5 DEF Reconfigure, entities
<1> QED
  BY <1>1, <1>2, <1>3, <1>4, <1>5 DEF Next, Task, SetUp

LEMMA CurrencyStep ==
  ASSUME Inv, [Next]_vars
  PROVE  \A key \in published' \ published : Listening => feeSensors'[key] = 1
<1>1. CASE HandsOver
  <2>1. PICK provider \in Asked : \E answer : Sound(provider, answer) /\ HandleResults(provider, answer)
    BY <1>1 DEF HandsOver
  <2>2. PICK answer : HandleResults(provider, answer) /\ Sound(provider, answer)
    BY <2>1
  <2>3. /\ published' = published \cup Seen(Concerned(answer))
        /\ feeSensors' = [key \in Plates \X Currencies |->
             IF Listening /\ key \in Seen(Concerned(answer)) \ published
               THEN feeSensors[key] + 1 ELSE feeSensors[key]]
    BY <2>2 DEF HandleResults, Publish, Announced
  <2>4. Concerned(answer) \subseteq Plates
    BY DEF Inv, TypeOK, Concerned
  <2>5. Seen(Concerned(answer)) \subseteq Plates \X Currencies
    BY <2>4 DEF Seen
  <2>6. ASSUME NEW key \in Plates \X Currencies, key \notin published PROVE feeSensors[key] = 0
    <3>1. feeSensors[key] \in Nat
      BY DEF Inv, TypeOK
    <3>2. feeSensors[key] <= 1 /\ feeSensors[key] # 1
      BY <2>6 DEF Inv, OneFeeSensor
    <3> QED
      BY <3>1, <3>2
  <2> QED
    BY <2>3, <2>5, <2>6
<1>2. CASE UNCHANGED data
  BY <1>2 DEF data
<1> QED
  BY <1>1, <1>2, StepKinds

\* The effect of handing results over on the sessions of one plate.
LEMMA SessionsStep ==
  ASSUME Inv, HandsOver, NEW p \in Plates
  PROVE  \/ UNCHANGED <<sessions[p], results[p]>>
         \/ \E provider \in Asked : \E result :
              /\ p \in configured /\ <<p, provider>> \in Checking
              /\ SoundResult(provider, p, result)
              /\ sessions'[p] = ApplyProviderResult(sessions[p], provider, result)
              /\ results'[p][provider] = result.outcome
<1>1. PICK provider \in Asked : \E answer : Sound(provider, answer) /\ HandleResults(provider, answer)
  BY DEF HandsOver
<1>2. PICK answer : Sound(provider, answer) /\ HandleResults(provider, answer)
  BY <1>1
<1>3. CASE p \notin Concerned(answer)
  BY <1>2, <1>3 DEF HandleResults
<1>4. CASE p \in Concerned(answer)
  <2>1. p \in configured /\ p \in PlatesOf(Checking)
    BY <1>2, <1>4 DEF Concerned, Sound
  <2>2. PICK k \in Checking : k[1] = p
    BY <2>1 DEF PlatesOf
  <2>3. k = <<p, provider>>
    BY <2>2 DEF Asked, Inv, OneRequest, Checking, Scheduler!In, Scheduler!Keys
  <2>4. SoundResult(provider, p, answer[p])
    BY <1>2, <1>4 DEF Sound, Concerned
  <2>5. provider \in Providers
    BY AskedIsProvider DEF Inv
  <2>6. /\ sessions'[p] = ApplyProviderResult(sessions[p], provider, answer[p])
        /\ results'[p] = [results[p] EXCEPT ![provider] = answer[p].outcome]
    BY <1>2, <1>4 DEF HandleResults
  <2>7. results'[p][provider] = answer[p].outcome
    BY <2>5, <2>6 DEF Inv, TypeOK
  <2>8. /\ p \in configured /\ <<p, provider>> \in Checking
        /\ SoundResult(provider, p, answer[p])
        /\ sessions'[p] = ApplyProviderResult(sessions[p], provider, answer[p])
        /\ results'[p][provider] = answer[p].outcome
    BY <2>1, <2>2, <2>3, <2>4, <2>6, <2>7
  <2>9. \E result :
          /\ p \in configured /\ <<p, provider>> \in Checking
          /\ SoundResult(provider, p, result)
          /\ sessions'[p] = ApplyProviderResult(sessions[p], provider, result)
          /\ results'[p][provider] = result.outcome
    BY <2>8
  <2> QED
    BY <2>9
<1> QED
  BY <1>3, <1>4

LEMMA OthersStep ==
  ASSUME Inv, [Next]_vars
  PROVE  \A p \in Plates, q \in Providers :
           <<p, q>> \notin Checking => Of(sessions'[p], q) = Of(sessions[p], q)
<1>1. ASSUME NEW p \in Plates, NEW q \in Providers, <<p, q>> \notin Checking, HandsOver,
             ~UNCHANGED <<sessions[p], results[p]>>
      PROVE  Of(sessions'[p], q) = Of(sessions[p], q)
  <2>1. PICK provider \in Asked : \E result :
          /\ <<p, provider>> \in Checking /\ SoundResult(provider, p, result)
          /\ sessions'[p] = ApplyProviderResult(sessions[p], provider, result)
    BY <1>1, SessionsStep
  <2>2. provider # q
    BY <1>1, <2>1
  <2>3. sessions[p] \subseteq Sessions
    BY DEF Inv, TypeOK
  <2> QED
    BY <2>1, <2>2, <2>3, ApplyLeavesOthers
<1> QED
  BY <1>1, StepKinds DEF data

LEMMA ClosureStep ==
  ASSUME Inv, [Next]_vars
  PROVE  \A p \in Plates : \A s \in sessions[p] :
           s.confidence = "confirmed" /\ ~Reported(s, Active(sessions'[p]))
             => results'[p][s.provider] = "success" /\ <<p, s.provider>> \in Checking
<1> SUFFICES ASSUME NEW p \in Plates, NEW s \in sessions[p],
                    s.confidence = "confirmed", ~Reported(s, Active(sessions'[p]))
             PROVE  results'[p][s.provider] = "success" /\ <<p, s.provider>> \in Checking
  OBVIOUS
<1>1. sessions'[p] # sessions[p]
  BY DEF Reported, Active
<1>2. HandsOver
  BY <1>1, StepKinds DEF data
<1>3. PICK provider \in Asked : \E result :
        /\ <<p, provider>> \in Checking
        /\ sessions'[p] = ApplyProviderResult(sessions[p], provider, result)
        /\ results'[p][provider] = result.outcome
  BY <1>1, <1>2, SessionsStep
<1>4. sessions[p] \in SUBSET Sessions
  BY DEF Inv, TypeOK
<1> QED
  BY <1>3, <1>4, ApplyKeepsConfirmed

LEMMA RemovedStep ==
  ASSUME Inv, [Next]_vars
  PROVE  \A p \in Plates \ configured :
           sessions'[p] = sessions[p] /\ results'[p] = results[p]
             /\ (phase' = phase => shown'[p] = shown[p])
<1>1. CASE HandsOver
  <2>1. PICK provider \in Asked : \E answer : HandleResults(provider, answer)
    BY <1>1 DEF HandsOver
  <2> QED
    BY <2>1 DEF HandleResults, Concerned
<1>2. CASE UNCHANGED <<data, feeSensors>> /\ (phase' = phase => shown' = shown)
  BY <1>2 DEF data
<1> QED
  BY <1>1, <1>2, StepKinds

----------------------------------------------------------------------------
(* The runtime and SingleFlight *)

LEMMA SelectedKeys ==
  ASSUME NEW plates \in SUBSET Plates
  PROVE  KeysOf(plates) \in SUBSET Scheduler!Keys
  BY DEF KeysOf, Keys, Scheduler!Keys

\* Whatever happens in the runtime is one thing SingleFlight allows, or
\* nothing the scheduler knows of.
LEMMA StepKeepsToPromise ==
  ASSUME Inv, [Next]_vars
  PROVE  [Scheduler!Next]_<<stage, up>>
<1>1. CASE SendRequest
  BY <1>1 DEF SendRequest, Scheduler!Next, Scheduler!Keys, Keys
<1>2. CASE Answered \/ Malformed \/ RateLimited
  BY <1>2 DEF Answered, Malformed, RateLimited, RequestEnds, Scheduler!Next
<1>3. CASE SchedulerDies \/ Cancelled \/ Stop
  BY <1>3 DEF SchedulerDies, Cancelled, Stop, Scheduler!Next
<1>4. CASE SetUpSensors \/ AddEntities \/ UnloadPlatforms \/ UNCHANGED vars
  BY <1>4 DEF SetUpSensors, AddEntities, UnloadPlatforms, vars
<1>5. CASE \E p \in Plates : Press(p)
  <2>1. PICK p \in Plates : Press(p)
    BY <1>5
  <2>2. KeysOf({p}) \in SUBSET Scheduler!Keys /\ {} \in SUBSET Plates
    BY SelectedKeys
  <2> QED
    BY <2>1, <2>2 DEF Press, Scheduler!Next
<1>6. CASE \E plates \in SUBSET Plates : Reconfigure(plates)
  <2>1. PICK plates \in SUBSET Plates : Reconfigure(plates)
    BY <1>6
  <2>2. KeysOf(plates) \in SUBSET Scheduler!Keys /\ configured \ plates \in SUBSET Plates
    BY SelectedKeys DEF Inv, TypeOK
  <2> QED
    BY <2>1, <2>2 DEF Reconfigure, Scheduler!Next
<1> QED
  BY <1>1, <1>2, <1>3, <1>4, <1>5, <1>6 DEF Next, Task, SetUp

----------------------------------------------------------------------------
(* Theorems *)

\* The invariant the others follow from: what is stored is typed and was
\* written for the plate, what is shown is what is stored, and a monitored
\* plate that is at rest has an answer.
THEOREM Inductive == Spec => []Inv
  BY InitInv, NextInv, PTL DEF Spec

\* What is out is one request, for one plate unless the provider batches.
THEOREM OneRequestIsOut == Spec => []OneRequest
<1>1. Inv => OneRequest
  BY DEF Inv
<1> QED
  BY <1>1, Inductive, PTL

\* Every variable keeps its type, whatever the services answer.
THEOREM TypeCorrect == Spec => []TypeOK
<1>1. Inv => TypeOK
  BY DEF Inv
<1> QED
  BY <1>1, Inductive, PTL

\* There is one fee sensor per plate and currency at most.
THEOREM FeeSensorsAreUnique == Spec => []OneFeeSensor
<1>1. Inv => OneFeeSensor
  BY DEF Inv
<1> QED
  BY <1>1, Inductive, PTL

\* Entities show what is known of their plate, whenever the result arrived.
THEOREM EntitiesAreCurrent == Spec => []ShownIsCurrent
<1>1. Inv => ShownIsCurrent
  BY DEF Inv, ShownFresh, ShownIsCurrent, TypeOK
<1> QED
  BY <1>1, Inductive, PTL

\* Totals never mix currencies and, when complete, account for every fee.
THEOREM FeesAddUp == Spec => []FeesAccountFor
<1>1. Inv => FeesAccountFor
  <2> SUFFICES ASSUME Inv, NEW p \in Plates
               PROVE  LET a == AggregateFor(p) IN
                      /\ \A c \in DOMAIN a.fee_totals : Upper[c] = c
                      /\ a.fees_complete =>
                           /\ \A s \in a.sessions : s.fee # NoFee
                           /\ SumFunction(a.fee_totals) = SumFunction([s \in a.sessions |-> s.fee.amount])
    BY DEF FeesAccountFor
  <2> DEFINE active == Active(sessions[p])
  <2>1. sessions[p] \in SUBSET Sessions /\ IsFiniteSet(sessions[p])
    BY DEF Inv, TypeOK, FinitelyMany
  <2>2. active \in SUBSET Sessions /\ IsFiniteSet(active)
    BY <2>1, FS_Subset DEF Active
  <2>3. /\ AggregateFor(p).fee_totals = Totals(active) /\ AggregateFor(p).sessions = active
        /\ AggregateFor(p).fees_complete => \A s \in active : FeeKnown(s)
    BY DEF AggregateFor, AggregateSessions
  <2>4. \A c \in DOMAIN AggregateFor(p).fee_totals : Upper[c] = c
    BY <2>1, TotalsAreUpper DEF AggregateFor
  <2>5. ASSUME \A s \in active : FeeKnown(s)
        PROVE  /\ \A s \in active : s.fee # NoFee
               /\ SumFunction(Totals(active)) = SumFunction([s \in active |-> s.fee.amount])
    BY <2>2, <2>5, TotalsAddUp DEF FeeKnown
  <2> HIDE DEF active
  <2> QED
    BY <2>3, <2>4, <2>5
<1> QED
  BY <1>1, Inductive, PTL

\* A monitored plate that is neither waiting nor being checked has an answer.
THEOREM RequestsAreAnswered == Spec => []IdleIsAnswered
<1>1. Inv => IdleIsAnswered
  BY DEF Inv
<1> QED
  BY <1>1, Inductive, PTL

\* No session of a batched response ends up at another plate.
THEOREM SessionsAreAttributed == Spec => []Attributed
<1>1. Inv => Attributed
  BY DEF Inv
<1> QED
  BY <1>1, Inductive, PTL

\* A new currency gets its sensor once the sensor platform listens.
THEOREM CurrenciesGetSensors == Spec => NewCurrencyGetsSensor
<1> DEFINE Step == \A key \in published' \ published : Listening => feeSensors'[key] = 1
<1>1. Inv /\ [Next]_vars => [Step]_vars
  BY CurrencyStep
<1> QED
  BY <1>1, Inductive, PTL DEF Spec, NewCurrencyGetsSensor, Step

\* One provider's answer leaves the sessions of the others alone.
THEOREM OthersAreUntouched == Spec => OthersUntouched
<1> DEFINE Step == \A p \in Plates, q \in Providers :
             <<p, q>> \notin Checking => Of(sessions'[p], q) = Of(sessions[p], q)
<1>1. Inv /\ [Next]_vars => [Step]_vars
  BY OthersStep
<1> QED
  BY <1>1, Inductive, PTL DEF Spec, OthersUntouched, Step

\* Failures and empty answers never make a confirmed session inactive.
THEOREM SilenceIsNoClosure == Spec => SilenceDoesNotClose
<1> DEFINE Step == \A p \in Plates : \A s \in sessions[p] :
             s.confidence = "confirmed" /\ ~Reported(s, Active(sessions'[p]))
               => results'[p][s.provider] = "success" /\ <<p, s.provider>> \in Checking
<1>1. Inv /\ [Next]_vars => [Step]_vars
  BY ClosureStep
<1> QED
  BY <1>1, Inductive, PTL DEF Spec, SilenceDoesNotClose, Step

\* Late results change nothing of a plate that was removed.
THEOREM RemovedPlatesAreSilent == Spec => RemovedIsSilent
<1> DEFINE Step == \A p \in Plates \ configured :
             sessions'[p] = sessions[p] /\ results'[p] = results[p]
               /\ (phase' = phase => shown'[p] = shown[p])
<1>1. Inv /\ [Next]_vars => [Step]_vars
  BY RemovedStep
<1> QED
  BY <1>1, Inductive, PTL DEF Spec, RemovedIsSilent, Step

\* The runtime sees of its scheduler no more than SingleFlight promises, which
\* the detailed scheduler keeps: what is proved here holds with either.
THEOREM KeepsToPromise == Spec => Scheduler!Spec
<1>1. Init => Scheduler!Init
  BY DEF Init, Scheduler!Init, Scheduler!Keys, Keys
<1>2. Inv /\ [Next]_vars => [Scheduler!Next]_<<stage, up>>
  BY StepKeepsToPromise
<1> QED
  BY <1>1, <1>2, Inductive, PTL DEF Spec, Scheduler!Spec

=============================================================================
