---------------------------- MODULE EntryRuntime ----------------------------
(***************************************************************************)
(* The runtime of one config entry (runtime.py) between the scheduler, of  *)
(* which it sees what SingleFlight promises, and the entities of the       *)
(* platforms (sensor.py, binary_sensor.py, button.py).  The entry starts   *)
(* the scheduler before it sets its platforms up, so results can arrive    *)
(* before, between and after their registrations.                          *)
(***************************************************************************)
EXTENDS ProviderAdapters

CONSTANTS
  Selected,   \* the providers each plate's record selects
  Responses,  \* what each service may answer in this instance
  None,       \* no result yet, nothing shown yet
  MaxRequests \* bound: buttons and reconfigurations stop after this many

ASSUME SelectionAssumption ==
  Selected \in [Plates -> SUBSET Providers] /\ None \notin Outcomes
ASSUME ResponseAssumption ==
  /\ Responses["betterpark"] \subseteq ResponseOf(Process)
  /\ Responses["parkdepot"] \subseteq ResponseOf(Order)

VARIABLES
  stage, up,      \* the scheduler, as SingleFlight sees it
  configured,     \* keys of self._plates
  results,        \* self._results: outcome of the last result per plate and provider
  sessions,       \* self._sessions
  published,      \* self._published_currencies
  phase,          \* how far the platforms are: "starting", "sensors" (the currency
                  \* listener is registered), "entities" (they are added), "unloaded"
                  \* (they are gone, the scheduler runs on), "stopped"
  feeSensors,     \* how often a FeeTotalSensor was created per plate and currency
  requests,       \* counts buttons and reconfigurations, for the bound
  shown           \* the aggregate the entities of a plate wrote last, None
                  \* while the plate has none

Scheduler == INSTANCE SingleFlight

Keys == Plates \X Providers
entities == <<phase, feeSensors, shown>>
data     == <<results, sessions, published>>
vars     == <<stage, up, configured, data, entities, requests>>

KeysOf(plates) == {k \in Keys : k[1] \in plates /\ k[2] \in Selected[k[1]]}
AggregateFor(p) == AggregateSessions(sessions[p])

\* Entities drop their state callbacks when they go; the currency listener of
\* the sensor platform stays registered.
Listening == phase # "starting"
Added == phase = "entities"

----------------------------------------------------------------------------
(* async_handle_results *)

TotalsOf(p) == DOMAIN AggregateFor(p).fee_totals
Seen(plates) == {key \in plates \X Currencies : key[2] \in TotalsOf(key[1])'}

\* Mutants: a currency is announced with every result; the listeners are told
\* of the totals before the result.
AnnouncedAgain(plates) == Seen(plates)
AnnouncedBefore(plates) == {key \in plates \X Currencies : key[2] \in TotalsOf(key[1])} \ published

\* A currency is announced once per plate, to the listeners there are.
Announced(plates) == Seen(plates) \ published

Publish(plates) ==
  /\ published' = published \cup Seen(plates)
  /\ feeSensors' = [key \in Plates \X Currencies |->
        IF Listening /\ key \in Announced(plates) THEN feeSensors[key] + 1 ELSE feeSensors[key]]

\* Mutants: a result is kept for plates that are not configured any more;
\* entities are told only when a result has sessions.
ConcernedAll(answer) == DOMAIN answer
ToldOfSessions(p, answer) == shown[p] # None /\ answer[p].outcome = "success"

Concerned(answer) == DOMAIN answer \cap configured
Told(p, answer) == Added /\ shown[p] # None

\* answer maps the plates of a request to results; no plate is in it twice,
\* and the loop over the results touches each plate's state only.
HandleResults(provider, answer) ==
  LET plates == Concerned(answer) IN
  /\ results' = [p \in Plates |-> IF p \in plates
                   THEN [results[p] EXCEPT ![provider] = answer[p].outcome] ELSE results[p]]
  /\ sessions' = [p \in Plates |-> IF p \in plates
                   THEN ApplyProviderResult(sessions[p], provider, answer[p]) ELSE sessions[p]]
  /\ Publish(plates)
  /\ shown' = [p \in Plates |->
                   IF p \in plates /\ Told(p, answer) THEN AggregateFor(p)' ELSE shown[p]]

----------------------------------------------------------------------------
(* The scheduler's requests *)

Checking == Scheduler!In("checking")
PlatesOf(K) == {k[1] : k \in K}

\* Responses to the request that is out on which the adapter's verdict is this.
Answers(provider, verdict) ==
  {r \in Responses[provider] : VerdictOf(provider, PlatesOf(Checking), r) = verdict}
Asked == {k[2] : k \in Checking}

SendRequest ==
  /\ \E K \in SUBSET Keys : Scheduler!Begin(K)
  /\ UNCHANGED <<configured, data, entities, requests>>

\* The request ends, its keys are through or wait for a retry.
RequestEnds(next) ==
  /\ up /\ Scheduler!Settle /\ \A k \in Checking : stage'[k] = next
  /\ UNCHANGED <<configured, phase, requests>>

Answered ==
  /\ RequestEnds("idle")
  /\ \E provider \in Asked : \E r \in Answers(provider, "results") :
       HandleResults(provider, ResultsOf(provider, PlatesOf(Checking), r))

\* _async_publish_error: the same outcome for every plate of the request.
Fails(verdict, outcome) ==
  \E provider \in Asked :
    /\ Answers(provider, verdict) # {}
    /\ HandleResults(provider, [p \in PlatesOf(Checking) |-> [outcome |-> outcome, sessions |-> {}]])

\* A format error is published and not retried, a rate limit is both.  No
\* adapter raises the transient error the scheduler would retry as well.
Malformed   == RequestEnds("idle") /\ Fails("format", "error")
RateLimited == RequestEnds("waiting") /\ Fails("rate_limited", "rate_limited")

\* Any other exception ends the scheduler's task; nothing is published.
SchedulerDies ==
  /\ \E provider \in Asked : Answers(provider, "untyped") # {}
  /\ Scheduler!Close /\ \A k \in Keys : stage'[k] = "idle"
  /\ UNCHANGED <<configured, data, entities, requests>>

----------------------------------------------------------------------------
(* The entry's life *)

\* The sensor platform's setup registers its currency listener.
SetUpSensors ==
  /\ phase = "starting"
  /\ phase' = "sensors"
  /\ UNCHANGED <<stage, up, configured, data, feeSensors, shown, requests>>

\* The entities are added: they subscribe and write their first state.
AddEntities ==
  /\ phase = "sensors"
  /\ phase' = "entities"
  /\ shown' = [p \in Plates |-> IF p \in configured THEN AggregateFor(p) ELSE None]
  /\ UNCHANGED <<stage, up, configured, data, feeSensors, requests>>

\* async_request_recheck: a key that is waiting or being checked stays so;
\* on a scheduler whose task died the request changes nothing that is served.
Press(p) ==
  /\ Added /\ p \in configured
  /\ requests < MaxRequests /\ requests' = requests + 1
  /\ IF up THEN Scheduler!Call(KeysOf({p}), {}) ELSE UNCHANGED <<stage, up>>
  /\ UNCHANGED <<configured, data, entities>>

\* async_reconfigure: work of removed plates is cancelled where it is still
\* queued, every selected pair of the new records is scheduled.  What was
\* learned of a removed plate stays.
Reconfigure(plates) ==
  /\ plates # configured
  /\ requests < MaxRequests /\ requests' = requests + 1
  /\ Scheduler!Call(KeysOf(plates), configured \ plates)
  /\ configured' = plates
  /\ UNCHANGED <<data, entities>>

\* async_unload_platforms, which removes the entities; results go on arriving
\* until the scheduler is stopped.
UnloadPlatforms ==
  /\ Added /\ phase' = "unloaded"
  /\ UNCHANGED <<stage, up, configured, data, feeSensors, shown, requests>>

\* async_stop.
Stop ==
  /\ phase = "unloaded" /\ phase' = "stopped"
  /\ IF up THEN Scheduler!Close /\ \A k \in Checking : stage'[k] = "checking"
           ELSE UNCHANGED <<stage, up>>
  /\ UNCHANGED <<configured, data, feeSensors, shown, requests>>

\* A request that was out is cancelled and publishes nothing.
Cancelled ==
  /\ ~up /\ Scheduler!Settle
  /\ UNCHANGED <<configured, data, entities, requests>>

\* async_setup_entry up to "await async_forward_entry_setups": every selected
\* pair is scheduled and the scheduler is running.
Init ==
  /\ up = TRUE
  /\ configured \in (SUBSET Plates) \ {{}}
  /\ stage = [k \in Keys |-> IF k \in KeysOf(configured) THEN "waiting" ELSE "idle"]
  /\ results = [p \in Plates |-> [q \in Providers |-> None]]
  /\ sessions = [p \in Plates |-> {}]
  /\ published = {}
  /\ phase = "starting" /\ requests = 0
  /\ feeSensors = [key \in Plates \X Currencies |-> 0]
  /\ shown = [p \in Plates |-> None]

Task == SendRequest \/ Answered \/ Malformed \/ RateLimited \/ SchedulerDies \/ Cancelled
SetUp == SetUpSensors \/ AddEntities

Next ==
  \/ Task
  \/ SetUp
  \/ \E p \in Plates : Press(p)
  \/ \E plates \in SUBSET Plates : Reconfigure(plates)
  \/ UnloadPlatforms \/ Stop

Spec == Init /\ [][Next]_vars

\* The scheduler's task and the setup of the platforms go on; users and
\* reconfigurations are not owed to anybody.
LiveSpec == Spec /\ WF_vars(Task) /\ WF_vars(SetUp)

----------------------------------------------------------------------------
(* Properties *)

\* Type invariant.
TypeOK ==
  /\ stage \in [Keys -> {"idle", "waiting", "checking"}] /\ up \in BOOLEAN
  /\ configured \subseteq Plates
  /\ results \in [Plates -> [Providers -> Outcomes \cup {None}]]
  /\ \A p \in Plates : sessions[p] \subseteq Sessions
  /\ published \subseteq Plates \X Currencies
  /\ phase \in {"starting", "sensors", "entities", "unloaded", "stopped"}
  /\ feeSensors \in [Plates \X Currencies -> Nat]

\* "Add one currency-specific monetary entity when it first appears": never a
\* second sensor for a currency, however it is spelled and however often it
\* disappears and comes back, and none for a currency nobody reported.
OneFeeSensor ==
  \A key \in Plates \X Currencies :
    /\ feeSensors[key] <= 1
    /\ feeSensors[key] = 1 => key \in published /\ Upper[key[2]] = key[2]

\* A currency that first appears once the sensor platform listens gets its
\* sensor in that very step.
NewCurrencyGetsSensor ==
  [][\A key \in published' \ published : Listening => feeSensors'[key] = 1]_vars

\* What the entities of a monitored plate show is what is known of it: no
\* result changes the aggregate without a new write, also those that arrive
\* while the entities are being added.
ShownIsCurrent ==
  Added => \A p \in configured : shown[p] # None => shown[p] = AggregateFor(p)

\* The answer of one provider for one plate leaves what the other providers
\* reported, and what is known of other plates, as it is.
OthersUntouched ==
  [][\A p \in Plates, q \in Providers :
       <<p, q>> \notin Checking => Of(sessions'[p], q) = Of(sessions[p], q)]_vars

Reported(s, list) == \E t \in list : t.provider = s.provider /\ t.id = s.id

\* "A single absent provider record does not become a false closure": a
\* confirmed session stays active through failures and through an answer
\* without any session.
SilenceDoesNotClose ==
  [][\A p \in Plates : \A s \in sessions[p] :
       s.confidence = "confirmed" /\ ~Reported(s, Active(sessions'[p]))
         => results'[p][s.provider] = "success" /\ <<p, s.provider>> \in Checking]_vars

\* A plate that was removed is dead to late results: a request that was out
\* when it was removed changes neither what is known nor what is shown of it.
RemovedIsSilent ==
  [][\A p \in Plates \ configured :
       sessions'[p] = sessions[p] /\ results'[p] = results[p]
         /\ (phase' = phase => shown'[p] = shown[p])]_vars

\* Totals never mix currencies and, when marked complete, account for the
\* fee of every active session.
FeesAccountFor ==
  \A p \in Plates :
    LET a == AggregateFor(p) IN
    /\ \A c \in DOMAIN a.fee_totals : Upper[c] = c
    /\ a.fees_complete =>
         /\ \A s \in a.sessions : s.fee # NoFee
         /\ SumFunction(a.fee_totals) = SumFunction([s \in a.sessions |-> s.fee.amount])

\* "One result for each requested plate": a monitored plate that is neither
\* waiting for a check nor being checked has an answer of the provider, be it
\* a failure, also when others of its batch were found parked and it was not.
IdleIsAnswered ==
  up => \A k \in KeysOf(configured) : stage[k] = "idle" => results[k[1]][k[2]] # None

\* What a batched response says of one plate never ends up at another: every
\* session is of a record some service may have written for that plate.
Attributed ==
  \A p \in Plates : \A s \in Of(sessions[p], "parkdepot") :
    \E r \in Responses["parkdepot"] : \E i \in DOMAIN r.items :
      LET order == r.items[i] IN
      /\ order.plate # Absent /\ NormalizePlate[order.plate] = p
      /\ order.id = s.id /\ s.fee = FeeOf(order, Price(order), "amount_due")

\* "When a previously active provider session has not been conclusively
\* closed but is absent from a later provider response, the device retains it
\* as possibly active."
AbsentIsRetained ==
  [][\A p \in Plates : \A s \in sessions[p] :
       s.confidence = "confirmed" => Reported(s, Active(sessions'[p]))]_vars

\* Once its entities are there, a plate exposes the total of every currency
\* that was announced for it as a sensor.
EveryCurrencyHasSensor ==
  Added => \A key \in published : feeSensors[key] = 1

\* "Permanent/provider-format failures MUST be surfaced": a plate for which
\* every provider only ever failed is not shown as not parked.
FailureIsSurfaced ==
  \A p \in configured :
    Selected[p] # {} /\ (\A q \in Selected[p] : results[p][q] = "error")
      => AggregateFor(p).status # "not_parked"

\* "The integration SHALL schedule each selected plate-provider pair when its
\* configured frequency is due": a pair that stays configured is checked
\* again and again.
CheckedAgain ==
  \A k \in Keys : [](up /\ k \in KeysOf(configured)) => []<>(stage[k] = "checking")
=============================================================================
