# Park Snoop: a TLA+ verification project

Park Snoop is a Home Assistant integration that checks licence plates against
parking services. Per config entry there is one scheduler with one asyncio
task, a runtime that keeps what is known of each plate, and entities that show
it. The modules here are translated from `src/custom_components/park_snoop`;
`PROJECT.json` names for each definition the lines it stands for.

## The system

| Part | State | Operations | Hard behaviour |
| --- | --- | --- | --- |
| `scheduler.py` | heap `_queue` with stale entries, dict `_pending`, set `_running`, `_wake` event, `_task`, local lists of `async_run_due` | start, stop, schedule, request now, cancel plate; the task collects due jobs, asks the policy, sends, sleeps; a request succeeds, is rate limited, fails | callers act at every suspension point of the task, also on keys the task has taken from the heap; retries; cancellation; an exception nobody catches |
| `providers/base.py` | `_last_request` of a policy | `next_permitted_at`, `record_request` | the time between permission and request |
| `models.py` | none | apply a result to sessions, sum sessions up | silence is not a closure; currencies; completeness |
| `runtime.py` | plates, results, sessions, announced currencies, listeners | start, handle results, recheck, reconfigure, stop | results during setup, after removals, after failures |
| `sensor.py`, `binary_sensor.py`, `button.py` | listeners, the state written last | platform setup, fee sensors, press | pushed by callback only; set up after the scheduler was started |
| `__init__.py` | `hass.data`, Home Assistant's entry and entity registry | set up, unload, options update and reload | order of stop and unload, failing platforms, reloads that overlap |
| `config_flow.py` | the options of the entry, the selected plate of a flow | create the entry; add, edit, remove | several flows open over the same options |
| `providers/betterpark.py`, `parkdepot.py` | none | query and classify a response | which malformed or failing response becomes which outcome; orders of several plates in one response |
| `providers/registry.py`, `example.py`, `diagnostics.py`, `const.py` | a dict filled at setup | lookup, rendering | none |

A check goes: a caller (`runtime.async_start`, `async_request_recheck`,
`async_reconfigure`) puts a job for a key (plate, provider) into the
scheduler; the task takes all due jobs out, groups them by provider, asks the
provider's policy, awaits `async_query`; the results go through the listener
to `async_handle_results`, which updates sessions and calls the entities back;
the keys are retired or, after a rate limit or a transient failure, queued
again. Everything runs on one event loop: steps interleave at awaits only.

## Modules

`SingleFlight` is what the scheduler promises, without heap, clock or task:
each key is idle, waiting or being checked; one request is out, for one
provider, for one plate unless the provider batches; a key that waits is
checked or withdrawn, never lost and never doubled. One `Call` may ask for
several keys and remove several plates, because `async_request_recheck` and
`async_reconfigure` call the scheduler in a loop without awaiting anything else.

`MonitoringScheduler` is the scheduler. A step is what happens between two
suspension points of the code. The task suspends before its first step
(`loop = "ready"`), in `provider.async_query` (`"query"`) and waiting for its
event (`"wait"`); its run in between is cut into `Collect`, `Defer`, `Permit`,
`Dispatch`, `Sleep`, during which `loop = "turn"` keeps everybody else out.

| Model | Code |
| --- | --- |
| `queue`, `pending`, `running`, `sequence`, `wake` | the attributes of the same name; `j \in pending` is `self._pending.get(j.key) is j` |
| `backlog`, `cleared`, `flight` | the local lists: `due_jobs` not reached, the group past the policy, the jobs of the request that is out |
| `alarm` | the timeout of `wait_for`, as the time it ends |
| `lastRequest` | `_last_request` of the policies |
| `owed`, `cooldown` | history, for properties only |
| `Schedule`, `RequestNow`, `CancelPlate`, `Start`, `Stop` | the public coroutines |
| `Conclude`, `RateLimited`, `TransientFailure`, `UntypedFailure`, `Unwind` | the ways out of the `try` of `_async_dispatch`, with the `finally` block; a format error ends like a success here |
| `Tick` | time passes while the event loop is free |

A `Retry-After` header is a number of seconds or a date that many seconds ahead
(`Header`). `Named` is the delay it names, which `cooldown` records; `SecondsOf`
is what `_retry_after_seconds` makes of it and the error carries: the number, not
below zero, and nothing for a date. The adapters' docstring has it that "date forms
are handled by the scheduler" (`parkdepot.py:188`), which never sees one: with a
date beyond the minimum cooldown among the headers `RetryAfterKept` does not hold. No run shows that; the
safety run has numbers only.

Two equal jobs cannot exist because `sequence` differs, so sets stand for the
heap and the lists; their order is `Before`, which `IsFirst` uses where the
code depends on it. Requeued groups keep their order in `Renewed`.

`ParkingModels` holds `apply_provider_result` and `aggregate_sessions` as
operators on sets of sessions. A session keeps its provider, its id there, its
place in the answer (so that two records with one id stay two, as in the code's
tuple), its confidence and its fee; times and location are copied along in the
code and nothing depends on them.

`ProviderAdapters` is `normalize_response` and `async_query` of the two
adapters. A response is a status, a body that is lost, misshapen or a list, and
the records in the list with the fields the code looks at, each possibly
missing or garbled. `Verdict` is what leaves the query, in the order the code
decides it: the body is read before the status, so a lost body is an untyped
exception whatever the status says. `BetterParkSessions` skips processes that
have ended before it looks at their fee; `ParkDepotSessions` takes the orders
of a plate out of a batch, by the normalized spelling; `ParkDepotMalformed`
rejects the batch for one foreign order. Spellings and normalized plates are
model values, `NormalizePlate` is a given function on them.

`EntryRuntime` composes both with `SingleFlight`, the runtime, the platforms
and one generation of an entry: the scheduler's steps are those of
`SingleFlight` (which `MonitoringScheduler` is proved to implement), a request
ends with any response its service may give (`Responses`), and the adapter's
verdict decides between `Answered`, `Malformed`, `RateLimited` and
`SchedulerDies`. Its `phase` splits the life of the entry where results can
come in between: before the currency listener is registered (`"starting"`),
before the entities are added (`"sensors"`), while they are there
(`"entities"`), after the platforms were unloaded with the scheduler still
running (`"unloaded"`), after `async_stop` (`"stopped"`). The three platforms'
entities are added in one step. `HandleResults` treats the plates of a request
at once: the loop awaits nothing and touches one plate's state per result.
`Reconfigure` is `async_reconfigure`, which only the tests call today: an
update of the options reloads the entry instead.

`ConfigEntry` is `__init__.py` over many generations. The states of the entry
are Home Assistant's, plus where a setup or an unload waits. External, and
taken from Home Assistant's documented behaviour: setups, reloads and unloads
of an entry are serialized by a lock, update listeners run at once; only a
loaded entry is unloaded; a setup that raises leaves `setup_error` and its
listener; an unload that raises or returns false leaves `failed_unload`, which
no reload leaves before a restart; the entity registry survives everything. The
runtime is reduced to its records, the scheduler to whether its task runs;
`strays` are running schedulers whose runtime is not in `hass.data` any more.

| Model | Code |
| --- | --- |
| `options`, `registry` | `entry.options[PLATES]`; plates with entities in the entity registry |
| `runtime`, `alive` | `hass.data[DOMAIN][entry_id].plates`; its `scheduler.is_running` |
| `StartSetup`, `FinishSetup`, `ForwardFails` | `async_setup_entry` up to its await of the platforms, after it, raising there |
| `UpdateOptions`, `BeginReload` | an options update with `_async_entry_updated` up to its await of the reload; the reload gets the lock |
| `UnloadPlatforms`, `Stopped` | `async_unload_entry` up to its await of the stop, and after it |

`ConfigEntry` takes any change of the options, a superset of what `OptionsFlow`
makes, so what it shows holds for what users submit.

`Reconciliation` is what the life of an entry promises whoever changes the
options, without states, locks or counts of reloads: an entry is set up on the
options of that moment, what it runs on never changes while it runs, and from the
moment the options differ a reload is owed. `InForce` and `ReloadDue` map
`ConfigEntry` to it; an entry whose platforms failed still counts as set up,
because its runtime and its listener are there.

`OptionsFlow` is the options flow of `config_flow.py` for several open
dialogs. `plates` is the stored list; a position is the number of the addition
that made it, so that order is kept and a removal disturbs no other position.
Home Assistant checks a submission against the form it showed, so the plates
offered for selection (`offered`) may be stale, while the code reads the list
again at submission. A submission is one step: the code awaits nothing between
reading and returning the list, and Home Assistant stores it in the same turn.
Rejected submissions show the same form again and change nothing.

`PlateRegistry` is what the flow promises the rest of the integration: a registry
in which one plate at a time is entered, gets new settings or is taken out. The
registry stands for `_plates` of the runtime, the dict made of the list in the
options (`DictOf`), in which the last record of a plate would win if there
were two.

`MC...` modules give the instances for TLC, `..._proofs` the theorems;
`SumTheorems` holds the facts about finite sums that the fee totals need.

## Runs

| Run | Result | What it shows |
| --- | --- | --- |
| `scheduler_safety` | passes | no key's work is doubled (`NoDuplicateWork`), lost (`NoWorkLost`, `OwedIsHeld`), overslept (`NoOversleep`), put off for good (`BoundedWait`) or displaced (`DeferralStands`); no plate in a batch is retried before its own backoff (`OwnBackoffKept`), nor before a `Retry-After` in seconds is over (`RetryAfterKept`); requests are grouped (`RequestShape`) and paced (`BatchesKeepInterval`); retries replace what callers queued meanwhile (`RetryIsLater`); stop is final (`StopIsFinal`) |
| `scheduler_service` | passes | what is asked for is concluded (`RequestServed`); the scheduler implements `SingleFlight` (`Promise`) |
| `runtime` | passes | one fee sensor per currency (`OneFeeSensor`), created when the currency appears (`NewCurrencyGetsSensor`); entities show what is known (`ShownIsCurrent`); an answer touches its own provider and plate (`OthersUntouched`), its orders end up at their plate (`Attributed`) and no plate of a batch is left without an answer (`IdleIsAnswered`); silence and failures close nothing (`SilenceDoesNotClose`); removed plates stay silent (`RemovedIsSilent`); totals account for the fees (`FeesAccountFor`) |
| `entry` | passes | one scheduler per entry besides those that failed setups leave (`MonitoredOnce`); a loaded entry runs on its options (`RunsOnOptions`) and in the end it does or is in a failed state (`Settles`); entities of removed plates are left over in one situation only (`OrphansExplained`); what an entry runs on changes as `Reconciliation` says (`Reconciles`) |
| `options` | passes | a plate is stored once (`IdentifiersUnique`), with values that can be scheduled (`TypeOK`); no dialog undoes another (`OthersKept`); identifiers never change and removed plates stay removed (`IdentityStable`); the runtime's dict changes as `PlateRegistry` says (`KeepsRegistry`) |
| `scheduler_untyped_failure` | violated | an exception outside the three provider errors ends the task for good |
| `scheduler_cooldown` | violated | `Retry-After` binds the plates of one request, not the provider, and not a recheck |
| `scheduler_interval` | violated | a provider without batching is sent the whole group at once, whatever its interval |
| `runtime_absent` | violated | a successful answer drops a confirmed session it does not mention |
| `runtime_currency_race` | violated | a currency seen before the sensor platform is set up never gets its sensor |
| `runtime_failure` | violated | a plate that could not be checked is shown as not parked |
| `runtime_cadence` | violated | no pair is ever checked periodically |

The violated runs are the `findings` of `PROJECT.json`, each with the sentence
of the repository it disagrees with. They are deliberate: a run that starts to
pass tells that the code (or its model) has changed.

`CHECK_DEADLOCK` is off for the scheduler, the runtime and the entry: an
unloaded entry stops, and the bounds stop callers, updates and time. `options`
is checked for deadlock: a dialog can always be closed.

Three things the `entry` run lets happen, and its properties bound:

* A plate is removed while the setup awaits the platforms. The listener takes
  its entities out of the registry, the platforms then add them, and the reload
  compares with a runtime that does not know the plate any more: its entities
  stay, with nothing failing at all. The README of Park Snoop promises their
  removal; `OrphansExplained` shows that this overlap, and a removal while there
  is no runtime (both in `overlapped`), are the only ways to it.
* A scheduler whose task has died raises its exception out of the unload: the
  entry ends in `failed_unload` and no update takes effect before a restart.
  `Settles` counts that state as settled.
* A platform that fails in setup leaves its scheduler running. The next setup
  replaces the runtime, and both schedulers query the services (`strays`).
  `MonitoredOnce` does not forbid that, it bounds it: never more leftover
  schedulers than failed setups, and none from updates, reloads or failing
  unloads. No run of its own shows it as a finding, because whether a setup may
  raise there is up to Home Assistant.

### Bounds

Scheduler: two plates, one provider that batches (with an interval policy of
2) and one that does not, which is one of each kind the code distinguishes and
the smallest group of two. Callers and failures stop at `Horizon` = 3 and
callers after `MaxSequence` = 3 heap entries (the run was also made once with 4
and `Horizon` = 2, 12 million states); time goes on until queued work is due. Three entries let a
key be asked for, taken by the task, asked for again and requeued. Delays are
scaled: minimum cooldown 2 against a `Retry-After` of -1 or 3 seconds (smaller
and larger), backoff 2 with cap 3, so that the cap cuts off the second backoff,
4, and plates with different numbers of attempts meet in one batch. 2.8 million
states. The liveness run also has a `Retry-After` that is a date.
Plates are symmetric in the safety run; the liveness run uses no symmetry, and
two entries.

Runtime: two plates, two providers, the car watched by both and the van by
ParkDepot only, so that ParkDepot gets batches of one and of two plates; two
spellings of one currency, a spelling of the car's plate that has to be
normalized. BetterPark answers with a running process with a fee, with an ended
one beside one without a fee, with a rate limit or a lost body; ParkDepot with
nothing, with an order of the car (so that one plate of a batch is found and
one is not), with an order of each plate (the van's first, so that the order of
the answer is not that of the request), with an order of the van beside one of a
stranger. 357 thousand states. Two buttons or
reconfigurations (`MaxRequests`), enough to remove a plate and bring it back.
Retries need no bound of their own, the stages of `SingleFlight` are finite.

Entry: two plates, two records a plate may have, three updates (`MaxUpdates`:
one in a setup, one in the reload it asks for, one after), a restart, and every
fault: the scheduler's task, the setup and the unload of the platforms. 845
thousand states.

Options: two dialogs (any hazard is between a dialog and a change another one
made), two plates, one of them with two spellings, a spelling of nothing, three
additions (both plates and one that comes back), frequencies of -1, 0, half a
minute, 1 and 5 minutes, every set of providers. Dialogs are symmetric.

### Fairness

`LiveSpec` of the scheduler assumes that a runnable task is run (the event
loop), a request ends (the HTTP session has a timeout) and time passes. Weak
fairness is enough: each of these stays enabled until it happens. No caller
owes anything. Failures stop at the horizon, so that a provider that fails for
ever is not the counterexample. `LiveSpec` of the runtime has the same for the
scheduler's steps and for the setup of the platforms. `LiveSpec` of the entry
assumes that Home Assistant goes on with the setup, reload or unload it began
and hands the lock on (`WF_vars(Manager)`); updates, faults and restarts are
owed to nobody, and their bounds are what lets `Settles` speak of the end of
updates.

## Proofs

`MonitoringScheduler_proofs` proves, for all finite sets of plates and
providers, all delays, faults and bounds (the assumptions
`PopulationAssumption`, `DelayAssumption`, `BoundAssumption`), every property
that `scheduler_safety` checks and the refinement `Promise`; `RetryAfterKept`
under the premise that headers are numbers (`NumbersAreHeeded`), because a date
further ahead than the minimum cooldown is not waited for. The argument is one
inductive invariant `IInv`:

* `Phases`: what the task holds at each suspension point; `running` is exactly
  `flight`, so the `finally` block removes what is there;
* `PendingIsDict`, `HandIsDict`: one job per key in the dict and in the task's
  hands. Together with `Collect` taking only entries that are the pending ones,
  this is why a stale heap entry never becomes work;
* `Backed`, `OwedBacked`: a pending key has its heap entry or is in hand, also
  before the task is started. `NoWorkLost` alone is not inductive because it
  says nothing of a scheduler that is not running yet;
* `Grouped`, `Punctual`: the group that was let through is of one provider and
  was taken out whole, and a batching group is still permitted when its
  request goes out: no step of `"turn"` lets time pass;
* `Closed`: after a stop heap and dict are empty.

`NextStep` has one lemma per action; `Conclude`, `UntypedFailure` and `Unwind`
share `RetireStep`, the two retries share `RetryStep`, and the two requests of
callers `AskEnqueues` and `AskSkips`. The action properties follow from `IInv`
at the step. That the backoff of a batch is no shorter than that of any plate in
it, and within the cap for every number of attempts, needs powers of two to be
positive and to grow (`PowersGrow`), which is an induction; the proof counts the
subsets of `1..n` instead. For the refinement `StepRefines` maps each action: callers to
`Call`, `Dispatch` to `Begin`, ends of requests to `Settle`, `Stop` and
`UntypedFailure` to `Close`, the rest to a stutter.

`OptionsFlow_proofs` proves all that `options` checks, for any number of
dialogs, plates, spellings and providers. `TypeOK` gives the uniqueness its
free position, uniqueness is what makes an edit or a removal touch one record,
and with one record per plate the choice in `DictOf` is no choice (`DictEntry`).
`RegistryIsKept` is the refinement: `Add` is `Enter`, `Edit` is `Change` (or a
stutter, when the settings stay), `Remove` is `TakeOut` or finds the plate gone,
every other step of a dialog leaves the registry alone. `RegistryIsSchedulable`
follows from the promise: a setup of the entry reads options of the kind
`ConfigEntry` starts from.

`EntryRuntime_proofs` proves every property that `runtime` checks, for all
plates, selections of providers, currencies and responses the services may
give. Its inductive invariant `Inv` adds to the checked ones:

* `OneRequest`: a request is for one provider, and for one plate unless the
  provider batches. Without it an answer could not be told whose it is; it is
  also what lets the model take one response per request, where
  `betterpark.py` loops over the plates it was given. `OneRequestIsOut` is the
  theorem;
* `AnnouncedUpper`: announced currencies are in upper case;
* `ShownFresh`: what is shown is current for removed plates too, because a plate
  may come back;
* `FinitelyMany`: the sessions of a plate are finitely many, so that counts and
  sums mean what they say. Responses are finite sequences of any length.

Everything the runtime stores goes through `HandleResults`: its effect is proved
once for any sound answer, and that the adapters' answers are sound (one result
per plate of the request, finitely many sessions, every ParkDepot session from an
order of its plate) is a lemma about `ProviderAdapters`. `KeepsToPromise` states
that the entry's scheduler does nothing but what `SingleFlight` allows; as
`MonitoringScheduler` implements the same module (`KeepsPromise`), the runtime
depends on the scheduler's promise only.

`ProviderAdapters_proofs` proves the operators that `EntryRuntime` and the
adapters are built from, for every input:

* `TotalsAddUp`: the totals of a plate, over its currencies, are the sum of
  the fees. `FeesAddUp`, that is `FeesAccountFor`, follows from it;
* `ProvidersCommute`: results of two providers may arrive in either order;
* `SecondSilenceForgets`: two empty answers in a row forget every session of
  their provider. It is the other side of `SilenceDoesNotClose`, and what the
  finding of `runtime_absent` says of the second answer;
* `OrdersAreReportedOnce`, `SessionsAreCounted`: a batch that is not rejected
  yields one session per order, each at the one plate the order is for.

The sums rest on the lemmas of `SumTheorems`, which are about
the library and not about this program. `SumFunctionOnSet` is a fold, that is, a
recursive function whose value nothing states. `SumsExist` shows that there is one,
`SumTakesAny` that it does not depend on the order in which `CHOOSE` takes the
elements, `SumByClass` that a sum may be taken class by class. Where induction
over finite sets would be the usual argument, whose rule takes an operator as a
parameter, the proofs take a smallest set on which the fact fails
(`SmallestSet`) and derive a smaller one.

`ConfigEntry_proofs` proves all safety properties of `entry` for any number of
plates, updates and restarts. Its `Inv` has four parts besides the types:
`LifeInv` (from the start of a setup to the unload there are a runtime and a
listener), `CountInv` (strays stem from failed setups), `CurrentInv` (an entry
in setup or loaded has its options in the runtime or a reload waiting) and
`RegistryInv` (what the registry and the runtime may hold beyond the options).
`OptionsAreReconciled` is the refinement: `StartSetup` is `Adopt`, an update is
`Update`, which owes a reload because `LifeInv` says the listener hears it, the
unload of the platforms, a restart and the reload after a failed setup are
`Withdraw`; the platforms' part of a setup, the end of a stop and the death of a
task are stutters. `OutdatedOwesReload` is what follows from the promise alone. It
is stronger than the first part of `RunsOnOptions`: it speaks of an entry in
setup and of one whose setup failed, too.

Model-checked only: `RequestServed` and `Settles`, which are liveness under
fairness and out of the prover's reach. Every other property of a passing run
is a theorem. The properties that the code violates are, of course, none.

## Not modelled

* The registry: filled with the two adapters in every setup and constant
  afterwards; looking a provider up never fails for the identifiers the options
  flow accepts.
* The example provider, diagnostics, constants: no state, nothing depends on
  them.
* `last_check_for`, `next_check_for`, `pending_keys`, `next_due_at`: computed for
  display or tests, they change nothing.
* Names, icons, units, texts, `plate_unique_id` (taken as injective), timestamps
  and locations of sessions: copied and shown.
* The text of requests and the field names of responses; a response is what the
  code tells apart in it.
* The config flow that creates the entry: it only calls Home Assistant's guards
  for a single entry.
* Jitter of the backoff: a constant 0 unless a caller of the constructor passes
  another function, which none does.

## Order of the modules

`SingleFlight` and `MonitoringScheduler` first, the core; `ParkingModels`,
`ProviderAdapters` and `EntryRuntime` on top of `SingleFlight`; `OptionsFlow`
with `PlateRegistry`, and `ConfigEntry` with `Reconciliation`, beside them and
joined by the options of the entry. The proofs follow: the scheduler and its
refinement, the options, the runtime on the adapters and sums, the entry. A
change of the code belongs into the module its component names in
`PROJECT.json`; whoever changes the reload (`__init__.py:86`) into
`async_reconfigure` finds that operation in `EntryRuntime` already.
