------------------------- MODULE MonitoringScheduler -------------------------
(***************************************************************************)
(* The scheduler of one config entry (custom_components/park_snoop/        *)
(* scheduler.py): a heap of due jobs, one asyncio task that works them     *)
(* off, and the coroutines other parts of the integration call on it.      *)
(*                                                                         *)
(* Everything runs on one event loop, so a step of the model is what       *)
(* happens between two suspension points.  The task suspends in three      *)
(* places only: before its first step ("ready"), inside provider.          *)
(* async_query ("query") and while it waits for its wake event ("wait").   *)
(* loop = "turn" marks that the task holds the event loop: it is cut into  *)
(* several actions to stay readable, and nobody else acts between them.    *)
(***************************************************************************)
EXTENDS Integers, FiniteSets

CONSTANTS
  Plates,        \* normalized plate identifiers
  Providers,     \* identifiers in the provider registry
  Batching,      \* providers whose metadata says supports_batching
  Interval,      \* proactive rate limit of each provider, 0 for NoRateLimitPolicy
  MinCooldown,   \* the least delay after a rate-limit answer (60 s)
  BackoffBase,   \* first retry delay after a transient failure (15 s)
  BackoffCap,    \* largest backoff before jitter (900 s)
  Jitters,       \* what jitter_seconds() may return
  RetryAfters,   \* the Retry-After headers providers may send, see Header
  Faults,        \* failures the providers may show in this instance
  Offsets,       \* how far ahead async_schedule is asked to schedule
  Horizon,       \* bound: callers and failures stop at this time
  MaxSequence    \* bound: callers stop once this many heap entries were made

Keys == Plates \X Providers
Never == -1
FaultKinds == {"rate_limited", "transient", "untyped"}

\* A Retry-After header: a number of seconds, or the date that lies so many
\* seconds ahead.  A missing header is the number 0.
Header == [form : {"number", "date"}, ahead : Int]

ASSUME PopulationAssumption ==
  IsFiniteSet(Plates) /\ IsFiniteSet(Providers) /\ Batching \subseteq Providers
ASSUME DelayAssumption ==
  /\ Interval \in [Providers -> Nat]
  /\ MinCooldown \in Nat \ {0} /\ BackoffBase \in Nat \ {0} /\ BackoffCap \in Nat \ {0}
  /\ Jitters \subseteq Nat /\ RetryAfters \subseteq Header /\ Offsets \subseteq Nat
ASSUME BoundAssumption ==
  Faults \subseteq FaultKinds /\ Horizon \in Nat /\ MaxSequence \in Nat

VARIABLES
  now,          \* the clock self._now() reads
  queue,        \* self._queue: the heap, as the set of its entries
  pending,      \* self._pending: the values of the dict; j \in pending is "pending[j.key] is j"
  running,      \* self._running
  backlog,      \* run_due's due_jobs whose provider group is not reached yet
  cleared,      \* jobs of the group the policy has let through, not yet dispatched
  flight,       \* the jobs of the request that is out
  loop,         \* where self._task is, see above
  wake,         \* self._wake
  alarm,        \* the time at which wait_for gives up, or Never
  sequence,     \* self._sequence
  lastRequest,  \* FixedIntervalRateLimitPolicy._last_request of each provider
  owed,         \* history: keys a caller asked for and no answer concluded yet
  cooldown      \* history: the time before which a provider said not to come back

clocks  == <<now, alarm, wake>>
work    == <<queue, pending, running, backlog, cleared, flight, sequence>>
history == <<owed, cooldown>>
vars    == <<clocks, work, loop, lastRequest, history>>

----------------------------------------------------------------------------
(* Jobs *)

Job == [due : Nat, seq : Nat, key : Keys, attempt : Nat]
KeysOf(J) == {j.key : j \in J}
InHand == backlog \cup cleared \cup flight
OfProvider(J, p) == {j \in J : j.key[2] = p}

\* The heap's order, and its head.
Before(i, j) == i.due < j.due \/ (i.due = j.due /\ i.seq < j.seq)
IsFirst(j, J) == j \in J /\ \A i \in J : ~Before(i, j)

\* The jobs that take the place of J, numbered in J's order.
Renewed(J, at, tries) ==
  {[due     |-> at,
    seq     |-> sequence + Cardinality({i \in J : Before(i, j)}),
    key     |-> j.key,
    attempt |-> j.attempt + tries] : j \in J}

Without(jobs, K) == {j \in jobs : j.key \notin K}

\* Mutant: the loop is not woken.
EnqueueUnheard(J) ==
  /\ queue' = queue \cup J
  /\ pending' = Without(pending, KeysOf(J)) \cup J
  /\ sequence' = sequence + Cardinality(J)
  /\ UNCHANGED wake

\* _enqueue for each job of J: the key's pending job is replaced, the heap
\* keeps the old entry, and the loop is woken.
Enqueue(J) ==
  /\ queue' = queue \cup J
  /\ pending' = Without(pending, KeysOf(J)) \cup J
  /\ sequence' = sequence + Cardinality(J)
  /\ wake' = TRUE

Fresh(k, at) == [due |-> at, seq |-> sequence, key |-> k, attempt |-> 0]

----------------------------------------------------------------------------
(* What the runtime and the entities call. *)

\* The event loop is free and the entry has not been unloaded.
Serving == loop \in {"idle", "ready", "query", "wait", "dead"}
CallerMayAct == Serving /\ now < Horizon
IsRunning == loop \in {"ready", "turn", "query", "wait"}

\* Mutant: async_schedule without its early return.
NeverBlocked(k) == FALSE

Blocked(k) == k \in KeysOf(pending)

Schedule(k, offset) ==
  /\ CallerMayAct /\ sequence < MaxSequence
  /\ owed' = owed \cup {k}
  /\ IF Blocked(k)
       THEN UNCHANGED <<queue, pending, sequence, wake>>
       ELSE Enqueue({Fresh(k, now + offset)})
  /\ UNCHANGED <<now, alarm, running, backlog, cleared, flight, loop, lastRequest, cooldown>>

RequestNow(k) ==
  /\ CallerMayAct /\ sequence < MaxSequence
  /\ owed' = owed \cup {k}
  /\ IF k \in running
       THEN UNCHANGED <<queue, pending, sequence, wake>>
       ELSE Enqueue({Fresh(k, now)})
  /\ UNCHANGED <<now, alarm, running, backlog, cleared, flight, loop, lastRequest, cooldown>>

\* Queued work is forgotten, its heap entries stay behind; work that is
\* already in the task's hands is not looked at.
CancelPlate(plate) ==
  /\ CallerMayAct
  /\ LET dropped == {k \in KeysOf(pending) : k[1] = plate /\ k \notin running}
     IN  pending' = Without(pending, dropped)
  /\ owed' = {k \in owed : k[1] # plate}
  /\ UNCHANGED <<clocks, queue, running, backlog, cleared, flight, sequence, loop,
                 lastRequest, cooldown>>

\* The runtime starts its scheduler once.
Start ==
  /\ loop = "idle"
  /\ loop' = "ready"
  /\ UNCHANGED <<clocks, work, lastRequest, history>>

\* async_stop up to its await.  Awaiting a task that died raises what killed
\* it ("failed"); a live task is cancelled and still has to unwind.
Stop ==
  /\ Serving
  /\ queue' = {} /\ pending' = {} /\ owed' = {}
  /\ wake' = TRUE
  /\ loop' = CASE IsRunning -> "cancelled" [] loop = "idle" -> "stopped" [] OTHER -> "failed"
  /\ UNCHANGED <<now, alarm, running, backlog, cleared, flight, sequence, lastRequest, cooldown>>

----------------------------------------------------------------------------
(* The task. *)

\* Mutant: stale entries are taken for work.
LiveAndStale(J) == J

Live(J) == J \cap pending

\* Top of the loop: every entry that is due leaves the heap, the stale ones
\* for good.
Collect ==
  /\ \/ loop = "ready"
     \/ loop = "wait" /\ (wake \/ (alarm # Never /\ alarm <= now))
  /\ LET due == {j \in queue : j.due <= now}
     IN  queue' = queue \ due /\ backlog' = Live(due)
  /\ loop' = "turn"
  /\ UNCHANGED <<clocks, pending, running, cleared, flight, sequence, lastRequest, history>>

\* Mutant: the interval ends one unit early.
PermittedEarly(p) ==
  IF lastRequest[p] # Never /\ lastRequest[p] + Interval[p] - 1 > now
    THEN lastRequest[p] + Interval[p] - 1
    ELSE now

\* RateLimitPolicy.next_permitted_at
PermittedAt(p) ==
  IF lastRequest[p] # Never /\ lastRequest[p] + Interval[p] > now
    THEN lastRequest[p] + Interval[p]
    ELSE now

\* The group whose turn it is: groups follow their first job.
NextGroup(J) ==
  \E j \in backlog : IsFirst(j, backlog) /\ J = OfProvider(backlog, j.key[2])

\* The policy wants the provider left alone: the whole group is put off.
Defer ==
  /\ loop = "turn" /\ cleared = {}
  /\ \E p \in Providers :
       LET group == OfProvider(backlog, p) IN
       /\ NextGroup(group)
       /\ PermittedAt(p) > now
       /\ backlog' = backlog \ group
       /\ Enqueue(Renewed(group, PermittedAt(p), 0))
  /\ UNCHANGED <<now, alarm, running, cleared, flight, loop, lastRequest, history>>

\* Mutant: jobs of all providers are handed to the first one's request.
WholeBacklog(p) == backlog

GroupOf(p) == OfProvider(backlog, p)

Permit ==
  /\ loop = "turn" /\ cleared = {}
  /\ \E p \in Providers :
       /\ NextGroup(OfProvider(backlog, p))
       /\ PermittedAt(p) <= now
       /\ cleared' = GroupOf(p)
       /\ backlog' = backlog \ GroupOf(p)
  /\ UNCHANGED <<clocks, queue, pending, running, flight, sequence, loop, lastRequest, history>>

\* Mutant: batching is forgotten.
SentSingly(j) == {j}

\* One request for the whole group of a batching provider, for one job
\* otherwise.
Sent(j) == IF j.key[2] \in Batching THEN cleared ELSE {j}

\* _async_dispatch up to its await, for the first job that is left.
Dispatch ==
  /\ loop = "turn"
  /\ \E j \in cleared :
       LET p    == j.key[2]
           sent == Sent(j) IN
       /\ IsFirst(j, cleared)
       /\ flight' = sent
       /\ cleared' = cleared \ sent
       /\ running' = running \cup KeysOf(sent)
       /\ lastRequest' = IF Interval[p] = 0 THEN lastRequest ELSE [lastRequest EXCEPT ![p] = now]
  /\ loop' = "query"
  /\ UNCHANGED <<clocks, queue, pending, backlog, sequence, history>>

\* Mutant: the delay is kept, not the time it ends, and not bounded by zero.
DelayUntil(j) == j.due - now

AlarmFor(j) == j.due

\* The pass over the due jobs is over: note when the head of the heap is due,
\* stale or not, and wait for that or for the wake event.
Sleep ==
  /\ loop = "turn" /\ backlog = {} /\ cleared = {}
  /\ wake' = FALSE
  /\ alarm' \in IF queue = {} THEN {Never} ELSE {AlarmFor(j) : j \in {i \in queue : IsFirst(i, queue)}}
  /\ loop' = "wait"
  /\ UNCHANGED <<now, work, lastRequest, history>>

----------------------------------------------------------------------------
(* How a request ends. *)

\* Mutant: only the job that was sent is retired, not its key.
RetireSameJob ==
  /\ running' = running \ KeysOf(flight)
  /\ pending' = pending \ flight
  /\ flight' = {}

\* Mutant: nothing is retired from _pending.
RetireRunningOnly ==
  /\ running' = running \ KeysOf(flight)
  /\ flight' = {} /\ UNCHANGED pending

\* The finally block of _async_dispatch, without a retry.
Retire ==
  /\ running' = running \ KeysOf(flight)
  /\ pending' = Without(pending, KeysOf(flight))
  /\ flight' = {}

\* Mutant: the retry is forgotten.
RetireInsteadOfRetry(at) == Retire /\ UNCHANGED <<queue, sequence, wake>>

\* The finally block with retry_at: one job more per key, later.
RetireAndRetry(at) ==
  /\ running' = running \ KeysOf(flight)
  /\ flight' = {}
  /\ Enqueue(Renewed(flight, at, 1))

\* The results or the format error were published; neither is retried.
Conclude ==
  /\ loop = "query"
  /\ Retire
  /\ owed' = owed \ KeysOf(flight)
  /\ loop' = "turn"
  /\ UNCHANGED <<clocks, queue, backlog, cleared, sequence, lastRequest, cooldown>>

MayFail(kind) == loop = "query" /\ kind \in Faults /\ now < Horizon

\* Mutant: a minute at most.
NoLonger(after) == IF after > MinCooldown THEN MinCooldown ELSE after

LongEnough(after) == IF after > MinCooldown THEN after ELSE MinCooldown

\* The delay the header names, and what the adapters make of it: a date is
\* not parsed, and counts as no header.
Named(header) == IF header.ahead > 0 THEN header.ahead ELSE 0
SecondsOf(header) == IF header.form = "number" THEN Named(header) ELSE 0

RateLimited ==
  /\ MayFail("rate_limited")
  /\ \E header \in RetryAfters :
       /\ RetireAndRetry(now + LongEnough(SecondsOf(header)))
       /\ cooldown' = [p \in Providers |-> IF \E j \in flight : j.key[2] = p
                                             THEN now + Named(header) ELSE cooldown[p]]
  /\ loop' = "turn"
  /\ UNCHANGED <<now, alarm, backlog, cleared, lastRequest, owed>>

\* Mutant: the cap is forgotten.
BackoffUncapped(attempt) == BackoffBase * 2^attempt

\* Exponential in the number of retries so far, up to the cap.
Backoff(attempt) ==
  IF BackoffBase * 2^attempt < BackoffCap THEN BackoffBase * 2^attempt ELSE BackoffCap

\* Mutant: the batch counts as its freshest job.
LeastTried(J) == {j.attempt : j \in {i \in J : \A k \in J : i.attempt <= k.attempt}}

\* The maximum over the batch, as the set of the one number it is.
MostTried(J) == {j.attempt : j \in {i \in J : \A k \in J : k.attempt <= i.attempt}}

TransientFailure ==
  /\ MayFail("transient")
  /\ \E attempt \in MostTried(flight), jitter \in Jitters :
       RetireAndRetry(now + Backoff(attempt) + jitter)
  /\ loop' = "turn"
  /\ UNCHANGED <<now, alarm, backlog, cleared, lastRequest, history>>

\* Any other exception passes the three except clauses and ends the task,
\* with the rest of run_due's local work.
UntypedFailure ==
  /\ MayFail("untyped")
  /\ Retire
  /\ backlog' = {} /\ cleared' = {}
  /\ loop' = "dead"
  /\ UNCHANGED <<clocks, queue, sequence, lastRequest, history>>

\* Mutant: a cancelled request is retried like a failed one.
RetireAndTryAgain == RetireAndRetry(now + BackoffBase)

RetireForGood == Retire /\ UNCHANGED <<queue, sequence, wake>>

\* The CancelledError of async_stop reaches the task.
Unwind ==
  /\ loop = "cancelled"
  /\ RetireForGood
  /\ backlog' = {} /\ cleared' = {}
  /\ loop' = "stopped"
  /\ UNCHANGED <<now, alarm, lastRequest, history>>

\* Time passes while the event loop is free, up to the horizon and as far
\* beyond it as work is queued.
Tick ==
  /\ loop # "turn"
  /\ now < Horizon \/ \E j \in queue : j.due > now
  /\ now' = now + 1
  /\ UNCHANGED <<alarm, wake, work, loop, lastRequest, history>>

----------------------------------------------------------------------------
Init ==
  /\ now = 0 /\ alarm = Never /\ wake = FALSE
  /\ queue = {} /\ pending = {} /\ running = {}
  /\ backlog = {} /\ cleared = {} /\ flight = {}
  /\ sequence = 0
  /\ loop = "idle"
  /\ lastRequest = [p \in Providers |-> Never]
  /\ owed = {}
  /\ cooldown = [p \in Providers |-> 0]

Caller ==
  \/ \E k \in Keys, offset \in Offsets : Schedule(k, offset)
  \/ \E k \in Keys : RequestNow(k)
  \/ \E plate \in Plates : CancelPlate(plate)
  \/ Start
  \/ Stop

Turn   == Collect \/ Defer \/ Permit \/ Dispatch \/ Sleep \/ Unwind
Answer == Conclude \/ RateLimited \/ TransientFailure \/ UntypedFailure

Next == Caller \/ Turn \/ Answer \/ Tick

Spec == Init /\ [][Next]_vars

\* A runnable task is run, a request is answered (the HTTP session's timeout
\* ends it at the latest) and time passes.  Nobody has to call anything.
Fairness == WF_vars(Turn) /\ WF_vars(Answer) /\ WF_vars(Tick)
LiveSpec == Spec /\ Fairness

----------------------------------------------------------------------------
(* Properties *)

\* Type invariant: every variable holds values the code can hold.
TypeOK ==
  /\ now \in Nat /\ alarm \in Nat \cup {Never} /\ wake \in BOOLEAN
  /\ queue \subseteq Job /\ pending \subseteq Job /\ running \subseteq Keys
  /\ backlog \subseteq Job /\ cleared \subseteq Job /\ flight \subseteq Job
  /\ sequence \in Nat
  /\ loop \in {"idle", "ready", "turn", "query", "wait", "dead", "cancelled", "stopped", "failed"}
  /\ lastRequest \in [Providers -> Nat \cup {Never}]
  /\ owed \subseteq Keys
  /\ cooldown \in [Providers -> Nat]

\* "Never duplicate a job key" (the class docstring): the task never holds
\* two jobs for one key, whatever callers replaced while it was working, and
\* _running is exactly the request that is out, so that the finally block
\* finds every key it removes.
NoDuplicateWork ==
  /\ \A i, j \in InHand : i.key = j.key => i = j
  /\ running = KeysOf(flight)

\* A key in _pending blocks async_schedule for that key.  While the task
\* lives such a key is backed by its heap entry or by a job in the task's
\* hands: a key with neither would never be checked again.
NoWorkLost ==
  IsRunning => \A j \in pending : j \in queue \/ j.key \in KeysOf(InHand)

\* The event is cleared after the pass over the due jobs and before the wait:
\* no enqueue falls into that gap, so a waiting task that nobody woke gives
\* up waiting no later than the first live job is due.
NoOversleep ==
  loop = "wait" /\ ~wake => \A j \in pending : alarm # Never /\ alarm <= j.due

\* What async_schedule and async_request_now accepted or silently skipped as
\* duplicate is still represented by a job, until an answer concludes it.
OwedIsHeld ==
  IsRunning \/ loop = "idle" => owed \subseteq KeysOf(pending) \cup KeysOf(InHand)

\* A request goes to one provider; for one plate unless the provider batches,
\* and then with every due plate of the group, none of them left for a second
\* request of the same pass.
RequestShape ==
  loop = "query" =>
    /\ flight # {}
    /\ \A i, j \in flight :
         i.key[2] = j.key[2] /\ (i = j \/ i.key[2] \in Batching)
    /\ \A i \in flight, j \in backlog \cup cleared :
         i.key[2] \in Batching => i.key[2] # j.key[2]

\* "Bounded delayed retries": no job is ever put off further than the longest
\* single delay, however often its provider fails.
Delays == {MinCooldown} \cup {SecondsOf(h) : h \in RetryAfters} \cup Offsets
            \cup {Interval[p] : p \in Providers} \cup {BackoffCap + x : x \in Jitters}
BoundedWait == \A j \in pending : \E longest \in Delays : j.due - now <= longest

\* Once async_stop was called nothing is queued again, not even by the
\* request it interrupts, and nothing runs when the task has ended.
StopIsFinal ==
  /\ loop \in {"cancelled", "stopped", "failed"} => queue = {} /\ pending = {}
  /\ loop \in {"dead", "stopped", "failed"} => running = {} /\ InHand = {}

\* A job that waits for a later time (a retry, a cool-down, a future check)
\* is not displaced by the work around it or by a repeated async_schedule:
\* only request_now, the removal of its plate and the unload bring its key
\* forward or drop it, and the answer to a request for its own key, which can
\* be out when the plate was removed and configured again meanwhile.
DisplacedByCaller(k) == RequestNow(k) \/ CancelPlate(k[1]) \/ Stop
DeferralStands ==
  [][\A j \in pending : j.due > now =>
       \/ \E i \in pending' : i.key = j.key /\ i.due > now
       \/ DisplacedByCaller(j.key)
       \/ j.key \in running \ running']_vars

\* "Retire all its represented job keys": when a request ends, a job that is
\* pending for one of its keys is the retry, later and with its attempt
\* counted, and not a second check that callers put in while it was prepared.
RequestEnded == flight # {} /\ flight' = {}
RetryIsLater ==
  [][RequestEnded => \A j \in flight, i \in pending' :
       i.key = j.key => i.due > now /\ i.attempt > j.attempt]_vars

\* A batch is retried as one: no plate of it is asked for again before the
\* backoff its own failures earned, whichever plates it failed together with.
OwnBackoffKept ==
  [][TransientFailure => \A j \in flight, i \in pending' :
       i.key = j.key => i.due >= now + Backoff(j.attempt)]_vars

\* "Delays affected provider work until no earlier than that value": the plates
\* of a rate-limited request are not due again before the time the header
\* names.  It holds for headers that are numbers.
RetryAfterKept ==
  [][RateLimited => \A j \in flight, i \in pending' :
       i.key = j.key => i.due >= cooldown'[j.key[2]]]_vars

\* A batching provider gets at most one request per interval of its policy.
RequestSent == loop = "turn" /\ loop' = "query"
BatchesKeepInterval ==
  [][RequestSent => \A j \in flight' :
       LET p == j.key[2] IN
       p \in Batching /\ lastRequest[p] # Never => now >= lastRequest[p] + Interval[p]]_vars

\* Whoever asks for a check while the task lives gets it concluded, or the
\* plate is removed or the entry unloaded.
RequestServed ==
  \A k \in Keys : (k \in owed /\ IsRunning) ~> k \notin owed

\* The promise of SingleFlight: heap, dict, set and the task's local lists
\* together are one stage per key.
Up == loop \in {"idle", "ready", "turn", "query", "wait"}
Stage ==
  [k \in Keys |-> IF k \in running THEN "checking"
                  ELSE IF Up /\ k \in KeysOf(pending) \cup KeysOf(InHand) THEN "waiting"
                  ELSE "idle"]
SF == INSTANCE SingleFlight WITH stage <- Stage, up <- Up
Promise == SF!Spec

\* "Permit one provider request per configured interval" (FixedInterval-
\* RateLimitPolicy), for every provider.
IntervalKept ==
  [][RequestSent => \A j \in flight' :
       LET p == j.key[2] IN
       lastRequest[p] # Never => now >= lastRequest[p] + Interval[p]]_vars

\* "Provider cooldowns and limits still apply" (README): no request reaches a
\* provider before the time it answered to come back at.
CooldownKept ==
  [][RequestSent => \A j \in flight' : now >= cooldown[j.key[2]]]_vars
=============================================================================
