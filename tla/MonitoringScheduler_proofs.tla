--------------------- MODULE MonitoringScheduler_proofs ---------------------
(***************************************************************************)
(* The safety of MonitoringScheduler for every set of plates and           *)
(* providers, every delay and every bound.  All invariants the run         *)
(* scheduler_safety checks follow from one inductive invariant, IInv.      *)
(***************************************************************************)
EXTENDS MonitoringScheduler, FiniteSetTheorems, TLAPS

----------------------------------------------------------------------------
(* The inductive invariant *)

\* Every set of jobs is finite, so that sequence numbers are numbers.
Finite == IsFiniteSet(backlog) /\ IsFiniteSet(cleared) /\ IsFiniteSet(flight)
            /\ IsFiniteSet(queue)

\* What the task holds at each of its suspension points.
Phases ==
  /\ loop \notin {"turn", "query", "cancelled"} => InHand = {}
  /\ loop = "turn" => flight = {}
  /\ loop = "query" => flight # {}
  /\ running = KeysOf(flight)

\* One pending job per key: _pending is a dict.
PendingIsDict == \A i, j \in pending : i.key = j.key => i = j
HandIsDict == \A i, j \in InHand : i.key = j.key => i = j

\* NoWorkLost and OwedIsHeld, also for a scheduler that is not started yet.
Alive == IsRunning \/ loop = "idle"
Backed == Alive => \A j \in pending : j \in queue \/ j.key \in KeysOf(InHand)
OwedBacked == Alive => owed \subseteq KeysOf(pending) \cup KeysOf(InHand)

\* The group under way belongs to one provider and was taken out whole, and
\* what is sent is not kept for another request.
Grouped ==
  /\ flight \cap (backlog \cup cleared) = {}
  /\ \A i, j \in cleared : i.key[2] = j.key[2]
  /\ \A i \in cleared, j \in backlog : i.key[2] # j.key[2]

\* The policy's clock does not run ahead, and a batching group that was let
\* through is still permitted: nothing happens before its one request.
Punctual ==
  /\ \A p \in Providers : lastRequest[p] <= now
  /\ \A j \in cleared : j.key[2] \in Batching => PermittedAt(j.key[2]) <= now

Closed == loop \in {"cancelled", "stopped", "failed"} => queue = {} /\ pending = {}

IInv ==
  /\ TypeOK /\ Finite /\ Phases /\ PendingIsDict /\ HandIsDict
  /\ Backed /\ NoOversleep /\ OwedBacked
  /\ Grouped /\ RequestShape /\ Punctual /\ BoundedWait /\ Closed

----------------------------------------------------------------------------
(* Lemmas about jobs *)

\* The parts of a key are a plate and a provider.
LEMMA KeyParts ==
  ASSUME NEW k \in Keys
  PROVE  k[1] \in Plates /\ k[2] \in Providers
BY DEF Keys

\* The job a caller enqueues is a job, for the key it asked for.
LEMMA FreshIsJob ==
  ASSUME TypeOK, NEW k \in Keys, NEW at \in Nat
  PROVE  /\ Fresh(k, at) \in Job
         /\ Fresh(k, at).key = k /\ Fresh(k, at).due = at
         /\ KeysOf({Fresh(k, at)}) = {k}
         /\ IsFiniteSet({Fresh(k, at)}) /\ Cardinality({Fresh(k, at)}) = 1
<1>1. IsFiniteSet({Fresh(k, at)}) /\ Cardinality({Fresh(k, at)}) = 1
  BY FS_Singleton
<1> QED BY <1>1 DEF Fresh, Job, TypeOK, KeysOf

\* A subset of the finite set of jobs in use is finite.
LEMMA SubsetFinite ==
  ASSUME NEW J, IsFiniteSet(J), NEW K \in SUBSET J
  PROVE  IsFiniteSet(K) /\ Cardinality(K) \in Nat
BY FS_Subset, FS_CardinalityType

\* Renumbering a finite set of jobs gives a finite set of jobs for the same
\* keys, all due at the same time.
LEMMA RenewedJobs ==
  ASSUME TypeOK, NEW J \in SUBSET Job, IsFiniteSet(J), NEW at \in Nat, NEW tries \in Nat
  PROVE  /\ Renewed(J, at, tries) \subseteq Job
         /\ IsFiniteSet(Renewed(J, at, tries))
         /\ Cardinality(Renewed(J, at, tries)) \in Nat
         /\ KeysOf(Renewed(J, at, tries)) = KeysOf(J)
         /\ \A n \in Renewed(J, at, tries) :
              n.due = at /\ \E j \in J : n.key = j.key /\ n.attempt = j.attempt + tries
<1> DEFINE renew(j) == [due     |-> at,
                        seq     |-> sequence + Cardinality({i \in J : Before(i, j)}),
                        key     |-> j.key,
                        attempt |-> j.attempt + tries]
           R == Renewed(J, at, tries)
           f == [j \in J |-> renew(j)]
<1>1. \A j \in J : /\ renew(j) \in Job /\ renew(j).key = j.key /\ renew(j).due = at
                  /\ renew(j).attempt = j.attempt + tries
  <2> SUFFICES ASSUME NEW j \in J
               PROVE  /\ renew(j) \in Job /\ renew(j).key = j.key /\ renew(j).due = at
                      /\ renew(j).attempt = j.attempt + tries
    OBVIOUS
  <2>1. Cardinality({i \in J : Before(i, j)}) \in Nat
    BY SubsetFinite
  <2>2. sequence + Cardinality({i \in J : Before(i, j)}) \in Nat
    BY <2>1 DEF TypeOK
  <2>3. j.attempt + tries \in Nat /\ j.key \in Keys
    BY DEF Job
  <2> QED BY <2>2, <2>3 DEF Job
<1>2. R = {renew(j) : j \in J}
  BY DEF Renewed
<1>3. f \in Surjection(J, R)
  BY <1>2 DEF Surjection
<1> HIDE DEF renew
<1>4. IsFiniteSet(R)
  BY <1>3, FS_Surjection
<1>5. Cardinality(R) \in Nat
  BY <1>4, FS_CardinalityType
<1>6. KeysOf(R) = KeysOf(J)
  BY <1>1, <1>2 DEF KeysOf
<1>7. \A n \in R : n.due = at /\ \E j \in J : n.key = j.key /\ n.attempt = j.attempt + tries
  BY <1>1, <1>2
<1> QED BY <1>1, <1>2, <1>4, <1>5, <1>6, <1>7

\* Renumbering keeps one job per key.
LEMMA RenewedIsDict ==
  ASSUME NEW J, NEW at, NEW tries, \A i, j \in J : i.key = j.key => i = j
  PROVE  \A i, j \in Renewed(J, at, tries) : i.key = j.key => i = j
<1> DEFINE number(j) == sequence + Cardinality({i \in J : Before(i, j)})
           renew(j) == [due |-> at, seq |-> number(j), key |-> j.key,
                        attempt |-> j.attempt + tries]
<1>1. Renewed(J, at, tries) = {renew(j) : j \in J}
  BY DEF Renewed
<1> HIDE DEF number
<1>2. \A j \in J : renew(j).key = j.key
  OBVIOUS
<1> HIDE DEF renew
<1> QED BY <1>1, <1>2

\* What _enqueue leaves behind, given jobs for distinct keys.
LEMMA EnqueueEffect ==
  ASSUME TypeOK, PendingIsDict, Finite, NEW J \in SUBSET Job, IsFiniteSet(J),
         \A i, j \in J : i.key = j.key => i = j,
         Enqueue(J)
  PROVE  /\ queue' \subseteq Job /\ IsFiniteSet(queue')
         /\ pending' \subseteq Job
         /\ sequence' \in Nat /\ wake' = TRUE
         /\ PendingIsDict'
         /\ queue \subseteq queue' /\ J \subseteq queue' /\ J \subseteq pending'
         /\ \A j \in pending' : j \in J \/ (j \in pending /\ j.key \notin KeysOf(J))
         /\ KeysOf(pending') = KeysOf(pending) \cup KeysOf(J)
<1>1. Cardinality(J) \in Nat
  BY FS_CardinalityType
<1>2. IsFiniteSet(queue')
  BY FS_Union DEF Finite, Enqueue
<1>3. queue' \subseteq Job /\ pending' \subseteq Job /\ sequence' \in Nat /\ wake' = TRUE
  BY <1>1 DEF TypeOK, Enqueue, Without
<1>4. \A j \in pending' : j \in J \/ (j \in pending /\ j.key \notin KeysOf(J))
  BY DEF Enqueue, Without
<1>5. PendingIsDict'
  BY <1>4 DEF PendingIsDict, KeysOf
<1>6. KeysOf(pending') = KeysOf(pending) \cup KeysOf(J)
  BY DEF KeysOf, Enqueue, Without
<1> QED BY <1>2, <1>3, <1>4, <1>5, <1>6 DEF Enqueue

----------------------------------------------------------------------------
(* The inductive invariant is preserved: one lemma per action *)

\* Powers of two are positive and grow: 2^n counts the subsets of 1..n.
LEMMA PowersGrow ==
  ASSUME NEW m \in Nat, NEW n \in Nat, m <= n
  PROVE  2^m \in Nat \ {0} /\ 2^m <= 2^n
<1>1. \A k \in Nat : /\ IsFiniteSet(SUBSET (1..k))
                     /\ Cardinality(SUBSET (1..k)) = 2^k
  <2> SUFFICES ASSUME NEW k \in Nat
               PROVE  IsFiniteSet(SUBSET (1..k)) /\ Cardinality(SUBSET (1..k)) = 2^k
    OBVIOUS
  <2>1. IsFiniteSet(1..k) /\ Cardinality(1..k) = k
    BY FS_Interval
  <2> QED BY <2>1, FS_SUBSET
<1>2. 2^m \in Nat /\ 2^n \in Nat
  BY <1>1, FS_CardinalityType
<1>3. 2^m # 0
  <2>1. SUBSET (1..m) # {}
    OBVIOUS
  <2> QED BY <1>1, <2>1, FS_EmptySet
<1>4. SUBSET (1..m) \subseteq SUBSET (1..n)
  BY 1..m \subseteq 1..n
<1>5. 2^m <= 2^n
  <2> DEFINE S == SUBSET (1..m)
             T == SUBSET (1..n)
  <2>1. IsFiniteSet(T) /\ S \in SUBSET T /\ Cardinality(S) = 2^m /\ Cardinality(T) = 2^n
    BY <1>1, <1>4
  <2> HIDE DEF S, T
  <2>2. Cardinality(S) <= Cardinality(T)
    BY <2>1, FS_Subset
  <2> QED BY <2>1, <2>2
<1> QED BY <1>2, <1>3, <1>5

\* The backoff is a delay, within the cap, and grows with the attempts.
LEMMA BackoffsGrow ==
  ASSUME NEW m \in Nat, NEW n \in Nat, m <= n
  PROVE  Backoff(m) \in 1..BackoffCap /\ Backoff(m) <= Backoff(n)
<1>1. \A k \in Nat : 2^k \in Nat \ {0}
  BY PowersGrow
<1>2. 2^m <= 2^n
  BY PowersGrow
<1> DEFINE x == 2^m
           y == 2^n
<1>3. x \in Nat \ {0} /\ y \in Nat \ {0} /\ x <= y
  BY <1>1, <1>2
<1>4. /\ Backoff(m) = IF BackoffBase * x < BackoffCap THEN BackoffBase * x ELSE BackoffCap
      /\ Backoff(n) = IF BackoffBase * y < BackoffCap THEN BackoffBase * y ELSE BackoffCap
  BY DEF Backoff
<1> HIDE DEF x, y
<1>5. BackoffBase \in Nat \ {0} /\ BackoffCap \in Nat \ {0}
  BY DelayAssumption
<1>6. BackoffBase * x \in Nat \ {0} /\ BackoffBase * x <= BackoffBase * y
  BY <1>3, <1>5
<1>7. BackoffBase * y \in Nat
  BY <1>3, <1>5
<1> QED BY <1>4, <1>5, <1>6, <1>7

\* What the adapters make of a header is a number of seconds.
LEMMA SecondsAreNat ==
  ASSUME NEW header \in RetryAfters
  PROVE  Named(header) \in Nat /\ SecondsOf(header) \in Nat
BY DelayAssumption DEF Named, SecondsOf, Header

\* The longest delays are numbers.
LEMMA DelaysAreNat == Delays \subseteq Nat
<1>1. {Interval[p] : p \in Providers} \subseteq Nat
  BY DelayAssumption
<1>2. {BackoffCap + x : x \in Jitters} \subseteq Nat
  BY DelayAssumption
<1>3. {SecondsOf(h) : h \in RetryAfters} \subseteq Nat
  BY SecondsAreNat
<1> QED BY <1>1, <1>2, <1>3, DelayAssumption DEF Delays

\* What a rate-limit answer leads to: a retry after one of the delays.
LEMMA RateLimitedRetries ==
  ASSUME TypeOK, RateLimited
  PROVE  /\ \E wait \in Delays : wait > 0 /\ RetireAndRetry(now + wait)
         /\ cooldown' \in [Providers -> Nat]
<1>1. PICK header \in RetryAfters :
        /\ RetireAndRetry(now + LongEnough(SecondsOf(header)))
        /\ cooldown' = [p \in Providers |-> IF \E j \in flight : j.key[2] = p
                                              THEN now + Named(header) ELSE cooldown[p]]
  BY DEF RateLimited
<1>2. Named(header) \in Nat /\ SecondsOf(header) \in Nat /\ SecondsOf(header) \in Delays
  BY SecondsAreNat DEF Delays
<1>3. LongEnough(SecondsOf(header)) \in Delays /\ LongEnough(SecondsOf(header)) > 0
  BY <1>2, DelayAssumption DEF LongEnough, Delays
<1>4. cooldown' \in [Providers -> Nat]
  BY <1>1, <1>2 DEF TypeOK
<1> QED BY <1>1, <1>3, <1>4

\* What a transient failure leads to: a retry after the backoff of the attempt
\* that was made most often in the batch.
LEMMA TransientRetries ==
  ASSUME TypeOK, TransientFailure
  PROVE  \E attempt \in Nat, jitter \in Jitters :
           /\ \A j \in flight : j.attempt <= attempt
           /\ Backoff(attempt) \in 1..BackoffCap
           /\ RetireAndRetry(now + Backoff(attempt) + jitter)
<1>1. PICK attempt \in MostTried(flight), jitter \in Jitters :
        RetireAndRetry(now + Backoff(attempt) + jitter)
  BY DEF TransientFailure
<1>2. attempt \in Nat /\ \A j \in flight : j.attempt <= attempt
  BY <1>1 DEF MostTried, TypeOK, Job
<1>3. Backoff(attempt) \in 1..BackoffCap
  BY <1>2, BackoffsGrow
<1> QED BY <1>1, <1>2, <1>3

\* async_start preserves the invariant.
LEMMA StartStep ==
  ASSUME IInv, Start
  PROVE  IInv'
<1> USE DEF IInv, Start, clocks, work, history
<1>1. TypeOK' /\ Finite' /\ PendingIsDict' /\ HandIsDict'
  BY DEF TypeOK, Finite, PendingIsDict, HandIsDict, InHand
<1>2. Phases'
  BY DEF Phases, InHand
<1>3. Backed' /\ OwedBacked' /\ NoOversleep'
  BY DEF Backed, OwedBacked, Alive, IsRunning, InHand, NoOversleep
<1>4. Grouped' /\ RequestShape' /\ Closed'
  BY DEF Grouped, RequestShape, Closed
<1>5. Punctual' /\ BoundedWait'
  BY DEF Punctual, PermittedAt, BoundedWait
<1> QED BY <1>1, <1>2, <1>3, <1>4, <1>5

\* async_cancel_plate preserves the invariant.
LEMMA CancelPlateStep ==
  ASSUME IInv, NEW plate \in Plates, CancelPlate(plate)
  PROVE  IInv'
<1> USE DEF IInv, CancelPlate, Without, KeysOf, clocks
<1>1. TypeOK' /\ Finite' /\ PendingIsDict' /\ HandIsDict'
  BY DEF TypeOK, Finite, PendingIsDict, HandIsDict, InHand
<1>2. Phases' /\ Grouped' /\ RequestShape'
  BY DEF Phases, Grouped, RequestShape, InHand
<1>3. Backed' /\ NoOversleep' /\ Closed'
  BY DEF Backed, Alive, IsRunning, InHand, NoOversleep, Closed
<1>4. OwedBacked'
  BY DEF OwedBacked, Alive, IsRunning, InHand, Phases
<1>5. Punctual' /\ BoundedWait'
  BY DEF Punctual, PermittedAt, BoundedWait
<1> QED BY <1>1, <1>2, <1>3, <1>4, <1>5

\* async_stop preserves the invariant.
LEMMA StopStep ==
  ASSUME IInv, Stop
  PROVE  IInv'
<1> USE DEF IInv, Stop, Serving, IsRunning
<1>1. Finite'
  BY FS_EmptySet DEF Finite
<1>2. TypeOK' /\ PendingIsDict' /\ HandIsDict'
  BY DEF TypeOK, PendingIsDict, HandIsDict, InHand
<1>3. Phases' /\ Grouped' /\ RequestShape'
  BY DEF Phases, InHand, Grouped, RequestShape
<1>4. Backed' /\ OwedBacked' /\ NoOversleep' /\ Closed'
  BY DEF Backed, OwedBacked, Alive, NoOversleep, Closed
<1>5. Punctual' /\ BoundedWait'
  BY DEF Punctual, PermittedAt, BoundedWait
<1> QED BY <1>1, <1>2, <1>3, <1>4, <1>5

\* The pass over the heap preserves the invariant.
LEMMA CollectStep ==
  ASSUME IInv, Collect
  PROVE  IInv'
<1> USE DEF IInv
<1>1. backlog = {} /\ cleared = {} /\ flight = {} /\ running = {}
  BY DEF Phases, InHand, Collect, KeysOf, Live
<1>2. /\ backlog' \subseteq pending /\ backlog' \subseteq queue /\ queue' \subseteq queue
      /\ \A j \in pending : j \in queue => j \in queue' \/ j \in backlog'
  BY DEF Collect, Live
<1>3. /\ UNCHANGED <<now, alarm, wake, pending, running, cleared, flight, sequence,
                     lastRequest, owed, cooldown>>
      /\ IsRunning /\ IsRunning' /\ loop' = "turn"
  BY DEF Collect, clocks, history, IsRunning, Live
<1>4. Finite'
  BY <1>2, <1>3, FS_Subset DEF Finite
<1>5. TypeOK'
  BY <1>2, <1>3 DEF TypeOK
<1>6. Phases' /\ PendingIsDict' /\ HandIsDict'
  BY <1>1, <1>2, <1>3 DEF Phases, PendingIsDict, HandIsDict, InHand, KeysOf
<1>7. Backed' /\ OwedBacked'
  BY <1>1, <1>2, <1>3 DEF Backed, OwedBacked, Alive, InHand, KeysOf
<1>8. Grouped' /\ RequestShape' /\ NoOversleep' /\ Closed'
  BY <1>1, <1>3 DEF Grouped, RequestShape, NoOversleep, Closed
<1>9. Punctual' /\ BoundedWait'
  BY <1>3 DEF Punctual, PermittedAt, BoundedWait
<1> QED BY <1>4, <1>5, <1>6, <1>7, <1>8, <1>9

\* The policy letting a group through preserves the invariant.
LEMMA PermitStep ==
  ASSUME IInv, Permit
  PROVE  IInv'
<1> USE DEF IInv, Permit, OfProvider, clocks, history, GroupOf
<1>1. backlog' \subseteq backlog /\ cleared' \subseteq backlog
  OBVIOUS
<1>2. Finite'
  BY <1>1, FS_Subset DEF Finite
<1>3. TypeOK' /\ PendingIsDict' /\ HandIsDict'
  BY DEF TypeOK, PendingIsDict, HandIsDict, InHand
<1>4. Phases' /\ Grouped' /\ RequestShape'
  BY DEF Phases, InHand, Grouped, RequestShape
<1>5. Backed' /\ OwedBacked'
  BY DEF Backed, OwedBacked, Alive, IsRunning, InHand, KeysOf
<1>6. NoOversleep' /\ Closed' /\ Punctual' /\ BoundedWait'
  BY DEF NoOversleep, Closed, Punctual, PermittedAt, BoundedWait
<1> QED BY <1>2, <1>3, <1>4, <1>5, <1>6

\* Sending a request preserves the invariant.
LEMMA DispatchStep ==
  ASSUME IInv, Dispatch
  PROVE  IInv'
<1> USE DEF IInv
<1>1. PICK j \in cleared :
        LET p    == j.key[2]
            sent == IF p \in Batching THEN cleared ELSE {j} IN
        /\ flight' = sent
        /\ cleared' = cleared \ sent
        /\ running' = running \cup KeysOf(sent)
        /\ lastRequest' = IF Interval[p] = 0 THEN lastRequest ELSE [lastRequest EXCEPT ![p] = now]
  BY DEF Dispatch, Sent
<1>2. /\ UNCHANGED <<now, alarm, wake, queue, pending, backlog, sequence, owed, cooldown>>
      /\ loop = "turn" /\ loop' = "query" /\ IsRunning /\ IsRunning' /\ flight = {}
  BY DEF Dispatch, clocks, history, IsRunning, Phases, Sent
<1>3. /\ flight' # {} /\ flight' \subseteq cleared /\ cleared' = cleared \ flight'
      /\ j.key[2] \in Batching => cleared' = {}
      /\ j.key[2] \notin Batching => flight' = {j}
  BY <1>1
<1>4. running' = KeysOf(flight')
  BY <1>1, <1>2 DEF Phases, KeysOf
<1>5. InHand' = InHand
  BY <1>2, <1>3 DEF InHand
<1>6. j \in Job /\ j.key[2] \in Providers
  BY KeyParts DEF TypeOK, Job
<1>7. Finite'
  BY <1>2, <1>3, FS_Subset DEF Finite
<1>8. TypeOK'
  <2>1. running' \subseteq Keys
    BY <1>3, <1>4 DEF TypeOK, KeysOf, Job
  <2>2. lastRequest' \in [Providers -> Nat \cup {Never}]
    BY <1>1, <1>6 DEF TypeOK
  <2> QED BY <1>2, <1>3, <2>1, <2>2 DEF TypeOK
<1>9. Phases' /\ PendingIsDict' /\ HandIsDict'
  BY <1>2, <1>3, <1>4, <1>5 DEF Phases, PendingIsDict, HandIsDict
<1>10. Backed' /\ OwedBacked'
  BY <1>2, <1>5 DEF Backed, OwedBacked, Alive, KeysOf
<1>11. Grouped' /\ NoOversleep' /\ Closed' /\ BoundedWait'
  BY <1>2, <1>3 DEF Grouped, NoOversleep, Closed, BoundedWait
<1>12. RequestShape'
  BY <1>2, <1>3 DEF RequestShape, Grouped
<1>13. Punctual'
  <2>1. \A p \in Providers : lastRequest'[p] <= now'
    BY <1>1, <1>2, <1>6 DEF Punctual, TypeOK
  <2>2. \A i \in cleared' : i.key[2] \notin Batching
    BY <1>3 DEF Grouped
  <2> QED BY <2>1, <2>2 DEF Punctual
<1> QED BY <1>7, <1>8, <1>9, <1>10, <1>11, <1>12, <1>13

\* Going to wait preserves the invariant and establishes the punctual alarm.
LEMMA SleepStep ==
  ASSUME IInv, Sleep
  PROVE  IInv'
<1> USE DEF IInv
<1>1. InHand = {} /\ backlog = {} /\ cleared = {} /\ flight = {}
  BY DEF Sleep, Phases, InHand, AlarmFor
<1>2. /\ UNCHANGED <<now, queue, pending, running, backlog, cleared, flight, sequence,
                     lastRequest, owed, cooldown>>
      /\ loop' = "wait" /\ wake' = FALSE /\ IsRunning /\ IsRunning'
  BY DEF Sleep, work, history, IsRunning, AlarmFor
<1>3. \/ queue = {} /\ alarm' = Never
      \/ \E j \in queue : alarm' = j.due /\ \A i \in queue : ~Before(i, j)
  BY DEF Sleep, IsFirst, AlarmFor
<1>4. TypeOK'
  BY <1>2, <1>3 DEF TypeOK, Job
<1>5. NoOversleep'
  <2>1. \A j \in pending : j \in queue
    BY <1>1, <1>2 DEF Backed, Alive, KeysOf
  <2>2. \A i, j \in queue : ~Before(i, j) => j.due <= i.due
    BY DEF Before, TypeOK, Job
  <2>3. \A j \in queue : j.due # Never
    BY DEF TypeOK, Job, Never
  <2> QED BY <1>2, <1>3, <2>1, <2>2, <2>3 DEF NoOversleep
<1>6. Finite' /\ Phases' /\ PendingIsDict' /\ HandIsDict'
  BY <1>1, <1>2 DEF Finite, Phases, PendingIsDict, HandIsDict, InHand
<1>7. Backed' /\ OwedBacked'
  BY <1>1, <1>2 DEF Backed, OwedBacked, Alive, InHand
<1>8. Grouped' /\ RequestShape' /\ Closed' /\ Punctual' /\ BoundedWait'
  BY <1>1, <1>2 DEF Grouped, RequestShape, Closed, Punctual, PermittedAt, BoundedWait
<1> QED BY <1>4, <1>5, <1>6, <1>7, <1>8

\* The passing of time preserves the invariant.
LEMMA TickStep ==
  ASSUME IInv, Tick
  PROVE  IInv'
<1> USE DEF IInv
<1>1. /\ UNCHANGED <<alarm, wake, queue, pending, running, backlog, cleared, flight, sequence,
                     loop, lastRequest, owed, cooldown>>
      /\ now' = now + 1
  BY DEF Tick, work, history
<1>2. TypeOK' /\ Finite' /\ Phases' /\ PendingIsDict' /\ HandIsDict'
  BY <1>1 DEF TypeOK, Finite, Phases, PendingIsDict, HandIsDict, InHand
<1>3. Backed' /\ OwedBacked' /\ NoOversleep'
  BY <1>1 DEF Backed, OwedBacked, Alive, IsRunning, InHand, NoOversleep
<1>4. Grouped' /\ RequestShape' /\ Closed'
  BY <1>1 DEF Grouped, RequestShape, Closed
<1>5. Punctual'
  <2>1. \A j \in cleared : j.key[2] \in Providers
    BY KeyParts DEF TypeOK, Job
  <2>2. \A p \in Providers : PermittedAt(p) <= now => PermittedAt(p)' <= now'
    BY <1>1, DelayAssumption DEF TypeOK, PermittedAt, Never
  <2>3. \A p \in Providers : lastRequest'[p] <= now'
    BY <1>1 DEF Punctual, TypeOK, Never
  <2>4. \A j \in cleared' : j.key[2] \in Batching => PermittedAt(j.key[2])' <= now'
    BY <1>1, <2>1, <2>2 DEF Punctual
  <2> QED BY <2>3, <2>4 DEF Punctual
<1>6. BoundedWait'
  BY <1>1, DelaysAreNat DEF BoundedWait, TypeOK, Job
<1> QED BY <1>2, <1>3, <1>4, <1>5, <1>6

\* An enqueued job for one key, by a caller.
LEMMA AskEnqueues ==
  ASSUME IInv, NEW k \in Keys, NEW at \in Nat, \E longest \in Delays : at - now <= longest,
         Serving, Enqueue({Fresh(k, at)}), owed' = owed \cup {k},
         UNCHANGED <<now, alarm, running, backlog, cleared, flight, loop, lastRequest, cooldown>>
  PROVE  IInv'
<1> DEFINE J == {Fresh(k, at)}
<1> USE DEF IInv
<1>1. /\ J \subseteq Job /\ IsFiniteSet(J) /\ KeysOf(J) = {k}
      /\ \A j \in J : j.due = at /\ j.key = k
      /\ \A i, j \in J : i.key = j.key => i = j
  BY FreshIsJob
<1> HIDE DEF J
<1>2. /\ queue' \subseteq Job /\ IsFiniteSet(queue')
      /\ pending' \subseteq Job
      /\ sequence' \in Nat /\ wake' = TRUE
      /\ PendingIsDict'
      /\ queue \subseteq queue' /\ J \subseteq queue'
      /\ \A j \in pending' : j \in J \/ (j \in pending /\ j.key \notin KeysOf(J))
      /\ KeysOf(pending') = KeysOf(pending) \cup {k}
  BY <1>1, EnqueueEffect DEF J
<1>3. InHand' = InHand /\ Serving' /\ (Alive' => Alive)
  BY DEF InHand, Serving, Alive, IsRunning
<1>4. TypeOK' /\ Finite'
  BY <1>2 DEF TypeOK, Finite
<1>5. Phases' /\ HandIsDict' /\ Grouped'
  BY <1>3 DEF Phases, HandIsDict, Grouped
<1>6. Backed'
  BY <1>2, <1>3 DEF Backed
<1>7. OwedBacked'
  BY <1>2, <1>3 DEF OwedBacked
<1>8. NoOversleep' /\ RequestShape' /\ Closed'
  BY <1>2, <1>3 DEF NoOversleep, RequestShape, Closed, Serving
<1>9. Punctual' /\ BoundedWait'
  BY <1>1, <1>2 DEF Punctual, PermittedAt, BoundedWait
<1> QED BY <1>2, <1>4, <1>5, <1>6, <1>7, <1>8, <1>9

\* A caller's request that finds the key already pending.
LEMMA AskSkips ==
  ASSUME IInv, NEW k \in Keys, k \in KeysOf(pending) \cup KeysOf(InHand), owed' = owed \cup {k},
         UNCHANGED <<clocks, work, loop, lastRequest, cooldown>>
  PROVE  IInv'
<1> USE DEF IInv, clocks, work
<1>1. TypeOK' /\ Finite' /\ Phases' /\ PendingIsDict' /\ HandIsDict'
  BY DEF TypeOK, Finite, Phases, PendingIsDict, HandIsDict, InHand
<1>2. Backed' /\ NoOversleep' /\ Closed'
  BY DEF Backed, Alive, IsRunning, InHand, NoOversleep, Closed
<1>3. OwedBacked'
  BY DEF OwedBacked, Alive, IsRunning, InHand
<1>4. Grouped' /\ RequestShape' /\ Punctual' /\ BoundedWait'
  BY DEF Grouped, RequestShape, Punctual, PermittedAt, BoundedWait
<1> QED BY <1>1, <1>2, <1>3, <1>4

\* async_schedule preserves the invariant.
LEMMA ScheduleStep ==
  ASSUME IInv, NEW k \in Keys, NEW offset \in Offsets, Schedule(k, offset)
  PROVE  IInv'
<1>1. CASE k \in KeysOf(pending)
  BY <1>1, AskSkips DEF Schedule, clocks, work, Blocked
<1>2. CASE k \notin KeysOf(pending)
  <2>1. now + offset \in Nat /\ offset \in Delays
    BY DelayAssumption DEF IInv, TypeOK, Delays
  <2>2. \E longest \in Delays : (now + offset) - now <= longest
    BY <2>1, DelaysAreNat DEF IInv, TypeOK
  <2> QED BY <1>2, <2>1, <2>2, AskEnqueues DEF Schedule, CallerMayAct, Blocked
<1> QED BY <1>1, <1>2

\* async_request_now preserves the invariant.
LEMMA RequestNowStep ==
  ASSUME IInv, NEW k \in Keys, RequestNow(k)
  PROVE  IInv'
<1>1. CASE k \in running
  <2>1. k \in KeysOf(InHand)
    BY <1>1 DEF IInv, Phases, InHand, KeysOf
  <2> QED BY <1>1, <2>1, AskSkips DEF RequestNow, clocks, work
<1>2. CASE k \notin running
  <2>1. now \in Nat /\ MinCooldown \in Delays
    BY DEF IInv, TypeOK, Delays
  <2>2. \E longest \in Delays : now - now <= longest
    BY <2>1, DelaysAreNat
  <2> QED BY <1>2, <2>1, <2>2, AskEnqueues DEF RequestNow, CallerMayAct
<1> QED BY <1>1, <1>2

\* Putting a group off preserves the invariant.
LEMMA DeferStep ==
  ASSUME IInv, Defer
  PROVE  IInv'
<1> USE DEF IInv
<1>1. PICK p \in Providers :
        /\ NextGroup(OfProvider(backlog, p)) /\ PermittedAt(p) > now
        /\ backlog' = backlog \ OfProvider(backlog, p)
        /\ Enqueue(Renewed(OfProvider(backlog, p), PermittedAt(p), 0))
  BY DEF Defer
<1> DEFINE group == OfProvider(backlog, p)
           J == Renewed(group, PermittedAt(p), 0)
<1>2. /\ UNCHANGED <<now, alarm, running, cleared, flight, loop, lastRequest, owed, cooldown>>
      /\ loop = "turn" /\ cleared = {} /\ flight = {} /\ IsRunning /\ IsRunning'
  BY DEF Defer, history, Phases, IsRunning
<1>3. PermittedAt(p) \in Nat /\ \E longest \in Delays : PermittedAt(p) - now <= longest
  <2>1. /\ lastRequest[p] \in Nat /\ PermittedAt(p) = lastRequest[p] + Interval[p]
        /\ lastRequest[p] <= now
    BY <1>1 DEF PermittedAt, Never, Punctual, TypeOK
  <2>2. Interval[p] \in Delays /\ Interval[p] \in Nat
    BY DelayAssumption DEF Delays
  <2> QED BY <2>1, <2>2 DEF TypeOK
<1>4. group \subseteq backlog /\ group \subseteq Job /\ IsFiniteSet(group)
  BY FS_Subset DEF OfProvider, TypeOK, Finite
<1>5. \A i, j \in group : i.key = j.key => i = j
  BY <1>4 DEF HandIsDict, InHand
<1> HIDE DEF group
<1>6. /\ J \subseteq Job /\ IsFiniteSet(J) /\ KeysOf(J) = KeysOf(group)
      /\ \A j \in J : j.due = PermittedAt(p)
  <2> DEFINE at == PermittedAt(p)
  <2>1. group \in SUBSET Job /\ IsFiniteSet(group) /\ at \in Nat /\ 0 \in Nat
    BY <1>3, <1>4
  <2>2. TypeOK
    OBVIOUS
  <2> HIDE DEF at
  <2>3. LET R == Renewed(group, at, 0)
        IN  /\ R \subseteq Job /\ IsFiniteSet(R) /\ KeysOf(R) = KeysOf(group)
            /\ \A j \in R : j.due = at
    BY ONLY <2>1, <2>2, RenewedJobs
  <2> QED BY <2>3 DEF at
<1>7. \A i, j \in J : i.key = j.key => i = j
  BY <1>5, RenewedIsDict
<1>8. Enqueue(J) /\ backlog' = backlog \ group
  BY <1>1 DEF group
<1> HIDE DEF J
<1>9. /\ queue' \subseteq Job /\ IsFiniteSet(queue')
      /\ pending' \subseteq Job
      /\ sequence' \in Nat /\ wake' = TRUE
      /\ PendingIsDict'
      /\ queue \subseteq queue' /\ J \subseteq queue'
      /\ \A j \in pending' : j \in J \/ (j \in pending /\ j.key \notin KeysOf(J))
      /\ KeysOf(pending') = KeysOf(pending) \cup KeysOf(group)
  BY <1>6, <1>7, <1>8, EnqueueEffect
<1>10. KeysOf(InHand) \subseteq KeysOf(InHand') \cup KeysOf(group)
  BY <1>2, <1>8 DEF InHand, KeysOf
<1>11. TypeOK' /\ Finite'
  BY <1>2, <1>8, <1>9, FS_Subset DEF TypeOK, Finite
<1>12. Phases' /\ HandIsDict' /\ Grouped' /\ RequestShape'
  BY <1>2, <1>8 DEF Phases, HandIsDict, InHand, KeysOf, Grouped, RequestShape
<1>13. Backed'
  BY <1>2, <1>6, <1>9, <1>10 DEF Backed, Alive
<1>14. OwedBacked'
  BY <1>2, <1>9, <1>10 DEF OwedBacked, Alive
<1>15. NoOversleep' /\ Closed'
  BY <1>2 DEF NoOversleep, Closed
<1>16. Punctual' /\ BoundedWait'
  BY <1>2, <1>3, <1>6, <1>9 DEF Punctual, BoundedWait
<1> QED BY <1>9, <1>11, <1>12, <1>13, <1>14, <1>15, <1>16

\* A request ends without a retry: the task goes on, dies or has unwound.
LEMMA RetireStep ==
  ASSUME IInv, loop \in {"query", "cancelled"}, Retire,
         UNCHANGED <<clocks, queue, sequence, lastRequest, cooldown>>,
         \/ /\ loop = "query" /\ loop' = "turn" /\ UNCHANGED <<backlog, cleared>>
            /\ owed' = owed \ KeysOf(flight)
         \/ /\ backlog' = {} /\ cleared' = {} /\ UNCHANGED owed
            /\ (loop' = "dead" \/ (loop = "cancelled" /\ loop' = "stopped"))
  PROVE  IInv'
<1> USE DEF IInv, clocks
<1>1. flight' = {} /\ running' = {} /\ pending' = Without(pending, KeysOf(flight))
  BY DEF Retire, Phases
<1>2. pending' \subseteq pending /\ \A j \in pending' : j.key \notin KeysOf(flight)
  BY <1>1 DEF Without
<1>3. Finite'
  BY <1>1, FS_EmptySet DEF Finite
<1>4. TypeOK' /\ PendingIsDict' /\ HandIsDict'
  BY <1>1, <1>2 DEF TypeOK, PendingIsDict, HandIsDict, InHand
<1>5. Phases' /\ Grouped' /\ RequestShape'
  BY <1>1 DEF Phases, InHand, KeysOf, Grouped, RequestShape
<1>6. Backed'
  BY <1>1, <1>2 DEF Backed, Alive, IsRunning, InHand, KeysOf
<1>7. OwedBacked'
  BY <1>1, <1>2 DEF OwedBacked, Alive, IsRunning, InHand, KeysOf, Without
<1>8. NoOversleep' /\ Closed'
  BY <1>2 DEF NoOversleep, Closed
<1>9. Punctual' /\ BoundedWait'
  BY <1>2 DEF Punctual, PermittedAt, BoundedWait
<1> QED BY <1>3, <1>4, <1>5, <1>6, <1>7, <1>8, <1>9

\* A request ends and its keys are queued again.
LEMMA RetryStep ==
  ASSUME IInv, loop = "query", NEW at \in Nat, \E longest \in Delays : at - now <= longest,
         RetireAndRetry(at), loop' = "turn", cooldown' \in [Providers -> Nat],
         UNCHANGED <<now, alarm, backlog, cleared, lastRequest, owed>>
  PROVE  IInv'
<1> DEFINE J == Renewed(flight, at, 1)
<1> USE DEF IInv
<1>1. flight' = {} /\ running' = {} /\ Enqueue(J) /\ IsRunning /\ IsRunning'
  BY DEF RetireAndRetry, Phases, IsRunning
<1>2. \A i, j \in flight : i.key = j.key => i = j
  BY DEF HandIsDict, InHand
<1>3. /\ J \subseteq Job /\ IsFiniteSet(J) /\ KeysOf(J) = KeysOf(flight)
      /\ \A j \in J : j.due = at
  <2>1. flight \in SUBSET Job /\ IsFiniteSet(flight) /\ 1 \in Nat /\ at \in Nat
    BY DEF TypeOK, Finite
  <2>2. TypeOK
    OBVIOUS
  <2> QED BY ONLY <2>1, <2>2, RenewedJobs
<1>4. \A i, j \in J : i.key = j.key => i = j
  BY <1>2, RenewedIsDict
<1> HIDE DEF J
<1>5. /\ queue' \subseteq Job /\ IsFiniteSet(queue')
      /\ pending' \subseteq Job
      /\ sequence' \in Nat /\ wake' = TRUE
      /\ PendingIsDict'
      /\ queue \subseteq queue' /\ J \subseteq queue'
      /\ \A j \in pending' : j \in J \/ (j \in pending /\ j.key \notin KeysOf(J))
      /\ KeysOf(pending') = KeysOf(pending) \cup KeysOf(flight)
  BY <1>1, <1>3, <1>4, EnqueueEffect
<1>6. KeysOf(InHand) \subseteq KeysOf(InHand') \cup KeysOf(flight)
  BY DEF InHand, KeysOf
<1>7. TypeOK' /\ Finite'
  BY <1>1, <1>5, FS_EmptySet DEF TypeOK, Finite
<1>8. Phases' /\ HandIsDict' /\ Grouped' /\ RequestShape'
  BY <1>1 DEF Phases, HandIsDict, InHand, KeysOf, Grouped, RequestShape
<1>9. Backed'
  BY <1>1, <1>3, <1>5, <1>6 DEF Backed, Alive
<1>10. OwedBacked'
  BY <1>1, <1>5, <1>6 DEF OwedBacked, Alive
<1>11. NoOversleep' /\ Closed'
  BY DEF NoOversleep, Closed
<1>12. Punctual' /\ BoundedWait'
  BY <1>3, <1>5 DEF Punctual, PermittedAt, BoundedWait
<1> QED BY <1>5, <1>7, <1>8, <1>9, <1>10, <1>11, <1>12

\* A rate-limit answer preserves the invariant.
LEMMA RateLimitedStep ==
  ASSUME IInv, RateLimited
  PROVE  IInv'
<1>1. PICK wait \in Delays : RetireAndRetry(now + wait)
  BY RateLimitedRetries DEF IInv
<1>2. wait \in Nat
  BY DelaysAreNat
<1>3. now + wait \in Nat /\ \E longest \in Delays : (now + wait) - now <= longest
  BY <1>2 DEF IInv, TypeOK
<1>4. cooldown' \in [Providers -> Nat]
  BY RateLimitedRetries DEF IInv
<1> QED BY <1>1, <1>3, <1>4, RetryStep DEF RateLimited, MayFail

\* A transient failure preserves the invariant.
LEMMA TransientStep ==
  ASSUME IInv, TransientFailure
  PROVE  IInv'
<1>1. PICK delay \in 1..BackoffCap, jitter \in Jitters : RetireAndRetry(now + delay + jitter)
  BY TransientRetries DEF IInv
<1>2. /\ now \in Nat /\ delay \in Nat /\ jitter \in Nat /\ delay <= BackoffCap
      /\ BackoffCap \in Nat /\ BackoffCap + jitter \in Delays
  BY DelayAssumption DEF IInv, TypeOK, Delays
<1>3. /\ now + delay + jitter \in Nat
      /\ \E longest \in Delays : (now + delay + jitter) - now <= longest
  BY <1>2
<1>4. cooldown' \in [Providers -> Nat] /\ loop = "query" /\ loop' = "turn"
  BY DEF TransientFailure, MayFail, history, IInv, TypeOK
<1> QED BY <1>1, <1>3, <1>4, RetryStep DEF TransientFailure, history

\* Every step preserves the invariant.
LEMMA NextStep ==
  ASSUME IInv, [Next]_vars
  PROVE  IInv'
<1>1. CASE \E k \in Keys, offset \in Offsets : Schedule(k, offset)
  BY <1>1, ScheduleStep
<1>2. CASE \E k \in Keys : RequestNow(k)
  BY <1>2, RequestNowStep
<1>3. CASE \E plate \in Plates : CancelPlate(plate)
  BY <1>3, CancelPlateStep
<1>4. CASE Start
  BY <1>4, StartStep
<1>5. CASE Stop
  BY <1>5, StopStep
<1>6. CASE Collect
  BY <1>6, CollectStep
<1>7. CASE Defer
  BY <1>7, DeferStep
<1>8. CASE Permit
  BY <1>8, PermitStep
<1>9. CASE Dispatch
  BY <1>9, DispatchStep
<1>10. CASE Sleep
  BY <1>10, SleepStep
<1>11. CASE Conclude
  BY <1>11, RetireStep DEF Conclude
<1>12. CASE RateLimited
  BY <1>12, RateLimitedStep
<1>13. CASE TransientFailure
  BY <1>13, TransientStep
<1>14. CASE UntypedFailure
  BY <1>14, RetireStep DEF UntypedFailure, MayFail, history
<1>15. CASE Unwind
  BY <1>15, RetireStep DEF Unwind, RetireForGood, clocks, history
<1>16. CASE Tick
  BY <1>16, TickStep
<1>17. CASE UNCHANGED vars
  <2> USE <1>17 DEF IInv, vars, clocks, work, history
  <2>1. TypeOK' /\ Finite' /\ Phases' /\ PendingIsDict' /\ HandIsDict'
    BY DEF TypeOK, Finite, Phases, PendingIsDict, HandIsDict, InHand
  <2>2. Backed' /\ OwedBacked' /\ NoOversleep' /\ Closed'
    BY DEF Backed, OwedBacked, Alive, IsRunning, InHand, NoOversleep, Closed
  <2>3. Grouped' /\ RequestShape' /\ Punctual' /\ BoundedWait'
    BY DEF Grouped, RequestShape, Punctual, PermittedAt, BoundedWait
  <2> QED BY <2>1, <2>2, <2>3
<1> QED
  BY <1>1, <1>2, <1>3, <1>4, <1>5, <1>6, <1>7, <1>8, <1>9, <1>10, <1>11, <1>12, <1>13, <1>14,
     <1>15, <1>16, <1>17 DEF Next, Caller, Turn, Answer

\* The invariant holds initially.
LEMMA InitIInv == Init => IInv
<1> SUFFICES ASSUME Init PROVE IInv
  OBVIOUS
<1> USE DEF Init
<1>1. TypeOK
  BY DEF TypeOK
<1>2. Finite
  BY FS_EmptySet DEF Finite
<1>3. Phases /\ PendingIsDict /\ HandIsDict
  BY DEF Phases, PendingIsDict, HandIsDict, InHand, KeysOf
<1>4. Backed /\ OwedBacked /\ NoOversleep /\ Closed
  BY DEF Backed, OwedBacked, NoOversleep, Closed
<1>5. Grouped /\ RequestShape /\ BoundedWait
  BY DEF Grouped, RequestShape, BoundedWait
<1>6. Punctual
  BY DEF Punctual, Never
<1> QED BY <1>1, <1>2, <1>3, <1>4, <1>5, <1>6 DEF IInv

----------------------------------------------------------------------------
(* What holds in every reachable state *)

\* The inductive invariant: what the task holds, the dict, the heap and the
\* wake event fit together at every suspension point.
THEOREM Inductive == Spec => []IInv
<1>1. Init => IInv
  BY InitIInv
<1>2. IInv /\ [Next]_vars => IInv'
  BY NextStep
<1> QED BY <1>1, <1>2, PTL DEF Spec

\* Every variable keeps its type.
THEOREM TypeCorrect == Spec => []TypeOK
<1>1. IInv => TypeOK
  BY DEF IInv
<1> QED BY <1>1, Inductive, PTL

\* The scheduler never holds two jobs for one plate-provider key, and
\* _running is exactly the request that is out.
THEOREM NeverDuplicates == Spec => []NoDuplicateWork
<1>1. IInv => NoDuplicateWork
  BY DEF IInv, NoDuplicateWork, HandIsDict, Phases
<1> QED BY <1>1, Inductive, PTL

\* While the task lives, no key is left in _pending without a heap entry or a
\* job in the task's hands.
THEOREM NeverLosesWork == Spec => []NoWorkLost
<1>1. IInv => NoWorkLost
  BY DEF IInv, NoWorkLost, Backed, Alive
<1> QED BY <1>1, Inductive, PTL

\* The wait ends no later than the first live job is due.
THEOREM NeverOversleeps == Spec => []NoOversleep
<1>1. IInv => NoOversleep
  BY DEF IInv
<1> QED BY <1>1, Inductive, PTL

\* Whatever callers asked for is represented by a job until it is answered.
THEOREM OwedWorkIsHeld == Spec => []OwedIsHeld
<1>1. IInv => OwedIsHeld
  BY DEF IInv, OwedIsHeld, OwedBacked, Alive
<1> QED BY <1>1, Inductive, PTL

\* A request goes to one provider, for one plate unless the provider batches.
THEOREM RequestsAreGrouped == Spec => []RequestShape
<1>1. IInv => RequestShape
  BY DEF IInv
<1> QED BY <1>1, Inductive, PTL

\* No job is put off further than the longest single delay.
THEOREM WaitsAreBounded == Spec => []BoundedWait
<1>1. IInv => BoundedWait
  BY DEF IInv
<1> QED BY <1>1, Inductive, PTL

\* After async_stop nothing is queued again and nothing runs once the task
\* has ended.
THEOREM StopsForGood == Spec => []StopIsFinal
<1>1. IInv => StopIsFinal
  BY DEF IInv, StopIsFinal, Closed, Phases, InHand, KeysOf
<1> QED BY <1>1, Inductive, PTL

----------------------------------------------------------------------------
(* What no step does *)

\* A batching provider gets at most one request per interval.
THEOREM BatchesArePaced == Spec => BatchesKeepInterval
<1> DEFINE Paced == RequestSent => \A j \in flight' :
              j.key[2] \in Batching /\ lastRequest[j.key[2]] # Never
                => now >= lastRequest[j.key[2]] + Interval[j.key[2]]
<1>1. IInv /\ [Next]_vars => [Paced]_vars
  <2> SUFFICES ASSUME IInv, Next, RequestSent PROVE Paced
    BY DEF vars, RequestSent
  <2>1. Dispatch
    BY DEF Next, Caller, Turn, Answer, RequestSent, Schedule, RequestNow, CancelPlate, Start,
           Stop, Collect, Defer, Permit, Sleep, Conclude, RateLimited, TransientFailure,
           UntypedFailure, Unwind, Tick, MayFail, IsRunning, Blocked, Live, GroupOf, AlarmFor, LongEnough, RetireForGood
  <2>2. flight' \subseteq cleared
    BY <2>1 DEF Dispatch, Sent
  <2>3. \A j \in flight' : j.key[2] \in Providers
    BY <2>2, KeyParts DEF IInv, TypeOK, Job
  <2> QED
    BY <2>2, <2>3, DelayAssumption DEF IInv, Punctual, PermittedAt, TypeOK, Never
<1> QED BY <1>1, Inductive, PTL DEF Spec, BatchesKeepInterval, Paced

\* When a request ends, what is pending for its keys is a later retry.
THEOREM RetriesAreLater == Spec => RetryIsLater
<1> DEFINE Later == RequestEnded => \A j \in flight, i \in pending' :
              i.key = j.key => i.due > now /\ i.attempt > j.attempt
<1>1. IInv /\ [Next]_vars => [Later]_vars
  <2> SUFFICES ASSUME IInv, Next, RequestEnded, NEW j \in flight, NEW i \in pending', i.key = j.key
               PROVE  i.due > now /\ i.attempt > j.attempt
    BY DEF vars, RequestEnded
  <2> USE DEF IInv
  <2>1. CASE Retire
    BY <2>1 DEF Retire, Without, KeysOf
  <2>2. ASSUME NEW at \in Nat, at > now, RetireAndRetry(at)
        PROVE  i.due > now /\ i.attempt > j.attempt
    <3>1. flight \in SUBSET Job /\ IsFiniteSet(flight) /\ 1 \in Nat /\ TypeOK
      BY DEF TypeOK, Finite
    <3>2. LET R == Renewed(flight, at, 1)
          IN  /\ KeysOf(R) = KeysOf(flight)
              /\ \A n \in R : n.due = at
                   /\ \E f \in flight : n.key = f.key /\ n.attempt = f.attempt + 1
      BY ONLY <2>2, <3>1, RenewedJobs
    <3>3. i \in Renewed(flight, at, 1)
      BY <2>2, <3>2 DEF RetireAndRetry, Enqueue, Without, KeysOf
    <3>4. \A f \in flight : f.key = j.key => f = j
      BY DEF HandIsDict, InHand
    <3> QED BY <2>2, <3>1, <3>2, <3>3, <3>4 DEF Job
  <2>3. CASE RateLimited
    <3>1. PICK wait \in Delays : wait > 0 /\ RetireAndRetry(now + wait)
      BY <2>3, RateLimitedRetries
    <3> QED BY <2>2, <3>1, DelaysAreNat DEF TypeOK
  <2>4. CASE TransientFailure
    <3>1. PICK delay \in 1..BackoffCap, jitter \in Jitters : RetireAndRetry(now + delay + jitter)
      BY <2>4, TransientRetries
    <3> QED BY <2>2, <3>1, DelayAssumption DEF TypeOK
  <2>5. CASE Dispatch
    BY <2>5 DEF Dispatch, RequestEnded, Phases, Sent
  <2> QED
    BY <2>1, <2>3, <2>4, <2>5 DEF Next, Caller, Turn, Answer, RequestEnded, Schedule, RequestNow,
       CancelPlate, Start, Stop, Collect, Defer, Permit, Sleep, Conclude, UntypedFailure, Unwind,
       Tick, clocks, work, Blocked, Live, GroupOf, AlarmFor, RetireForGood
<1> QED BY <1>1, Inductive, PTL DEF Spec, RetryIsLater, Later

\* No plate of a batch is retried before its own backoff: the delay grows with
\* the attempts, and the batch takes that of its most often tried job.
THEOREM BackoffsAreKept == Spec => OwnBackoffKept
<1> DEFINE Kept == TransientFailure => \A j \in flight, i \in pending' :
              i.key = j.key => i.due >= now + Backoff(j.attempt)
<1>1. IInv /\ [Next]_vars => [Kept]_vars
  <2> SUFFICES ASSUME TypeOK, Finite, TransientFailure, NEW j \in flight, NEW i \in pending',
                      i.key = j.key
               PROVE  i.due >= now + Backoff(j.attempt)
    BY DEF IInv
  <2>1. PICK attempt \in Nat, jitter \in Jitters :
          /\ \A k \in flight : k.attempt <= attempt
          /\ Backoff(attempt) \in 1..BackoffCap
          /\ RetireAndRetry(now + Backoff(attempt) + jitter)
    BY TransientRetries
  <2> DEFINE at == now + Backoff(attempt) + jitter
  <2>2. now \in Nat /\ jitter \in Nat /\ BackoffCap \in Nat /\ at \in Nat
    BY <2>1, DelayAssumption DEF TypeOK
  <2>3. flight \in SUBSET Job /\ IsFiniteSet(flight) /\ 1 \in Nat /\ TypeOK
    BY DEF TypeOK, Finite
  <2>4. RetireAndRetry(at)
    BY <2>1
  <2> HIDE DEF at
  <2>5. LET R == Renewed(flight, at, 1)
        IN  KeysOf(R) = KeysOf(flight) /\ \A n \in R : n.due = at
    BY ONLY <2>2, <2>3, RenewedJobs
  <2>6. i \in Renewed(flight, at, 1)
    BY <2>4, <2>5 DEF RetireAndRetry, Enqueue, Without, KeysOf
  <2>7. j.attempt \in Nat /\ j.attempt <= attempt
    BY <2>1, <2>3 DEF Job
  <2>8. Backoff(j.attempt) <= Backoff(attempt) /\ Backoff(j.attempt) \in Nat
    BY <2>7, <2>2, BackoffsGrow
  <2> QED BY <2>1, <2>2, <2>5, <2>6, <2>8 DEF at
<1> QED BY <1>1, Inductive, PTL DEF Spec, OwnBackoffKept, Kept

\* If every header is a number, the retry of a rate-limited plate waits until
\* the time the header names.  A date is dropped before the scheduler sees it,
\* and one beyond the minimum cooldown is not waited for.
THEOREM NumbersAreHeeded ==
  (\A h \in RetryAfters : h.form = "number") => (Spec => RetryAfterKept)
<1> SUFFICES ASSUME \A h \in RetryAfters : h.form = "number"
             PROVE  Spec => RetryAfterKept
  OBVIOUS
<1> DEFINE Kept == RateLimited => \A j \in flight, i \in pending' :
              i.key = j.key => i.due >= cooldown'[j.key[2]]
<1>1. IInv /\ [Next]_vars => [Kept]_vars
  <2> SUFFICES ASSUME TypeOK, Finite, RateLimited, NEW j \in flight, NEW i \in pending',
                      i.key = j.key
               PROVE  i.due >= cooldown'[j.key[2]]
    BY DEF IInv
  <2>1. PICK header \in RetryAfters :
          /\ RetireAndRetry(now + LongEnough(SecondsOf(header)))
          /\ cooldown' = [p \in Providers |-> IF \E k \in flight : k.key[2] = p
                                                THEN now + Named(header) ELSE cooldown[p]]
    BY DEF RateLimited
  <2>2. SecondsOf(header) = Named(header) /\ Named(header) \in Nat
    BY SecondsAreNat DEF SecondsOf
  <2> DEFINE at == now + LongEnough(SecondsOf(header))
  <2>3. at \in Nat /\ at >= now + Named(header)
    BY <2>2, DelayAssumption DEF LongEnough, TypeOK
  <2>4. flight \in SUBSET Job /\ IsFiniteSet(flight) /\ 1 \in Nat /\ TypeOK
    BY DEF TypeOK, Finite
  <2>5. RetireAndRetry(at)
    BY <2>1
  <2> HIDE DEF at
  <2>6. LET R == Renewed(flight, at, 1)
        IN  KeysOf(R) = KeysOf(flight) /\ \A n \in R : n.due = at
    BY ONLY <2>3, <2>4, RenewedJobs
  <2>7. i.due = at
    BY <2>5, <2>6 DEF RetireAndRetry, Enqueue, Without, KeysOf
  <2>8. j.key[2] \in Providers
    BY <2>4 DEF Job, Keys
  <2>9. cooldown'[j.key[2]] = now + Named(header)
    BY <2>1, <2>8
  <2> QED BY <2>3, <2>7, <2>9
<1> QED BY <1>1, Inductive, PTL DEF Spec, RetryAfterKept, Kept

\* A deferred job is brought forward or dropped only by a caller or by the
\* answer to its own key.
THEOREM DeferralsStand == Spec => DeferralStands
<1> DEFINE Stands == \A j \in pending : j.due > now =>
              \/ \E i \in pending' : i.key = j.key /\ i.due > now
              \/ DisplacedByCaller(j.key)
              \/ j.key \in running \ running'
<1>1. IInv /\ [Next]_vars => [Stands]_vars
  <2> SUFFICES ASSUME IInv, Next, NEW j \in pending, j.due > now, j \notin pending'
               PROVE  \/ \E i \in pending' : i.key = j.key /\ i.due > now
                      \/ DisplacedByCaller(j.key)
                      \/ j.key \in running \ running'
    BY DEF vars
  <2> USE DEF IInv
  <2>1. CASE \E k \in Keys, offset \in Offsets : Schedule(k, offset)
    BY <2>1, FreshIsJob DEF Schedule, Enqueue, Without, KeysOf, Fresh, Blocked
  <2>2. CASE \E k \in Keys : RequestNow(k)
    <3>1. PICK k \in Keys : RequestNow(k)
      BY <2>2
    <3>2. k = j.key
      BY <3>1 DEF RequestNow, Enqueue, Without, KeysOf, Fresh
    <3> QED BY <3>1, <3>2 DEF DisplacedByCaller
  <2>3. CASE \E plate \in Plates : CancelPlate(plate)
    <3>1. PICK plate \in Plates : CancelPlate(plate)
      BY <2>3
    <3>2. plate = j.key[1]
      BY <3>1 DEF CancelPlate, Without, KeysOf
    <3> QED BY <3>1, <3>2 DEF DisplacedByCaller
  <2>4. CASE Stop
    BY <2>4 DEF DisplacedByCaller
  <2>5. CASE Retire
    BY <2>5 DEF Retire, Without, KeysOf, Phases
  <2>6. CASE RateLimited \/ TransientFailure
    <3>1. PICK at \in Nat : RetireAndRetry(at)
      <4>1. CASE RateLimited
        <5>1. PICK wait \in Delays : RetireAndRetry(now + wait)
          BY <4>1, RateLimitedRetries
        <5> QED BY <5>1, DelaysAreNat DEF TypeOK
      <4>2. CASE TransientFailure
        <5>1. PICK delay \in 1..BackoffCap, jitter \in Jitters :
                RetireAndRetry(now + delay + jitter)
          BY <4>2, TransientRetries
        <5> QED BY <5>1, DelayAssumption DEF TypeOK
      <4> QED BY <2>6, <4>1, <4>2
    <3>2. j.key \in KeysOf(Renewed(flight, at, 1))
      BY <3>1 DEF RetireAndRetry, Enqueue, Without
    <3>3. KeysOf(Renewed(flight, at, 1)) = KeysOf(flight)
      <4>1. flight \in SUBSET Job /\ IsFiniteSet(flight) /\ 1 \in Nat /\ TypeOK
        BY DEF TypeOK, Finite
      <4> QED BY ONLY <4>1, RenewedJobs
    <3> QED BY <3>1, <3>2, <3>3 DEF RetireAndRetry, Phases
  <2>7. CASE Defer
    <3>1. PICK p \in Providers :
            PermittedAt(p) > now /\ Enqueue(Renewed(OfProvider(backlog, p), PermittedAt(p), 0))
      BY <2>7 DEF Defer
    <3> DEFINE at == PermittedAt(p)
               group == OfProvider(backlog, p)
    <3>2. group \in SUBSET Job /\ IsFiniteSet(group) /\ 0 \in Nat /\ TypeOK
      BY FS_Subset DEF OfProvider, TypeOK, Finite
    <3>3. at \in Nat /\ at > now
      BY <3>1, DelayAssumption DEF PermittedAt, TypeOK
    <3>4. j.key \in KeysOf(Renewed(group, at, 0)) /\ Renewed(group, at, 0) \subseteq pending'
      BY <3>1 DEF Enqueue, Without
    <3> HIDE DEF at, group
    <3>5. \A n \in Renewed(group, at, 0) : n.due = at
      BY ONLY <3>2, <3>3, RenewedJobs
    <3> QED BY <3>3, <3>4, <3>5 DEF KeysOf
  <2> QED
    BY <2>1, <2>2, <2>3, <2>4, <2>5, <2>6, <2>7 DEF Next, Caller, Turn, Answer, Start, Collect,
       Permit, Dispatch, Sleep, Conclude, UntypedFailure, Unwind, Tick, work, Live, GroupOf, Sent, AlarmFor, RetireForGood
<1> QED BY <1>1, Inductive, PTL DEF Spec, DeferralStands, Stands

----------------------------------------------------------------------------
(* MonitoringScheduler implements SingleFlight *)

Waiting == KeysOf(pending) \cup KeysOf(InHand)

\* Whether the abstract scheduler is up is a Boolean.
LEMMA UpIsBoolean == Up \in BOOLEAN /\ Up' \in BOOLEAN
BY DEF Up

\* The stage of one key.
LEMMA StageAt ==
  \A k \in Keys : Stage[k] = IF k \in running THEN "checking"
                             ELSE IF Up /\ k \in Waiting THEN "waiting" ELSE "idle"
BY DEF Stage, Waiting

\* When neither the keys under way nor the ones that wait change, the
\* abstract state does not.
LEMMA StageKept ==
  ASSUME running' = running, Up' = Up, Up => Waiting' = Waiting
  PROVE  UNCHANGED <<Stage, Up>>
BY DEF Stage, Waiting

\* A step that gives the keys of K one stage and keeps the others is Move.
LEMMA StageMoves ==
  ASSUME NEW K, NEW s,
         \A k \in Keys : (IF k \in running' THEN "checking"
                          ELSE IF Up' /\ k \in Waiting' THEN "waiting" ELSE "idle")
                         = IF k \in K THEN s
                           ELSE IF k \in running THEN "checking"
                           ELSE IF Up /\ k \in Waiting THEN "waiting" ELSE "idle"
  PROVE  SF!Move(K, s)
BY DEF Stage, Waiting, SF!Move, SF!Keys, Keys

\* What the abstract sets of keys are in the scheduler.
LEMMA StagesOf ==
  ASSUME IInv
  PROVE  /\ SF!In("checking") = running
         /\ SF!In("waiting") = {k \in Keys : k \notin running /\ Up /\ k \in Waiting}
<1>1. running \subseteq Keys
  BY DEF IInv, TypeOK
<1> QED BY <1>1, StageAt DEF SF!In, SF!Keys, Keys

\* A caller's request makes an idle key wait and changes no other stage.
LEMMA AskRefines ==
  ASSUME IInv, NEW k \in Keys, UNCHANGED <<running, loop, backlog, cleared, flight>>,
         KeysOf(pending') = KeysOf(pending) \cup {k}
  PROVE  SF!Call({k}, {}) \/ UNCHANGED <<Stage, Up>>
<1>1. InHand' = InHand /\ Up' = Up /\ running' = running /\ Waiting' = Waiting \cup {k}
  BY DEF InHand, Up, Waiting
<1>2. CASE Up /\ k \notin running /\ k \notin Waiting
  <2>1. SF!Move({k}, "waiting")
    BY <1>1, <1>2, StageMoves
  <2>2. Stage[k] = "idle"
    BY <1>2, StageAt
  <2>3. Stage' = [l \in Keys |-> IF l \in {} THEN "idle"
                              ELSE IF l \in {k} /\ Stage[l] = "idle" THEN "waiting" ELSE Stage[l]]
    BY <2>1, <2>2 DEF SF!Move, SF!Keys, Keys
  <2>4. {} \in SUBSET {l \in SF!In("waiting") : l[1] \in {}}
    OBVIOUS
  <2> QED BY <1>1, <1>2, <2>3, <2>4 DEF SF!Call, SF!Keys, Keys
<1>3. CASE ~Up \/ k \in Waiting
  BY <1>1, <1>3, StageKept
<1>4. CASE k \in running
  <2>1. k \in Waiting
    BY <1>4 DEF IInv, Phases, Waiting, InHand, KeysOf
  <2> QED BY <1>3, <2>1
<1> QED BY <1>2, <1>3, <1>4

\* The end of a request that is not retried, while the task goes on.
LEMMA ConcludeRefines ==
  ASSUME IInv, Conclude
  PROVE  SF!Settle
<1> USE DEF IInv
<1>1. /\ flight' = {} /\ running' = {} /\ running = KeysOf(flight) /\ running # {}
      /\ Up /\ Up' /\ UNCHANGED <<backlog, cleared>>
      /\ pending' = Without(pending, KeysOf(flight))
  BY DEF Conclude, Retire, Phases, Up, KeysOf
<1>2. \A i \in backlog \cup cleared : i.key \notin running
  BY <1>1 DEF Grouped, HandIsDict, InHand, KeysOf
<1>3. Waiting' = Waiting \ running
  BY <1>1, <1>2 DEF Waiting, InHand, KeysOf, Without
<1>4. SF!Move(running, "idle")
  BY <1>1, <1>3, StageMoves
<1> QED BY <1>1, <1>4, StagesOf DEF SF!Settle

\* The end of a request whose keys are queued again.
LEMMA RetryRefines ==
  ASSUME IInv, loop = "query", loop' = "turn", NEW at \in Nat, RetireAndRetry(at),
         UNCHANGED <<backlog, cleared>>
  PROVE  SF!Settle
<1> USE DEF IInv
<1>1. /\ flight' = {} /\ running' = {} /\ running = KeysOf(flight) /\ running # {}
      /\ Up /\ Up'
  BY DEF RetireAndRetry, Phases, Up, KeysOf
<1>2. KeysOf(Renewed(flight, at, 1)) = running
  <2>1. flight \in SUBSET Job /\ IsFiniteSet(flight) /\ 1 \in Nat /\ TypeOK
    BY DEF TypeOK, Finite
  <2>2. KeysOf(Renewed(flight, at, 1)) = KeysOf(flight)
    BY ONLY <2>1, RenewedJobs
  <2> QED BY <1>1, <2>2
<1>3. KeysOf(pending') = KeysOf(pending) \cup running
  BY <1>2 DEF RetireAndRetry, Enqueue, Without, KeysOf
<1>4. Waiting' = Waiting
  BY <1>1, <1>3 DEF Waiting, InHand, KeysOf
<1>5. running \subseteq Waiting
  BY <1>1 DEF Waiting, InHand, KeysOf
<1>6. SF!Move(running, "waiting")
  BY <1>1, <1>4, <1>5, StageMoves
<1> QED BY <1>1, <1>6, StagesOf DEF SF!Settle

\* Sending a request is Begin.
LEMMA DispatchRefines ==
  ASSUME IInv, Dispatch
  PROVE  \E K \in SUBSET SF!Keys : SF!Begin(K)
<1> USE DEF IInv
<1>1. /\ flight = {} /\ running = {} /\ UNCHANGED <<pending, backlog>> /\ Up /\ Up'
      /\ flight' # {} /\ flight' \subseteq cleared /\ cleared' = cleared \ flight'
      /\ running' = KeysOf(flight')
      /\ \A i, j \in flight' : i.key[2] = j.key[2] /\ (i = j \/ i.key[2] \in Batching)
  BY DEF Dispatch, Phases, Up, KeysOf, Grouped, Sent
<1> DEFINE K == KeysOf(flight')
<1>2. K \subseteq Keys /\ K \subseteq Waiting /\ K # {}
  BY <1>1 DEF TypeOK, Job, KeysOf, Waiting, InHand
<1>3. Waiting' = Waiting
  BY <1>1 DEF Waiting, InHand
<1>4. SF!Move(K, "checking")
  BY <1>1, <1>3, StageMoves
<1>5. \A k, l \in K : k[2] = l[2] /\ (k = l \/ k[2] \in Batching)
  BY <1>1 DEF KeysOf
<1>6. SF!In("checking") = {} /\ K \subseteq SF!In("waiting")
  BY <1>1, <1>2, StagesOf
<1> HIDE DEF K
<1>7. SF!Begin(K)
  BY <1>1, <1>2, <1>4, <1>5, <1>6 DEF SF!Begin
<1> QED BY <1>2, <1>7 DEF SF!Keys, Keys

\* Removing a plate drops checks of it that wait.
LEMMA CancelRefines ==
  ASSUME IInv, NEW plate \in Plates, CancelPlate(plate)
  PROVE  SF!Call({}, {plate}) \/ UNCHANGED <<Stage, Up>>
<1>1. /\ UNCHANGED <<running, loop>> /\ Up' = Up /\ InHand' = InHand
      /\ Waiting' \subseteq Waiting
      /\ \A k \in Waiting : k \notin Waiting' => k[1] = plate /\ k \notin running
  BY DEF CancelPlate, Up, InHand, Waiting, Without, KeysOf
<1> DEFINE K == {k \in Keys : Up /\ k \in Waiting /\ k \notin Waiting'}
<1>2. SF!Move(K, "idle")
  BY <1>1, StageMoves
<1>3. K \in SUBSET {k \in SF!In("waiting") : k[1] \in {plate}}
  BY <1>1, StagesOf
<1>4. CASE Up
  <2>1. Stage' = [k \in Keys |-> IF k \in K THEN "idle"
                              ELSE IF k \in {} /\ Stage[k] = "idle" THEN "waiting" ELSE Stage[k]]
    BY <1>2 DEF SF!Move, SF!Keys, Keys
  <2> HIDE DEF K
  <2> QED BY <1>1, <1>3, <1>4, <2>1 DEF SF!Call, SF!Keys, Keys
<1>5. CASE ~Up
  BY <1>1, <1>5, StageKept
<1> QED BY <1>4, <1>5

\* async_stop is Close.
LEMMA StopRefines ==
  ASSUME IInv, Stop
  PROVE  SF!Close \/ UNCHANGED <<Stage, Up>>
<1>1. running' = running /\ ~Up' /\ (~Up => loop = "dead")
  BY DEF Stop, Up, Serving, IsRunning
<1>2. CASE Up
  <2>1. SF!Move(SF!In("waiting"), "idle")
    BY <1>1, <1>2, StageMoves, StagesOf
  <2>2. Up' = FALSE
    BY <1>1, UpIsBoolean
  <2> QED BY <1>2, <2>1, <2>2 DEF SF!Close
<1>3. CASE ~Up
  <2>1. Up' = Up
    BY <1>1, <1>3, UpIsBoolean
  <2> QED BY <1>1, <1>3, <2>1, StageKept
<1> QED BY <1>2, <1>3

\* Every step of the scheduler is a step of SingleFlight or a stutter.
LEMMA StepRefines ==
  ASSUME IInv, [Next]_vars
  PROVE  [SF!Next]_<<Stage, Up>>
<1> USE DEF IInv
<1>1. ASSUME UNCHANGED <<running, pending, backlog, cleared, flight>>, Up' = Up
      PROVE  UNCHANGED <<Stage, Up>>
  BY <1>1, StageKept DEF Waiting, InHand
<1>2. CASE \E k \in Keys, offset \in Offsets : Schedule(k, offset)
  <2>1. PICK k \in Keys, offset \in Offsets : Schedule(k, offset)
    BY <1>2
  <2>2. KeysOf(pending') = KeysOf(pending) \cup {k}
    BY <2>1 DEF Schedule, Enqueue, Without, KeysOf, Fresh, Blocked
  <2>3. SF!Call({k}, {}) \/ UNCHANGED <<Stage, Up>>
    BY <2>1, <2>2, AskRefines DEF Schedule, Blocked
  <2> QED BY <2>3 DEF SF!Next, SF!Keys, Keys
<1>3. CASE \E k \in Keys : RequestNow(k)
  <2>1. PICK k \in Keys : RequestNow(k)
    BY <1>3
  <2>2. CASE k \in running
    BY <1>1, <2>1, <2>2 DEF RequestNow, Up
  <2>3. CASE k \notin running
    <3>1. KeysOf(pending') = KeysOf(pending) \cup {k}
      BY <2>1, <2>3 DEF RequestNow, Enqueue, Without, KeysOf, Fresh
    <3>2. SF!Call({k}, {}) \/ UNCHANGED <<Stage, Up>>
      BY <2>1, <3>1, AskRefines DEF RequestNow
    <3> QED BY <3>2 DEF SF!Next, SF!Keys, Keys
  <2> QED BY <2>2, <2>3
<1>4. CASE \E plate \in Plates : CancelPlate(plate)
  BY <1>4, CancelRefines DEF SF!Next
<1>5. CASE Start \/ Sleep \/ Tick
  BY <1>1, <1>5 DEF Start, Sleep, Tick, Up, work, AlarmFor
<1>6. CASE Stop
  BY <1>6, StopRefines DEF SF!Next
<1>7. CASE Collect
  <2>1. InHand = {} /\ UNCHANGED <<pending, running, cleared, flight>> /\ Up' = Up
    BY <1>7 DEF Collect, Phases, Up, Live
  <2>2. KeysOf(InHand') \subseteq KeysOf(pending)
    BY <1>7, <2>1 DEF Collect, InHand, KeysOf, Live
  <2>3. Waiting' = Waiting
    BY <2>1, <2>2 DEF Waiting, KeysOf
  <2> QED BY <2>1, <2>3, StageKept
<1>8. CASE Defer
  <2>1. PICK p \in Providers :
          /\ backlog' = backlog \ OfProvider(backlog, p) /\ PermittedAt(p) > now
          /\ Enqueue(Renewed(OfProvider(backlog, p), PermittedAt(p), 0))
    BY <1>8 DEF Defer
  <2> DEFINE group == OfProvider(backlog, p)
             at == PermittedAt(p)
  <2>2. group \in SUBSET Job /\ IsFiniteSet(group) /\ 0 \in Nat /\ TypeOK /\ at \in Nat
    BY <2>1, FS_Subset, DelayAssumption DEF OfProvider, TypeOK, Finite, PermittedAt
  <2>3. group \subseteq backlog
    BY DEF OfProvider
  <2>4. Enqueue(Renewed(group, at, 0)) /\ backlog' = backlog \ group
    BY <2>1
  <2> HIDE DEF group, at
  <2>5. KeysOf(Renewed(group, at, 0)) = KeysOf(group)
    BY ONLY <2>2, RenewedJobs
  <2>6. KeysOf(pending') = KeysOf(pending) \cup KeysOf(group)
    BY <2>4, <2>5 DEF Enqueue, Without, KeysOf
  <2>7. UNCHANGED <<running, cleared, flight, loop>>
    BY <1>8 DEF Defer
  <2>8. Waiting' = Waiting
    BY <2>3, <2>4, <2>6, <2>7 DEF Waiting, InHand, KeysOf
  <2> QED BY <2>7, <2>8, StageKept DEF Up
<1>9. CASE Permit
  <2>1. InHand' = InHand /\ UNCHANGED <<running, pending, loop>>
    BY <1>9 DEF Permit, InHand, OfProvider, GroupOf
  <2> QED BY <2>1, StageKept DEF Waiting, Up
<1>10. CASE Dispatch
  BY <1>10, DispatchRefines DEF SF!Next
<1>11. CASE Conclude
  BY <1>11, ConcludeRefines DEF SF!Next
<1>12. CASE RateLimited
  <2>1. PICK wait \in Delays : RetireAndRetry(now + wait)
    BY <1>12, RateLimitedRetries
  <2>2. now + wait \in Nat
    BY DelaysAreNat DEF TypeOK
  <2>3. SF!Settle
    BY <1>12, <2>1, <2>2, RetryRefines DEF RateLimited, MayFail
  <2> QED BY <2>3 DEF SF!Next
<1>13. CASE TransientFailure
  <2>1. PICK delay \in 1..BackoffCap, jitter \in Jitters : RetireAndRetry(now + delay + jitter)
    BY <1>13, TransientRetries
  <2>2. now + delay + jitter \in Nat
    BY DelayAssumption DEF TypeOK
  <2>3. SF!Settle
    BY <1>13, <2>1, <2>2, RetryRefines DEF TransientFailure, MayFail
  <2> QED BY <2>3 DEF SF!Next
<1>14. CASE UntypedFailure
  <2>1. Up /\ ~Up' /\ running' = {}
    BY <1>14 DEF UntypedFailure, MayFail, Retire, Up, Phases
  <2>2. SF!Move(SF!Keys, "idle")
    BY <2>1, StageMoves DEF SF!Keys, Keys
  <2>3. Up' = FALSE
    BY <2>1, UpIsBoolean
  <2> QED BY <2>1, <2>2, <2>3 DEF SF!Next, SF!Close
<1>15. CASE Unwind
  <2>1. ~Up /\ ~Up' /\ running' = {}
    BY <1>15 DEF Unwind, Retire, Up, Phases, RetireForGood
  <2>2. Up' = Up
    BY <2>1, UpIsBoolean
  <2>3. CASE running = {}
    BY <2>1, <2>2, <2>3, StageKept
  <2>4. CASE running # {}
    <3>1. SF!Move(running, "idle")
      BY <2>1, StageMoves
    <3>2. SF!Settle
      BY <2>2, <2>4, <3>1, StagesOf DEF SF!Settle
    <3> QED BY <3>2 DEF SF!Next
  <2> QED BY <2>3, <2>4
<1>16. CASE UNCHANGED vars
  BY <1>1, <1>16 DEF vars, work, Up
<1> QED
  BY <1>2, <1>3, <1>4, <1>5, <1>6, <1>7, <1>8, <1>9, <1>10, <1>11, <1>12, <1>13, <1>14, <1>15,
     <1>16 DEF Next, Caller, Turn, Answer

\* Heap, dict, set and local lists together keep the promise of SingleFlight:
\* a key that waits is checked or withdrawn, one request is out at a time.
THEOREM KeepsPromise == Spec => Promise
<1>1. Init => SF!Init
  BY DEF Init, SF!Init, Stage, Up, KeysOf, InHand, SF!Keys, Keys
<1>2. IInv /\ [Next]_vars => [SF!Next]_<<Stage, Up>>
  BY StepRefines
<1> QED BY <1>1, <1>2, Inductive, PTL DEF Spec, Promise, SF!Spec
=============================================================================
