---------------------------- MODULE SingleFlight ----------------------------
(***************************************************************************)
(* What the monitoring scheduler promises its callers, without heap, clock *)
(* or task: every plate-provider key is idle, waits for a check or is      *)
(* being checked; one provider request is out at a time, and a key that    *)
(* waits is withdrawn or checked, never lost and never doubled.            *)
(***************************************************************************)
CONSTANTS Plates, Providers, Batching

Keys == Plates \X Providers

VARIABLES
  stage,   \* what is happening to each key
  up       \* whether the scheduler still takes and does work

\* Nothing has gone out yet; checks may have been asked for before the task starts.
Init == stage \in [Keys -> {"idle", "waiting"}] /\ up = TRUE

In(s) == {k \in Keys : stage[k] = s}
Move(K, s) == stage' = [k \in Keys |-> IF k \in K THEN s ELSE stage[k]]

\* Callers ask for checks and remove plates, for several keys and plates in
\* one go.  Asking makes no difference to a key that waits or is being
\* checked; of a removed plate the checks that wait may be dropped.
Call(asked, removed) ==
  /\ up
  /\ \E dropped \in SUBSET {k \in In("waiting") : k[1] \in removed} :
       stage' = [k \in Keys |-> IF k \in dropped THEN "idle"
                                ELSE IF k \in asked /\ stage[k] = "idle" THEN "waiting"
                                ELSE stage[k]]
  /\ UNCHANGED up

\* A request goes out: for one provider, for one key unless it batches.
Begin(K) ==
  /\ up /\ In("checking") = {} /\ K # {} /\ K \subseteq In("waiting")
  /\ \A k, l \in K : k[2] = l[2] /\ (k = l \/ k[2] \in Batching)
  /\ Move(K, "checking") /\ UNCHANGED up

\* The request ends, and all its keys are through or all wait for a retry.
Settle ==
  /\ In("checking") # {}
  /\ Move(In("checking"), "idle") \/ (up /\ Move(In("checking"), "waiting"))
  /\ UNCHANGED up

\* The scheduler goes down, waiting keys are dropped; a request that is out
\* may end with it or after it.
Close ==
  /\ up /\ up' = FALSE
  /\ \/ Move(Keys, "idle")
     \/ Move(In("waiting"), "idle")

Next ==
  \/ \E asked \in SUBSET Keys, removed \in SUBSET Plates : Call(asked, removed)
  \/ \E K \in SUBSET Keys : Begin(K)
  \/ Settle
  \/ Close

Spec == Init /\ [][Next]_<<stage, up>>
=============================================================================
