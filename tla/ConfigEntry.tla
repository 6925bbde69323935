----------------------------- MODULE ConfigEntry -----------------------------
(***************************************************************************)
(* The life of one config entry (__init__.py): setup, unload and the       *)
(* listener that reacts to changed options, driven by Home Assistant's     *)
(* config-entry manager.  The manager sets up, reloads and unloads an      *)
(* entry under a lock, one at a time; its listeners run when the options   *)
(* change, whoever holds the lock, up to the point where they wait for it. *)
(* A step is what happens between two suspension points.                   *)
(***************************************************************************)
EXTENDS Integers, FiniteSets

CONSTANTS
  Plates,
  Records,    \* what the options may say of a plate
  None,       \* there is no runtime in hass.data
  Faults,     \* what may fail in this instance: "scheduler" (its task ends by an
              \* exception), "forward" (setting the platforms up), "unload" (them)
  MaxUpdates, \* bound: updates of the options
  MaxRestarts \* bound: restarts of Home Assistant

Options == UNION {[S -> Records] : S \in SUBSET Plates}

ASSUME NoneAssumption == None \notin Options
ASSUME FaultAssumption == Faults \subseteq {"scheduler", "forward", "unload"}

VARIABLES
  options,    \* entry.options[PLATES]
  registry,   \* plates with entities in the entity registry
  state,      \* entry.state, and how far an unload is: "not_loaded" (the setup comes
              \* next), "setup" (the platforms are awaited), "loaded", "setup_error",
              \* "unloading" (the platforms are awaited), "stopping" (the scheduler is),
              \* "giving_up" (the same when the platforms refused), "failed_unload"
  waiting,    \* reloads that wait for the lock
  listeners,  \* how often _async_entry_updated is registered
  runtime,    \* the records of the runtime in hass.data
  alive,      \* the task of that runtime's scheduler is running
  strays,     \* running schedulers of runtimes that are not in hass.data any more
  failures,   \* history: setups that failed since Home Assistant started
  overlapped, \* history: plates removed while a setup was under way or due, or
              \* while there was no runtime
  updates, restarts \* count, for the bounds

stored  == <<options, registry, overlapped, updates>>
monitor == <<runtime, alive, strays>>
vars    == <<stored, state, waiting, listeners, monitor, failures, restarts>>

----------------------------------------------------------------------------
(* async_setup_entry *)

\* Up to its first await: the records are read, a runtime takes the place in
\* hass.data, whatever was there, the listener is registered and the
\* scheduler started.
StartSetup ==
  /\ state = "not_loaded" /\ state' = "setup"
  /\ runtime' = options
  /\ alive' = TRUE /\ strays' = IF alive THEN strays + 1 ELSE strays
  /\ listeners' = listeners + 1
  /\ UNCHANGED <<stored, waiting, failures, restarts>>

\* The platforms have added the entities of all plates.
FinishSetup ==
  /\ state = "setup" /\ state' = "loaded"
  /\ registry' = registry \cup DOMAIN runtime
  /\ UNCHANGED <<options, overlapped, updates, waiting, listeners, monitor, failures, restarts>>

\* A platform could not be set up, others may have been: nobody stops the
\* scheduler or removes the runtime and the listener.
ForwardFails ==
  /\ "forward" \in Faults
  /\ state = "setup" /\ state' = "setup_error"
  /\ registry' \in {registry, registry \cup DOMAIN runtime}
  /\ failures' = failures + 1
  /\ UNCHANGED <<options, overlapped, updates, waiting, listeners, monitor, restarts>>

----------------------------------------------------------------------------
(* _async_entry_updated *)

\* Mutant: an update is heeded by a loaded entry only.
HeardLoaded == listeners > 0 /\ runtime # None /\ state = "loaded"

\* Without a runtime in hass.data the listener ends with a KeyError.
Heard == listeners > 0 /\ runtime # None

\* Mutant: the entities are left to the reload.
RemovedNone(new) == {}

Removed(new) == (DOMAIN runtime) \ DOMAIN new

UpdateOptions(new) ==
  /\ updates < MaxUpdates /\ updates' = updates + 1
  /\ new # options /\ options' = new
  /\ IF Heard THEN registry' = registry \ Removed(new) /\ waiting' = waiting + listeners
              ELSE UNCHANGED <<registry, waiting>>
  /\ overlapped' = IF state \in {"loaded", "unloading", "setup_error"} THEN overlapped
                   ELSE overlapped \cup ((DOMAIN options) \ DOMAIN new)
  /\ UNCHANGED <<state, listeners, monitor, failures, restarts>>

\* A reload gets the lock.  Only a loaded entry is unloaded; one that failed
\* to unload refuses any operation until Home Assistant restarts.
BeginReload ==
  /\ waiting > 0 /\ waiting' = waiting - 1
  /\ \/ state = "loaded" /\ state' = "unloading"
     \/ state = "setup_error" /\ state' = "not_loaded"
     \/ state = "failed_unload" /\ UNCHANGED state
  /\ UNCHANGED <<stored, listeners, monitor, failures, restarts>>

----------------------------------------------------------------------------
(* async_unload_entry *)

\* Mutant: the runtime is dropped and its scheduler not stopped.
RunsOn == UNCHANGED alive

Halt == alive' = FALSE

\* The runtime is popped and its scheduler stopped, whether the platforms
\* unloaded or not.  A task that had ended raises its exception here.
UnloadPlatforms(unloaded) ==
  /\ unloaded \/ "unload" \in Faults
  /\ state = "unloading"
  /\ state' = CASE ~alive -> "failed_unload" [] alive /\ unloaded -> "stopping" [] OTHER -> "giving_up"
  /\ runtime' = None /\ Halt
  /\ UNCHANGED <<stored, waiting, listeners, strays, failures, restarts>>

\* The task has ended.  After an unload the listener goes and a reload goes on
\* with the setup.
Stopped ==
  /\ \/ state = "stopping" /\ state' = "not_loaded" /\ listeners' = 0
     \/ state = "giving_up" /\ state' = "failed_unload" /\ UNCHANGED listeners
  /\ UNCHANGED <<stored, waiting, monitor, failures, restarts>>

----------------------------------------------------------------------------
(* What happens to the entry *)

SchedulerDies ==
  /\ "scheduler" \in Faults
  /\ \/ alive /\ alive' = FALSE /\ UNCHANGED strays
     \/ strays > 0 /\ strays' = strays - 1 /\ UNCHANGED alive
  /\ UNCHANGED <<stored, state, waiting, listeners, runtime, failures, restarts>>

\* Home Assistant stops or crashes: options and registry are all that is left.
Restart ==
  /\ restarts < MaxRestarts /\ restarts' = restarts + 1
  /\ state' = "not_loaded" /\ waiting' = 0 /\ listeners' = 0
  /\ runtime' = None /\ alive' = FALSE /\ strays' = 0 /\ failures' = 0
  /\ UNCHANGED stored

Init ==
  /\ options \in Options /\ registry = {} /\ overlapped = {}
  /\ state = "not_loaded" /\ waiting = 0 /\ listeners = 0
  /\ runtime = None /\ alive = FALSE /\ strays = 0 /\ failures = 0
  /\ updates = 0 /\ restarts = 0

Manager ==
  \/ StartSetup \/ FinishSetup \/ ForwardFails
  \/ BeginReload
  \/ \E unloaded \in BOOLEAN : UnloadPlatforms(unloaded)
  \/ Stopped

Next ==
  \/ Manager
  \/ \E new \in Options : UpdateOptions(new)
  \/ SchedulerDies
  \/ Restart

Spec == Init /\ [][Next]_vars

\* The manager goes on with what it began and the lock is handed on.
LiveSpec == Spec /\ WF_vars(Manager)

----------------------------------------------------------------------------
(* Properties *)

\* Type invariant; a scheduler that runs for the entry has its runtime in
\* hass.data.
TypeOK ==
  /\ options \in Options /\ runtime \in Options \cup {None}
  /\ registry \subseteq Plates /\ overlapped \subseteq Plates
  /\ state \in {"not_loaded", "setup", "loaded", "setup_error", "unloading",
                "stopping", "giving_up", "failed_unload"}
  /\ waiting \in Nat /\ listeners \in Nat
  /\ alive \in BOOLEAN /\ (alive => runtime # None)
  /\ strays \in Nat /\ failures \in Nat /\ updates \in Nat /\ restarts \in Nat

\* "The entry-owned scheduler": besides the scheduler of an entry that is set
\* up there is at most one per setup that failed, however updates, reloads and
\* failing unloads overlap; an entry that failed to unload checks nothing.
Running == strays + (IF alive THEN 1 ELSE 0)
MonitoredOnce ==
  Running <= failures + (IF state \in {"setup", "loaded", "unloading"} THEN 1 ELSE 0)

\* "Removing a plate stops its future checks": a loaded entry that nothing is
\* about to reload runs on the options as they are, and each of their plates
\* has its entities.  No update is lost, also while a setup or unload is under
\* way.
RunsOnOptions ==
  state = "loaded" /\ waiting = 0 => runtime = options /\ DOMAIN options \subseteq registry

\* "Removing a plate removes its Park Snoop entities": in a loaded entry the
\* entities of plates that are not in the options are those of plates that
\* were removed during a setup or while there was no runtime; only there the
\* removal is lost or undone.
OrphansExplained ==
  state = "loaded" => registry \subseteq (DOMAIN options) \cup overlapped

\* Once nobody changes options any more the entry runs on them, or it is in a
\* failed state; no reload waits for a lock that is not released.
Settles ==
  <>[](\/ state = "loaded" /\ runtime = options
       \/ state \in {"setup_error", "failed_unload"} /\ waiting = 0)

\* In these states there is a runtime, the listener is registered and what the
\* user removes is heard of.
SetUp == {"setup", "loaded", "unloading", "setup_error"}
InForce == IF state \in SetUp THEN runtime ELSE None
ReloadDue == waiting > 0 \/ state = "unloading"

\* The promise of Reconciliation: whatever meets in setups, reloads and
\* failures, an entry that is set up, also one whose platforms failed, never
\* runs on options it did not just read, never changes them while it runs,
\* and has a reload coming from the moment they are out of date.
Reconciler == INSTANCE Reconciliation WITH wanted <- options, inForce <- InForce, due <- ReloadDue
Reconciles == Reconciler!Spec
=============================================================================
