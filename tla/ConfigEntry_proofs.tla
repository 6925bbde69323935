-------------------------- MODULE ConfigEntry_proofs --------------------------
(***************************************************************************)
(* Proofs about ConfigEntry, for any plates, records and number of         *)
(* updates, restarts and failures.  That the entry settles is a liveness   *)
(* property and is left to TLC.                                            *)
(***************************************************************************)
EXTENDS ConfigEntry, TLAPS

\* hass.data has the runtime and the listener is registered exactly as far as
\* the state tells; what was removed while the state is one of these is
\* removed by the listener.
LifeInv ==
  /\ state \in SetUp => runtime # None /\ listeners > 0
  /\ state \in {"stopping", "giving_up", "failed_unload"} => ~alive

CountInv == strays <= failures /\ MonitoredOnce

CurrentInv ==
  /\ state \in {"setup", "loaded"} /\ waiting = 0 => runtime = options
  /\ state = "loaded" /\ waiting = 0 => DOMAIN runtime \subseteq registry

RegistryInv ==
  /\ registry \subseteq (DOMAIN options) \cup overlapped
  /\ state \in SetUp => registry \subseteq (DOMAIN runtime) \cup overlapped
  /\ state = "setup" => DOMAIN runtime \subseteq (DOMAIN options) \cup overlapped

Inv == TypeOK /\ LifeInv /\ CountInv /\ CurrentInv /\ RegistryInv

----------------------------------------------------------------------------
LEMMA OptionsDomain == \A o \in Options : DOMAIN o \subseteq Plates
  BY DEF Options

LEMMA StartSetupKeeps == Inv /\ StartSetup => Inv'
<1> SUFFICES ASSUME Inv, StartSetup PROVE Inv'
  OBVIOUS
<1> USE DEF Inv, StartSetup, stored
<1>1. TypeOK'
  BY NoneAssumption DEF TypeOK
<1>2. LifeInv'
  BY NoneAssumption DEF TypeOK, LifeInv
<1>3. CountInv'
  BY DEF TypeOK, CountInv, MonitoredOnce, Running
<1>4. CurrentInv'
  BY DEF CurrentInv
<1>5. RegistryInv'
  BY DEF RegistryInv
<1> QED
  BY <1>1, <1>2, <1>3, <1>4, <1>5

LEMMA FinishSetupKeeps == Inv /\ FinishSetup => Inv'
<1> SUFFICES ASSUME Inv, FinishSetup PROVE Inv'
  OBVIOUS
<1> USE DEF Inv, FinishSetup, monitor
<1>0. DOMAIN runtime \subseteq Plates
  BY OptionsDomain DEF TypeOK, LifeInv, SetUp
<1>1. TypeOK'
  BY <1>0 DEF TypeOK
<1>2. LifeInv'
  BY DEF LifeInv, SetUp
<1>3. CountInv'
  BY DEF CountInv, MonitoredOnce, Running
<1>4. CurrentInv'
  BY DEF CurrentInv
<1>5. RegistryInv'
  BY DEF RegistryInv, SetUp
<1> QED
  BY <1>1, <1>2, <1>3, <1>4, <1>5

LEMMA ForwardFailsKeeps == Inv /\ ForwardFails => Inv'
<1> SUFFICES ASSUME Inv, ForwardFails PROVE Inv'
  OBVIOUS
<1> USE DEF Inv, ForwardFails, monitor
<1>0. DOMAIN runtime \subseteq Plates
  BY OptionsDomain DEF TypeOK, LifeInv, SetUp
<1>1. TypeOK'
  BY <1>0 DEF TypeOK
<1>2. LifeInv'
  BY DEF LifeInv, SetUp
<1>3. CountInv'
  BY DEF TypeOK, CountInv, MonitoredOnce, Running
<1>4. CurrentInv'
  BY DEF CurrentInv
<1>5. RegistryInv'
  BY DEF RegistryInv, SetUp
<1> QED
  BY <1>1, <1>2, <1>3, <1>4, <1>5

LEMMA UpdateKeeps == ASSUME NEW new \in Options PROVE Inv /\ UpdateOptions(new) => Inv'
<1> SUFFICES ASSUME Inv, UpdateOptions(new) PROVE Inv'
  OBVIOUS
<1> USE DEF Inv, UpdateOptions, monitor
<1>0. DOMAIN new \subseteq Plates /\ DOMAIN options \subseteq Plates
  BY OptionsDomain DEF TypeOK
<1>1. TypeOK'
  BY <1>0 DEF TypeOK
<1>2. LifeInv'
  BY DEF LifeInv
<1>3. CountInv'
  BY DEF CountInv, MonitoredOnce, Running
<1>4. state \in SetUp => Heard
  BY DEF LifeInv, Heard
<1>5. state \in {"setup", "loaded"} => waiting' > 0
  BY <1>4 DEF TypeOK, Heard, SetUp
<1>6. CurrentInv'
  BY <1>5 DEF CurrentInv
<1>7. RegistryInv'
  <2>1. CASE state \in {"loaded", "unloading", "setup_error"}
    BY <1>4, <2>1 DEF RegistryInv, Removed, SetUp
  <2>2. CASE state \notin {"loaded", "unloading", "setup_error"}
    BY <2>2 DEF RegistryInv, SetUp
  <2> QED
    BY <2>1, <2>2
<1> QED
  BY <1>1, <1>2, <1>3, <1>6, <1>7

LEMMA ReloadKeeps == Inv /\ BeginReload => Inv'
<1> SUFFICES ASSUME Inv, BeginReload PROVE Inv'
  OBVIOUS
<1> USE DEF Inv, BeginReload, stored, monitor
<1>1. TypeOK'
  BY DEF TypeOK
<1>2. LifeInv'
  BY DEF LifeInv, SetUp
<1>3. CountInv'
  BY DEF CountInv, MonitoredOnce, Running
<1>4. CurrentInv'
  BY DEF CurrentInv
<1>5. RegistryInv'
  BY DEF RegistryInv, SetUp
<1> QED
  BY <1>1, <1>2, <1>3, <1>4, <1>5

LEMMA UnloadKeeps == ASSUME NEW unloaded \in BOOLEAN PROVE Inv /\ UnloadPlatforms(unloaded) => Inv'
<1> SUFFICES ASSUME Inv, UnloadPlatforms(unloaded) PROVE Inv'
  OBVIOUS
<1> USE DEF Inv, UnloadPlatforms, Halt, stored
<1>0. state' \in {"stopping", "giving_up", "failed_unload"}
  OBVIOUS
<1>1. TypeOK'
  BY <1>0 DEF TypeOK
<1>2. LifeInv'
  BY <1>0 DEF LifeInv, SetUp
<1>3. CountInv'
  BY <1>0 DEF TypeOK, CountInv, MonitoredOnce, Running
<1>4. CurrentInv'
  BY <1>0 DEF CurrentInv
<1>5. RegistryInv'
  BY <1>0 DEF RegistryInv, SetUp
<1> QED
  BY <1>1, <1>2, <1>3, <1>4, <1>5

LEMMA StoppedKeeps == Inv /\ Stopped => Inv'
<1> SUFFICES ASSUME Inv, Stopped PROVE Inv'
  OBVIOUS
<1> USE DEF Inv, Stopped, stored, monitor
<1>1. TypeOK'
  BY DEF TypeOK
<1>2. LifeInv'
  BY DEF LifeInv, SetUp
<1>3. CountInv'
  BY DEF CountInv, MonitoredOnce, Running
<1>4. CurrentInv' /\ RegistryInv'
  BY DEF CurrentInv, RegistryInv, SetUp
<1> QED
  BY <1>1, <1>2, <1>3, <1>4

LEMMA DeathKeeps == Inv /\ SchedulerDies => Inv'
<1> SUFFICES ASSUME Inv, SchedulerDies PROVE Inv'
  OBVIOUS
<1> USE DEF Inv, SchedulerDies, stored
<1>1. TypeOK'
  <2>1. strays' \in Nat
    BY DEF TypeOK
  <2>2. alive' = FALSE \/ alive' = alive
    OBVIOUS
  <2>3. runtime' = runtime /\ alive \in BOOLEAN /\ (alive => runtime # None)
    BY DEF TypeOK
  <2>4. alive' \in BOOLEAN /\ (alive' => runtime' # None)
    <3>1. CASE alive' = FALSE
      BY <3>1
    <3>2. CASE alive' = alive
      <4>1. alive' \in BOOLEAN
        BY <2>3, <3>2
      <4>2. ASSUME alive' PROVE runtime' # None
        BY <2>3, <3>2, <4>2
      <4> QED
        BY <4>1, <4>2
    <3> QED
      BY <2>2, <3>1, <3>2
  <2> QED
    BY <2>1, <2>4 DEF TypeOK
<1>2. LifeInv'
  BY DEF LifeInv
<1>3. CountInv'
  BY DEF TypeOK, CountInv, MonitoredOnce, Running
<1>4. CurrentInv' /\ RegistryInv'
  BY DEF CurrentInv, RegistryInv
<1> QED
  BY <1>1, <1>2, <1>3, <1>4

LEMMA RestartKeeps == Inv /\ Restart => Inv'
<1> SUFFICES ASSUME Inv, Restart PROVE Inv'
  OBVIOUS
<1> USE DEF Inv, Restart, stored
<1>1. TypeOK'
  <2>1. alive' = FALSE /\ runtime' \in Options \cup {None} /\ restarts' \in Nat
    BY DEF TypeOK
  <2> QED
    BY <2>1 DEF TypeOK
<1>2. LifeInv' /\ CurrentInv'
  BY DEF LifeInv, CurrentInv, SetUp
<1>3. CountInv'
  BY DEF CountInv, MonitoredOnce, Running
<1>4. RegistryInv'
  BY DEF RegistryInv, SetUp
<1> QED
  BY <1>1, <1>2, <1>3, <1>4

LEMMA NextKeeps == Inv /\ [Next]_vars => Inv'
<1>1. Inv /\ UNCHANGED vars => Inv'
  BY DEF vars, stored, monitor, Inv, TypeOK, LifeInv, CountInv, MonitoredOnce, Running, CurrentInv, RegistryInv
<1> QED
  BY <1>1, StartSetupKeeps, FinishSetupKeeps, ForwardFailsKeeps, UpdateKeeps, ReloadKeeps, UnloadKeeps,
     StoppedKeeps, DeathKeeps, RestartKeeps DEF Next, Manager

LEMMA InitInv == Init => Inv
<1> SUFFICES ASSUME Init PROVE Inv
  OBVIOUS
<1> USE DEF Init
<1>1. TypeOK
  <2>1. alive = FALSE
    OBVIOUS
  <2> QED
    BY <2>1 DEF TypeOK
<1>2. LifeInv /\ CountInv
  BY DEF LifeInv, CountInv, MonitoredOnce, Running, SetUp
<1>3. CurrentInv /\ RegistryInv
  BY DEF CurrentInv, RegistryInv, SetUp
<1> QED
  BY <1>1, <1>2, <1>3 DEF Inv

----------------------------------------------------------------------------
\* The invariant the others follow from.
THEOREM Inductive == Spec => []Inv
  BY InitInv, NextKeeps, PTL DEF Spec

\* Every variable keeps its type, and no scheduler of the entry runs without
\* its runtime.
THEOREM TypeCorrect == Spec => []TypeOK
<1>1. Inv => TypeOK
  BY DEF Inv
<1> QED
  BY <1>1, Inductive, PTL

\* Only setups that failed leave a scheduler behind.
THEOREM MonitorsOnce == Spec => []MonitoredOnce
<1>1. Inv => MonitoredOnce
  BY DEF Inv, CountInv
<1> QED
  BY <1>1, Inductive, PTL

\* No update of the options is lost on a loaded entry.
THEOREM UpdatesTakeEffect == Spec => []RunsOnOptions
<1>1. Inv => RunsOnOptions
  BY DEF Inv, CurrentInv, RunsOnOptions
<1> QED
  BY <1>1, Inductive, PTL

\* Entities of removed plates survive only when the removal met a setup or no
\* runtime.
THEOREM OrphansAreExplained == Spec => []OrphansExplained
<1>1. Inv => OrphansExplained
  BY DEF Inv, RegistryInv, OrphansExplained
<1> QED
  BY <1>1, Inductive, PTL

----------------------------------------------------------------------------
(* The promise of Reconciliation, action by action *)

LEMMA RuntimeInForce ==
  ASSUME TypeOK, LifeInv
  PROVE  /\ InForce = None <=> state \notin SetUp
         /\ waiting \in Nat /\ listeners \in Nat /\ ReloadDue \in BOOLEAN
         /\ state \in SetUp => listeners > 0 /\ Heard
  BY DEF TypeOK, LifeInv, InForce, ReloadDue, Heard

LEMMA StartSetupAdopts ==
  ASSUME TypeOK, LifeInv, StartSetup
  PROVE  Reconciler!Adopt
<1>1. InForce = None /\ InForce' = options /\ options' = options
  BY DEF StartSetup, InForce, SetUp, stored
<1>2. ReloadDue' = ReloadDue
  BY DEF StartSetup, ReloadDue, stored
<1> QED
  BY <1>1, <1>2 DEF Reconciler!Adopt

LEMMA UpdateIsOwed ==
  ASSUME TypeOK, LifeInv, NEW new \in Options, UpdateOptions(new)
  PROVE  Reconciler!Update(new)
<1>1. /\ new # options /\ options' = new
      /\ InForce' = InForce
  BY DEF UpdateOptions, InForce, monitor
<1>2. state' = state /\ waiting' = (IF Heard THEN waiting + listeners ELSE waiting)
  BY DEF UpdateOptions
<1>3. waiting \in Nat /\ listeners \in Nat
  BY RuntimeInForce
<1>4. ReloadDue' \in {ReloadDue, TRUE}
  <2>1. waiting > 0 => waiting' > 0
    BY <1>2, <1>3
  <2>2. ReloadDue => ReloadDue'
    BY <1>2, <2>1 DEF ReloadDue
  <2>3. ReloadDue \in BOOLEAN /\ ReloadDue' \in BOOLEAN
    BY DEF ReloadDue
  <2> QED
    BY <2>2, <2>3
<1>5. ASSUME InForce # None PROVE ReloadDue'
  <2>1. Heard /\ listeners > 0
    BY <1>5, RuntimeInForce
  <2> QED
    BY <1>2, <1>3, <2>1 DEF ReloadDue
<1> QED
  BY <1>1, <1>4, <1>5 DEF Reconciler!Update

\* A reload of a loaded entry is still owed while it unloads; one of an entry
\* whose setup failed withdraws what is left of it.
LEMMA ReloadWithdraws ==
  ASSUME TypeOK, LifeInv, BeginReload
  PROVE  Reconciler!Withdraw \/ Reconciler!Excuse \/ UNCHANGED Reconciler!vars
<1>0. /\ options' = options /\ runtime' = runtime
      /\ ReloadDue \in BOOLEAN /\ ReloadDue' \in BOOLEAN /\ ReloadDue
  BY DEF BeginReload, stored, monitor, ReloadDue, TypeOK
<1>1. CASE state = "loaded" /\ state' = "unloading"
  <2>1. InForce' = InForce /\ ReloadDue'
    BY <1>0, <1>1 DEF InForce, SetUp, ReloadDue
  <2> QED
    BY <1>0, <2>1 DEF Reconciler!vars
<1>2. CASE state = "setup_error" /\ state' = "not_loaded"
  <2>1. InForce # None /\ InForce' = None
    BY <1>2, RuntimeInForce DEF InForce, SetUp
  <2> QED
    BY <1>0, <2>1 DEF Reconciler!Withdraw
<1>3. CASE state = "failed_unload" /\ UNCHANGED state
  <2>1. InForce = None /\ InForce' = None
    BY <1>3 DEF InForce, SetUp
  <2>2. ReloadDue' = FALSE \/ ReloadDue' = ReloadDue
    BY <1>0
  <2> QED
    BY <1>0, <2>1, <2>2 DEF Reconciler!Excuse, Reconciler!vars
<1> QED
  BY <1>1, <1>2, <1>3 DEF BeginReload

LEMMA UnloadWithdraws ==
  ASSUME TypeOK, LifeInv, NEW unloaded \in BOOLEAN, UnloadPlatforms(unloaded)
  PROVE  Reconciler!Withdraw
<1>1. state = "unloading" /\ state' \in {"stopping", "giving_up", "failed_unload"} /\ options' = options
  BY DEF UnloadPlatforms, stored
<1>2. InForce # None /\ InForce' = None
  BY <1>1, RuntimeInForce DEF InForce, SetUp
<1>3. ReloadDue' \in BOOLEAN
  BY DEF ReloadDue
<1> QED
  BY <1>1, <1>2, <1>3 DEF Reconciler!Withdraw

LEMMA RestartWithdraws ==
  ASSUME TypeOK, LifeInv, Restart
  PROVE  Reconciler!Withdraw \/ Reconciler!Excuse \/ UNCHANGED Reconciler!vars
<1>1. InForce' = None /\ ReloadDue' = FALSE /\ options' = options
  BY DEF Restart, InForce, SetUp, ReloadDue, stored
<1>2. ReloadDue \in BOOLEAN
  BY RuntimeInForce
<1>3. CASE InForce # None
  BY <1>1, <1>3 DEF Reconciler!Withdraw
<1>4. CASE InForce = None /\ ReloadDue
  BY <1>1, <1>4 DEF Reconciler!Excuse
<1>5. CASE InForce = None /\ ~ReloadDue
  BY <1>1, <1>2, <1>5 DEF Reconciler!vars
<1> QED
  BY <1>3, <1>4, <1>5

\* What the other steps change is not seen: the platforms' part of a setup,
\* the end of a stop, the end of a scheduler's task.
LEMMA OthersStutter ==
  ASSUME FinishSetup \/ ForwardFails \/ Stopped \/ SchedulerDies
  PROVE  UNCHANGED Reconciler!vars
<1>1. options' = options
  BY DEF FinishSetup, ForwardFails, Stopped, SchedulerDies, stored
<1>2. InForce' = InForce
  BY DEF FinishSetup, ForwardFails, Stopped, SchedulerDies, InForce, SetUp, monitor
<1>3. ReloadDue' = ReloadDue
  BY DEF FinishSetup, ForwardFails, Stopped, SchedulerDies, ReloadDue
<1> QED
  BY <1>1, <1>2, <1>3 DEF Reconciler!vars

LEMMA StepReconciles == Inv /\ [Next]_vars => [Reconciler!Next]_(Reconciler!vars)
<1> SUFFICES ASSUME Inv, [Next]_vars PROVE [Reconciler!Next]_(Reconciler!vars)
  OBVIOUS
<1> USE DEF Reconciler!Next
<1>0. TypeOK /\ LifeInv
  BY DEF Inv
<1>1. CASE StartSetup
  BY <1>0, <1>1, StartSetupAdopts
<1>2. ASSUME NEW new \in Options, UpdateOptions(new) PROVE Reconciler!Next
  BY <1>0, <1>2, UpdateIsOwed
<1>3. CASE BeginReload
  BY <1>0, <1>3, ReloadWithdraws
<1>4. ASSUME NEW unloaded \in BOOLEAN, UnloadPlatforms(unloaded) PROVE Reconciler!Next
  BY <1>0, <1>4, UnloadWithdraws
<1>5. CASE Restart
  BY <1>0, <1>5, RestartWithdraws
<1>6. CASE FinishSetup \/ ForwardFails \/ Stopped \/ SchedulerDies
  BY <1>6, OthersStutter
<1>7. CASE UNCHANGED vars
  BY <1>7 DEF vars, stored, monitor, Reconciler!vars, InForce, ReloadDue
<1> QED
  BY <1>1, <1>2, <1>3, <1>4, <1>5, <1>6, <1>7 DEF Next, Manager

\* The entry implements Reconciliation: it is set up on the options of that
\* moment, never changes what it runs on, and owes a reload from the moment the
\* options differ.
THEOREM OptionsAreReconciled == Spec => Reconciles
<1>1. Init => Reconciler!Init
  BY DEF Init, Reconciler!Init, InForce, SetUp, ReloadDue
<1> QED
  BY <1>1, StepReconciles, Inductive, PTL DEF Spec, Reconciles, Reconciler!Spec

\* What follows from the promise alone: an entry that is set up, also one whose
\* platforms failed, runs on the options unless a reload is owed.
THEOREM OutdatedOwesReload == Reconciles => []Reconciler!Reconciled
<1>1. Reconciler!Init => Reconciler!Reconciled
  BY DEF Reconciler!Init, Reconciler!Reconciled
<1>2. Reconciler!Reconciled /\ [Reconciler!Next]_(Reconciler!vars) => Reconciler!Reconciled'
  BY DEF Reconciler!Reconciled, Reconciler!Next, Reconciler!vars, Reconciler!Update, Reconciler!Adopt,
         Reconciler!Withdraw, Reconciler!Excuse
<1> QED
  BY <1>1, <1>2, PTL DEF Reconciles, Reconciler!Spec
=============================================================================
