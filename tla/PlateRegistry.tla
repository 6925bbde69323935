---------------------------- MODULE PlateRegistry ----------------------------
(***************************************************************************)
(* What the options flow promises the rest of the integration, without     *)
(* dialogs, forms or positions in a list: a registry of plates, in which   *)
(* one plate at a time is entered, gets new settings or is taken out.      *)
(***************************************************************************)
CONSTANTS
  Identifiers,  \* normalized plates
  Settings      \* what can be scheduled for a plate

VARIABLE registry  \* the settings of each plate that is monitored

Init == registry = [p \in {} |-> {}]

\* A plate is entered once; it cannot take the place of another one.
Enter(p, settings) ==
  /\ p \notin DOMAIN registry
  /\ registry' = [q \in DOMAIN registry \cup {p} |-> IF q = p THEN settings ELSE registry[q]]

Change(p, settings) ==
  /\ p \in DOMAIN registry
  /\ registry' = [registry EXCEPT ![p] = settings]

TakeOut(p) ==
  /\ p \in DOMAIN registry
  /\ registry' = [q \in DOMAIN registry \ {p} |-> registry[q]]

Next ==
  \E p \in Identifiers :
    \/ \E settings \in Settings : Enter(p, settings) \/ Change(p, settings)
    \/ TakeOut(p)

Spec == Init /\ [][Next]_registry

\* What is promised to the setup of an entry: some plates, each with settings
\* that can be scheduled.
Schedulable == registry \in UNION {[S -> Settings] : S \in SUBSET Identifiers}
=============================================================================
