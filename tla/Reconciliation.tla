---------------------------- MODULE Reconciliation ----------------------------
(***************************************************************************)
(* What the life of an entry promises the user who changes its options,    *)
(* without states of the entry, locks or counts of reloads: what the entry *)
(* runs on is taken from the options as they are and never changed while   *)
(* it runs, and once it is out of date a reload is owed.                   *)
(***************************************************************************)
CONSTANTS
  Options,
  None      \* the entry runs on nothing

VARIABLES
  wanted,   \* the options
  inForce,  \* what a set-up entry runs on
  due       \* a reload is owed or under way

vars == <<wanted, inForce, due>>

Init == wanted \in Options /\ inForce = None /\ due = FALSE

\* The user changes the options.  An entry that runs on something then owes a
\* reload; otherwise the next setup sees the options anyway.
Update(new) ==
  /\ new # wanted /\ wanted' = new
  /\ due' \in {due, TRUE} /\ (inForce # None => due')
  /\ UNCHANGED inForce

\* The entry is set up on the options of this moment.
Adopt ==
  /\ inForce = None /\ inForce' = wanted
  /\ UNCHANGED <<wanted, due>>

\* What is in force goes, by a reload (of which more may be owed) or when
\* Home Assistant stops.
Withdraw ==
  /\ inForce # None /\ inForce' = None
  /\ due' \in BOOLEAN
  /\ UNCHANGED wanted

\* Of an entry that runs on nothing nothing is owed: a reload is refused or
\* Home Assistant stops.
Excuse ==
  /\ inForce = None /\ due /\ due' = FALSE
  /\ UNCHANGED <<wanted, inForce>>

Next ==
  \/ \E new \in Options : Update(new)
  \/ Adopt \/ Withdraw \/ Excuse

Spec == Init /\ [][Next]_vars

\* Unless a reload is owed the entry runs on the options.
Reconciled == inForce # None /\ ~due => inForce = wanted
=============================================================================
