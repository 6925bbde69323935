----------------------------- MODULE OptionsFlow -----------------------------
(***************************************************************************)
(* The options flow (config_flow.py): several dialogs open over the list   *)
(* of plate records in the options of one entry.  A flow reads the list    *)
(* when it shows a form and again when the form is submitted; Home         *)
(* Assistant checks what is submitted against the form as it was shown and *)
(* stores the new list before anything else runs.                          *)
(***************************************************************************)
EXTENDS Integers

CONSTANTS
  Flows,        \* dialogs that may be open at the same time
  Identifiers,  \* normalized plates
  Empty,        \* what is left of a plate without letters and digits
  Spellings,    \* what users type for a plate
  Normalized,   \* normalize_plate on them
  Providers,    \* PROVIDERS
  Halves,       \* frequencies users enter, in half minutes: a number box takes 1.5
  MaxAdditions  \* bound: additions stop after this many

ASSUME SpellingAssumption ==
  Empty \notin Identifiers /\ Normalized \in [Spellings -> Identifiers \cup {Empty}]
ASSUME FrequencyAssumption == Halves \subseteq Int /\ MaxAdditions \in Nat

\* A submitted form, after its defaults are filled in.
Form == [plate : Spellings, halves : Halves, providers : SUBSET Providers]

VARIABLES
  plates,    \* entry.options[PLATES]: the list, as a function of the number of the
             \* addition that appended the record, so that removals leave gaps
  additions, \* how many records were appended so far
  step,      \* the form each flow shows, "closed" when it is not open
  offered,   \* the plates the selection form of each flow offers
  selected   \* self._selected_plate

vars == <<plates, additions, step, offered, selected>>

IdentifiersOf(list) == {list[i].identifier : i \in DOMAIN list}

----------------------------------------------------------------------------
(* _validate_record *)

\* Mutant: what int() makes of the number is not looked at.
FrequencyPositive(halves) == halves > 0

FrequencyValid(halves) == halves % 2 = 0 /\ halves \div 2 >= 1

\* Mutant: the frequency is stored as it was entered.
RecordAsEntered(form, identifier) ==
  [identifier |-> identifier,
   frequency  |-> form.halves,
   providers  |-> form.providers]

RecordOf(form, identifier) ==
  [identifier |-> identifier,
   frequency  |-> form.halves \div 2,
   providers  |-> form.providers]

Validates(form, identifier) ==
  identifier # Empty /\ FrequencyValid(form.halves) /\ form.providers # {}

\* Mutant: duplicates are looked for as they are spelled.
DuplicateSpelling(form) == form.plate \in IdentifiersOf(plates)

\* The duplicate test of async_step_add.
Duplicate(form) == Normalized[form.plate] \in IdentifiersOf(plates)

\* Mutants: the plate the field of the form says is replaced along with the
\* edited one; the record takes its identifier from that field.
ReplacedAlong(identifier, form) ==
  [i \in DOMAIN plates |-> IF plates[i].identifier \in {identifier, Normalized[form.plate]}
                             THEN RecordOf(form, plates[i].identifier) ELSE plates[i]]
ReplacedByField(identifier, form) ==
  [i \in DOMAIN plates |-> IF plates[i].identifier = identifier
                             THEN RecordOf(form, Normalized[form.plate]) ELSE plates[i]]

\* The list with the record of one plate replaced: the plate in the form is ignored.
Replaced(identifier, form) ==
  [i \in DOMAIN plates |-> IF plates[i].identifier = identifier
                             THEN RecordOf(form, identifier) ELSE plates[i]]

----------------------------------------------------------------------------
(* The steps of a flow *)

Show(f, form) ==
  /\ step' = [step EXCEPT ![f] = form]
  /\ offered' = [offered EXCEPT ![f] =
       IF form \in {"select_edit", "select_remove"} THEN IdentifiersOf(plates) ELSE {}]

\* async_create_entry: the flow is over and the options are replaced.
Finish(f, list) == plates' = list /\ Show(f, "closed")

\* A dialog is opened, or closed by its user.
Open(f) ==
  /\ step[f] = "closed" /\ Show(f, "init")
  /\ selected' = [selected EXCEPT ![f] = Empty]
  /\ UNCHANGED <<plates, additions>>

Abandon(f) ==
  /\ step[f] # "closed" /\ Show(f, "closed")
  /\ UNCHANGED <<plates, additions, selected>>

\* async_step_init: there is nothing to edit or remove in an empty list.
ChooseOperation(f, form) ==
  /\ step[f] = "init"
  /\ form = "add" \/ (form \in {"select_edit", "select_remove"} /\ DOMAIN plates # {})
  /\ Show(f, form)
  /\ UNCHANGED <<plates, additions, selected>>

\* async_step_add, accepted; otherwise the same form is shown with errors.
Add(f, form) ==
  LET identifier == Normalized[form.plate] IN
  /\ step[f] = "add" /\ additions < MaxAdditions
  /\ Validates(form, identifier) /\ ~Duplicate(form)
  /\ additions' = additions + 1
  /\ Finish(f, [i \in DOMAIN plates \cup {additions'} |->
                  IF i = additions' THEN RecordOf(form, identifier) ELSE plates[i]])
  /\ UNCHANGED selected

\* async_step_select_edit.  When the plate was removed meanwhile, looking it
\* up raises: the choice is kept and the flow stays where it is.
SelectEdit(f, identifier) ==
  /\ step[f] = "select_edit" /\ identifier \in offered[f]
  /\ selected' = [selected EXCEPT ![f] = identifier]
  /\ IF identifier \in IdentifiersOf(plates) THEN Show(f, "edit") ELSE UNCHANGED <<step, offered>>
  /\ UNCHANGED <<plates, additions>>

\* async_step_edit, accepted.  Looking up a plate that was removed raises and
\* changes nothing.
Edit(f, form) ==
  /\ step[f] = "edit" /\ selected[f] \in IdentifiersOf(plates)
  /\ Validates(form, selected[f])
  /\ Finish(f, Replaced(selected[f], form))
  /\ UNCHANGED <<additions, selected>>

\* async_step_select_remove: removing a plate that is gone changes nothing.
Remove(f, identifier) ==
  /\ step[f] = "select_remove" /\ identifier \in offered[f]
  /\ Finish(f, [i \in {j \in DOMAIN plates : plates[j].identifier # identifier} |-> plates[i]])
  /\ UNCHANGED <<additions, selected>>

Init ==
  /\ plates = [i \in {} |-> {}] /\ additions = 0
  /\ step = [f \in Flows |-> "closed"]
  /\ offered = [f \in Flows |-> {}]
  /\ selected = [f \in Flows |-> Empty]

Next ==
  \E f \in Flows :
    \/ Open(f)
    \/ Abandon(f)
    \/ \E form \in {"add", "select_edit", "select_remove"} : ChooseOperation(f, form)
    \/ \E form \in Form : Add(f, form) \/ Edit(f, form)
    \/ \E identifier \in Identifiers : SelectEdit(f, identifier) \/ Remove(f, identifier)

Spec == Init /\ [][Next]_vars

----------------------------------------------------------------------------
(* Properties *)

Record == [identifier : Identifiers, frequency : Nat \ {0}, providers : (SUBSET Providers) \ {{}}]

\* Type invariant; whatever is stored can be scheduled: a plate with letters,
\* a whole number of minutes, a provider at least.
TypeOK ==
  /\ additions \in Nat
  /\ DOMAIN plates \subseteq 1..additions
  /\ \A i \in DOMAIN plates : plates[i] \in Record
  /\ step \in [Flows -> {"closed", "init", "add", "select_edit", "edit", "select_remove"}]
  /\ offered \in [Flows -> SUBSET Identifiers]
  /\ selected \in [Flows -> Identifiers \cup {Empty}]

\* A plate is in the list once, however it is spelled and however many
\* dialogs add it: its identifier is the key of its jobs, sessions and
\* entities.
IdentifiersUnique ==
  \A i, j \in DOMAIN plates : plates[i].identifier = plates[j].identifier => i = j

Kept(i) == i \in DOMAIN plates' /\ plates'[i] = plates[i]

\* No dialog undoes another one: a submission, from however old a form,
\* changes or removes one record at most and appends only to a list it leaves
\* as it is.
OthersKept ==
  [][/\ \A i, j \in DOMAIN plates : i = j \/ Kept(i) \/ Kept(j)
     /\ DOMAIN plates' \subseteq DOMAIN plates \/ \A i \in DOMAIN plates : Kept(i)]_vars

\* "Without changing their identity": only the addition of a plate brings an
\* identifier into the list, and a record keeps the one it was added with.  A
\* plate that was removed stays removed, whoever is still editing it.
IdentityStable ==
  [][/\ \A i \in DOMAIN plates \cap DOMAIN plates' : plates'[i].identifier = plates[i].identifier
     /\ \/ IdentifiersOf(plates') \subseteq IdentifiersOf(plates)
        \/ \E f \in Flows : step[f] = "add" /\ step'[f] = "closed"]_vars

\* The dict the runtime makes of the list: the last record of a plate counts.
LastOf(list, identifier) ==
  CHOOSE i \in DOMAIN list :
    /\ list[i].identifier = identifier
    /\ \A j \in DOMAIN list : list[j].identifier = identifier => j <= i
SettingsOf(record) == [frequency |-> record.frequency, providers |-> record.providers]
DictOf(list) ==
  [identifier \in IdentifiersOf(list) |-> SettingsOf(list[LastOf(list, identifier)])]

Settings == [frequency : {h \div 2 : h \in {g \in Halves : FrequencyValid(g)}},
             providers : (SUBSET Providers) \ {{}}]

\* The promise of PlateRegistry: dialogs that read the list when they show a
\* form and write it when the form comes back act, as far as the runtime's
\* dict shows, in single steps that concern one plate.
Registry == INSTANCE PlateRegistry WITH registry <- DictOf(plates)
KeepsRegistry == Registry!Spec
=============================================================================
