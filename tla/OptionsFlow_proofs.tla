------------------------- MODULE OptionsFlow_proofs -------------------------
(***************************************************************************)
(* The list of plates stays well formed for any number of dialogs, plates, *)
(* spellings and providers.                                                *)
(***************************************************************************)
EXTENDS OptionsFlow, TLAPS

\* A form that validates gives a record that can be stored.
LEMMA ValidRecord ==
  ASSUME NEW form \in Form, NEW identifier \in Identifiers \cup {Empty},
         Validates(form, identifier)
  PROVE  RecordOf(form, identifier) \in Record /\ RecordOf(form, identifier).identifier = identifier
<1>1. form.halves \in Int /\ form.providers \in SUBSET Providers
  BY FrequencyAssumption DEF Form
<1>2. form.halves \div 2 \in Nat \ {0}
  BY <1>1 DEF Validates, FrequencyValid
<1>3. identifier \in Identifiers /\ form.providers # {}
  BY DEF Validates
<1>4. form.providers \in (SUBSET Providers) \ {{}}
  BY <1>1, <1>3
<1> QED BY <1>2, <1>3, <1>4 DEF RecordOf, Record

\* What a flow offers for selection are plates.
LEMMA ShowTypes ==
  ASSUME TypeOK, NEW f \in Flows,
         NEW form \in {"closed", "init", "add", "select_edit", "edit", "select_remove"}, Show(f, form)
  PROVE  /\ step' \in [Flows -> {"closed", "init", "add", "select_edit", "edit", "select_remove"}]
         /\ offered' \in [Flows -> SUBSET Identifiers]
         /\ step'[f] = form
<1>1. IdentifiersOf(plates) \subseteq Identifiers
  BY DEF TypeOK, IdentifiersOf, Record
<1> QED BY <1>1 DEF TypeOK, Show

\* An addition puts one new plate behind the others and leaves them alone.
LEMMA AddEffect ==
  ASSUME TypeOK, NEW f \in Flows, NEW form \in Form, Add(f, form)
  PROVE  /\ additions' = additions + 1
         /\ additions' \notin DOMAIN plates
         /\ DOMAIN plates' = DOMAIN plates \cup {additions'}
         /\ \A i \in DOMAIN plates : plates'[i] = plates[i]
         /\ plates'[additions'] \in Record
         /\ plates'[additions'].identifier \notin IdentifiersOf(plates)
         /\ step[f] = "add" /\ step'[f] = "closed"
<1> DEFINE identifier == Normalized[form.plate]
<1>1. identifier \in Identifiers \cup {Empty}
  BY SpellingAssumption DEF Form
<1>2. /\ RecordOf(form, identifier) \in Record
      /\ RecordOf(form, identifier).identifier = identifier
      /\ identifier \notin IdentifiersOf(plates)
  <2>1. Validates(form, identifier) /\ identifier \notin IdentifiersOf(plates)
    BY DEF Add, Duplicate
  <2> QED BY <1>1, <2>1, ValidRecord
<1>3. additions' = additions + 1 /\ additions' \notin DOMAIN plates
  BY DEF Add, TypeOK
<1>4. plates' = [i \in DOMAIN plates \cup {additions'} |->
                   IF i = additions' THEN RecordOf(form, identifier) ELSE plates[i]]
  BY DEF Add, Finish
<1>5. step[f] = "add" /\ step'[f] = "closed"
  BY ShowTypes DEF Add, Finish
<1> QED BY <1>2, <1>3, <1>4, <1>5

\* An edit replaces the records of the selected plate and renames none.
LEMMA EditEffect ==
  ASSUME TypeOK, NEW f \in Flows, NEW form \in Form, Edit(f, form)
  PROVE  /\ DOMAIN plates' = DOMAIN plates
         /\ \A i \in DOMAIN plates :
              /\ plates'[i] \in Record
              /\ plates'[i].identifier = plates[i].identifier
              /\ plates'[i] = plates[i] \/ plates[i].identifier = selected[f]
<1>1. /\ RecordOf(form, selected[f]) \in Record
      /\ RecordOf(form, selected[f]).identifier = selected[f]
  BY ValidRecord DEF TypeOK, Edit
<1>2. plates' = [i \in DOMAIN plates |->
        IF plates[i].identifier = selected[f] THEN RecordOf(form, selected[f]) ELSE plates[i]]
  BY DEF Edit, Finish, Replaced
<1> QED BY <1>1, <1>2 DEF TypeOK

\* A removal takes the records of the chosen plate out of the list.
LEMMA RemoveEffect ==
  ASSUME NEW f \in Flows, NEW identifier \in Identifiers, Remove(f, identifier)
  PROVE  /\ DOMAIN plates' \subseteq DOMAIN plates
         /\ \A i \in DOMAIN plates' : plates'[i] = plates[i]
         /\ \A i \in DOMAIN plates : i \in DOMAIN plates' \/ plates[i].identifier = identifier
BY DEF Remove, Finish

\* The other steps of a dialog do not touch the list.
LEMMA OtherSteps ==
  ASSUME Next
  PROVE  \/ UNCHANGED plates
         \/ \E f \in Flows, form \in Form : Add(f, form)
         \/ \E f \in Flows, form \in Form : Edit(f, form)
         \/ \E f \in Flows, identifier \in Identifiers : Remove(f, identifier)
BY DEF Next, Open, Abandon, ChooseOperation, SelectEdit

\* Every step keeps the types.
LEMMA TypeStep ==
  ASSUME TypeOK, [Next]_vars
  PROVE  TypeOK'
<1>1. CASE UNCHANGED vars
  BY <1>1 DEF TypeOK, vars
<1>2. ASSUME NEW f \in Flows, Open(f)
      PROVE  TypeOK'
  BY <1>2, ShowTypes DEF Open, TypeOK
<1>3. ASSUME NEW f \in Flows, Abandon(f)
      PROVE  TypeOK'
  BY <1>3, ShowTypes DEF Abandon, TypeOK
<1>4. ASSUME NEW f \in Flows, NEW form \in {"add", "select_edit", "select_remove"},
             ChooseOperation(f, form)
      PROVE  TypeOK'
  BY <1>4, ShowTypes DEF ChooseOperation, TypeOK
<1>5. ASSUME NEW f \in Flows, NEW identifier \in Identifiers, SelectEdit(f, identifier)
      PROVE  TypeOK'
  BY <1>5, ShowTypes DEF SelectEdit, TypeOK
<1>6. ASSUME NEW f \in Flows, NEW identifier \in Identifiers, Remove(f, identifier)
      PROVE  TypeOK'
  <2>1. DOMAIN plates' \subseteq 1..additions' /\ \A i \in DOMAIN plates' : plates'[i] \in Record
    BY <1>6, RemoveEffect DEF TypeOK, Remove
  <2> QED BY <1>6, <2>1, ShowTypes DEF Remove, Finish, TypeOK
<1>7. ASSUME NEW f \in Flows, NEW form \in Form, Edit(f, form)
      PROVE  TypeOK'
  <2>1. DOMAIN plates' \subseteq 1..additions' /\ \A i \in DOMAIN plates' : plates'[i] \in Record
    BY <1>7, EditEffect DEF TypeOK, Edit
  <2> QED BY <1>7, <2>1, ShowTypes DEF Edit, Finish, TypeOK
<1>8. ASSUME NEW f \in Flows, NEW form \in Form, Add(f, form)
      PROVE  TypeOK'
  <2>1. additions' \in Nat /\ DOMAIN plates' \subseteq 1..additions'
    BY <1>8, AddEffect DEF TypeOK
  <2>2. \A i \in DOMAIN plates' : plates'[i] \in Record
    BY <1>8, AddEffect DEF TypeOK
  <2> QED BY <1>8, <2>1, <2>2, ShowTypes DEF Add, Finish, TypeOK
<1> QED BY <1>1, <1>2, <1>3, <1>4, <1>5, <1>6, <1>7, <1>8 DEF Next

\* No step brings a plate into the list twice.
LEMMA UniqueStep ==
  ASSUME TypeOK, IdentifiersUnique, [Next]_vars
  PROVE  IdentifiersUnique'
<1>1. CASE UNCHANGED plates
  BY <1>1 DEF IdentifiersUnique
<1>2. ASSUME NEW f \in Flows, NEW form \in Form, Add(f, form)
      PROVE  IdentifiersUnique'
  <2>1. \A i \in DOMAIN plates : plates[i].identifier # plates'[additions'].identifier
    BY <1>2, AddEffect DEF IdentifiersOf
  <2> QED BY <1>2, <2>1, AddEffect DEF IdentifiersUnique
<1>3. ASSUME NEW f \in Flows, NEW form \in Form, Edit(f, form)
      PROVE  IdentifiersUnique'
  BY <1>3, EditEffect DEF IdentifiersUnique
<1>4. ASSUME NEW f \in Flows, NEW identifier \in Identifiers, Remove(f, identifier)
      PROVE  IdentifiersUnique'
  BY <1>4, RemoveEffect DEF IdentifiersUnique
<1> QED BY <1>1, <1>2, <1>3, <1>4, OtherSteps DEF vars

\* The invariant: uniqueness needs the positions TypeOK keeps free.
LEMMA Invariant == Spec => [](TypeOK /\ IdentifiersUnique)
<1>1. Init => TypeOK /\ IdentifiersUnique
  BY DEF Init, TypeOK, IdentifiersUnique
<1> QED BY <1>1, TypeStep, UniqueStep, PTL DEF Spec

\* What is stored can always be scheduled.
THEOREM TypeCorrect == Spec => []TypeOK
BY Invariant, PTL

\* A plate is in the list once, for any number of dialogs and spellings.
THEOREM PlatesAreUnique == Spec => []IdentifiersUnique
BY Invariant, PTL

\* No dialog undoes what another one stored.
THEOREM NothingIsUndone == Spec => OthersKept
<1> DEFINE Step == /\ \A i, j \in DOMAIN plates : i = j \/ Kept(i) \/ Kept(j)
                   /\ DOMAIN plates' \subseteq DOMAIN plates \/ \A i \in DOMAIN plates : Kept(i)
<1>1. TypeOK /\ IdentifiersUnique /\ [Next]_vars => [Step]_vars
  <2> SUFFICES ASSUME TypeOK, IdentifiersUnique, Next PROVE Step
    OBVIOUS
  <2>1. CASE UNCHANGED plates
    BY <2>1 DEF Kept
  <2>2. ASSUME NEW f \in Flows, NEW form \in Form, Add(f, form)
        PROVE  Step
    BY <2>2, AddEffect DEF Kept
  <2>3. ASSUME NEW f \in Flows, NEW form \in Form, Edit(f, form)
        PROVE  Step
    <3>1. /\ DOMAIN plates' = DOMAIN plates
          /\ \A i \in DOMAIN plates : Kept(i) \/ plates[i].identifier = selected[f]
      BY <2>3, EditEffect DEF Kept
    <3> QED BY <3>1 DEF IdentifiersUnique
  <2>4. ASSUME NEW f \in Flows, NEW identifier \in Identifiers, Remove(f, identifier)
        PROVE  Step
    <3>1. /\ DOMAIN plates' \subseteq DOMAIN plates
          /\ \A i \in DOMAIN plates : Kept(i) \/ plates[i].identifier = identifier
      BY <2>4, RemoveEffect DEF Kept
    <3> QED BY <3>1 DEF IdentifiersUnique
  <2> QED BY <2>1, <2>2, <2>3, <2>4, OtherSteps
<1> QED BY <1>1, Invariant, PTL DEF Spec, Step, OthersKept

\* Identifiers come into the list by additions only and never change.
THEOREM IdentityIsStable == Spec => IdentityStable
<1> DEFINE Step ==
      /\ \A i \in DOMAIN plates \cap DOMAIN plates' : plates'[i].identifier = plates[i].identifier
      /\ \/ IdentifiersOf(plates') \subseteq IdentifiersOf(plates)
         \/ \E f \in Flows : step[f] = "add" /\ step'[f] = "closed"
<1>1. TypeOK /\ [Next]_vars => [Step]_vars
  <2> SUFFICES ASSUME TypeOK, Next PROVE Step
    OBVIOUS
  <2>1. CASE UNCHANGED plates
    BY <2>1
  <2>2. ASSUME NEW f \in Flows, NEW form \in Form, Add(f, form)
        PROVE  Step
    BY <2>2, AddEffect
  <2>3. ASSUME NEW f \in Flows, NEW form \in Form, Edit(f, form)
        PROVE  Step
    BY <2>3, EditEffect DEF IdentifiersOf
  <2>4. ASSUME NEW f \in Flows, NEW identifier \in Identifiers, Remove(f, identifier)
        PROVE  Step
    BY <2>4, RemoveEffect DEF IdentifiersOf
  <2> QED BY <2>1, <2>2, <2>3, <2>4, OtherSteps
<1> QED BY <1>1, Invariant, PTL DEF Spec, Step, IdentityStable

----------------------------------------------------------------------------
(* OptionsFlow implements PlateRegistry *)

\* In a list without duplicates the dict has each record's settings.
LEMMA DictEntry ==
  ASSUME NEW list, DOMAIN list \subseteq Nat, NEW i \in DOMAIN list,
         \A j, k \in DOMAIN list : list[j].identifier = list[k].identifier => j = k
  PROVE  DictOf(list)[list[i].identifier] = SettingsOf(list[i])
<1> DEFINE identifier == list[i].identifier
           Last(j) == /\ list[j].identifier = identifier
                      /\ \A k \in DOMAIN list : list[k].identifier = identifier => k <= j
<1>1. identifier \in IdentifiersOf(list)
  BY DEF IdentifiersOf
<1>2. Last(i)
  OBVIOUS
<1>3. \A j \in DOMAIN list : Last(j) => j = i
  OBVIOUS
<1>4. LastOf(list, identifier) = i
  <2>1. LastOf(list, identifier) = CHOOSE j \in DOMAIN list : Last(j)
    BY DEF LastOf
  <2> HIDE DEF Last
  <2> QED BY <1>2, <1>3, <2>1
<1> HIDE DEF identifier
<1> QED BY <1>1, <1>4 DEF DictOf, identifier

\* What a form that validates gives can be scheduled.
LEMMA ValidSettings ==
  ASSUME NEW form \in Form, NEW identifier, Validates(form, identifier)
  PROVE  SettingsOf(RecordOf(form, identifier)) \in Settings
  BY DEF Form, Validates, SettingsOf, RecordOf, Settings

\* An addition enters its plate.
LEMMA AddRefines ==
  ASSUME TypeOK, TypeOK', IdentifiersUnique, IdentifiersUnique',
         NEW f \in Flows, NEW form \in Form, Add(f, form)
  PROVE  \E p \in Identifiers, settings \in Settings : Registry!Enter(p, settings)
<1> DEFINE p == Normalized[form.plate]
           record == RecordOf(form, p)
           settings == SettingsOf(record)
<1>1. /\ p \in Identifiers /\ settings \in Settings /\ p \notin IdentifiersOf(plates)
      /\ plates'[additions'] = record /\ record.identifier = p
  <2>1. Validates(form, p) /\ ~Duplicate(form) /\ p \in Identifiers \cup {Empty}
    BY SpellingAssumption DEF Add, Form
  <2>2. plates'[additions'] = record
    BY DEF Add, Finish
  <2> QED BY <2>1, <2>2, ValidSettings, ValidRecord DEF Validates, Duplicate
<1>2. /\ DOMAIN plates' = DOMAIN plates \cup {additions'} /\ additions' \notin DOMAIN plates
      /\ \A i \in DOMAIN plates : plates'[i] = plates[i]
  BY AddEffect
<1> HIDE DEF p, record
<1>3. IdentifiersOf(plates') = IdentifiersOf(plates) \cup {p}
  BY <1>1, <1>2 DEF IdentifiersOf
<1>4. DOMAIN plates \subseteq Nat /\ DOMAIN plates' \subseteq Nat
  BY DEF TypeOK
<1>5. DOMAIN DictOf(plates) = IdentifiersOf(plates) /\ DOMAIN DictOf(plates') = IdentifiersOf(plates')
  BY DEF DictOf
<1>6. \A i \in DOMAIN plates' : DictOf(plates')[plates'[i].identifier] = SettingsOf(plates'[i])
  BY <1>4, DictEntry DEF IdentifiersUnique
<1>7. \A i \in DOMAIN plates : DictOf(plates)[plates[i].identifier] = SettingsOf(plates[i])
  BY <1>4, DictEntry DEF IdentifiersUnique
<1>8. ASSUME NEW q \in IdentifiersOf(plates')
      PROVE  DictOf(plates')[q] = IF q = p THEN settings ELSE DictOf(plates)[q]
  <2>1. PICK i \in DOMAIN plates' : q = plates'[i].identifier
    BY DEF IdentifiersOf
  <2>2. CASE i = additions'
    BY <1>1, <1>6, <2>1, <2>2
  <2>3. CASE i \in DOMAIN plates
    <3>1. q # p
      BY <1>1, <1>2, <2>1, <2>3 DEF IdentifiersOf
    <3> QED BY <1>2, <1>6, <1>7, <2>1, <2>3, <3>1
  <2> QED BY <1>2, <2>2, <2>3
<1>9. DictOf(plates') = [q \in DOMAIN DictOf(plates) \cup {p} |-> IF q = p THEN settings ELSE DictOf(plates)[q]]
  <2> HIDE DEF settings
  <2>1. DictOf(plates') = [q \in DOMAIN DictOf(plates') |-> DictOf(plates')[q]]
    BY DEF DictOf
  <2> QED BY <1>3, <1>5, <1>8, <2>1
<1> QED BY <1>1, <1>5, <1>9 DEF Registry!Enter

\* An edit changes the settings of the plate it selected.
LEMMA EditRefines ==
  ASSUME TypeOK, TypeOK', IdentifiersUnique, IdentifiersUnique',
         NEW f \in Flows, NEW form \in Form, Edit(f, form)
  PROVE  \E p \in Identifiers, settings \in Settings : Registry!Change(p, settings)
<1> DEFINE p == selected[f]
           settings == SettingsOf(RecordOf(form, p))
<1>1. /\ p \in Identifiers /\ settings \in Settings /\ p \in IdentifiersOf(plates)
  BY ValidSettings DEF Edit, TypeOK, IdentifiersOf, Record
<1>2. plates' = [i \in DOMAIN plates |->
        IF plates[i].identifier = p THEN RecordOf(form, p) ELSE plates[i]]
  BY DEF Edit, Finish, Replaced
<1>3. \A i \in DOMAIN plates : plates'[i].identifier = plates[i].identifier
  BY EditEffect
<1> HIDE DEF p
<1>4. IdentifiersOf(plates') = IdentifiersOf(plates)
  BY <1>2, <1>3 DEF IdentifiersOf
<1>5. DOMAIN plates \subseteq Nat /\ DOMAIN plates' \subseteq Nat
  BY DEF TypeOK
<1>6. DOMAIN DictOf(plates) = IdentifiersOf(plates) /\ DOMAIN DictOf(plates') = IdentifiersOf(plates')
  BY DEF DictOf
<1>7. \A i \in DOMAIN plates' : DictOf(plates')[plates'[i].identifier] = SettingsOf(plates'[i])
  BY <1>5, DictEntry DEF IdentifiersUnique
<1>8. \A i \in DOMAIN plates : DictOf(plates)[plates[i].identifier] = SettingsOf(plates[i])
  BY <1>5, DictEntry DEF IdentifiersUnique
<1>9. ASSUME NEW q \in IdentifiersOf(plates)
      PROVE  DictOf(plates')[q] = IF q = p THEN settings ELSE DictOf(plates)[q]
  <2>1. PICK i \in DOMAIN plates : q = plates[i].identifier
    BY DEF IdentifiersOf
  <2>2. DictOf(plates')[q] = SettingsOf(plates'[i]) /\ DictOf(plates)[q] = SettingsOf(plates[i])
    BY <1>2, <1>3, <1>7, <1>8, <2>1
  <2> QED BY <1>2, <2>1, <2>2
<1>10. DictOf(plates') = [DictOf(plates) EXCEPT ![p] = settings]
  <2> HIDE DEF settings
  <2>1. DictOf(plates') = [q \in DOMAIN DictOf(plates') |-> DictOf(plates')[q]]
    BY DEF DictOf
  <2> QED BY <1>4, <1>6, <1>9, <2>1
<1> QED BY <1>1, <1>6, <1>10 DEF Registry!Change

\* A removal takes its plate out, or finds it gone.
LEMMA RemoveRefines ==
  ASSUME TypeOK, TypeOK', IdentifiersUnique, IdentifiersUnique',
         NEW f \in Flows, NEW p \in Identifiers, Remove(f, p)
  PROVE  Registry!TakeOut(p) \/ UNCHANGED DictOf(plates)
<1>1. plates' = [i \in {j \in DOMAIN plates : plates[j].identifier # p} |-> plates[i]]
  BY DEF Remove, Finish
<1>2. IdentifiersOf(plates') = IdentifiersOf(plates) \ {p}
  BY <1>1 DEF IdentifiersOf
<1>3. DOMAIN plates \subseteq Nat /\ DOMAIN plates' \subseteq Nat
  BY DEF TypeOK
<1>4. DOMAIN DictOf(plates) = IdentifiersOf(plates) /\ DOMAIN DictOf(plates') = IdentifiersOf(plates')
  BY DEF DictOf
<1>5. \A i \in DOMAIN plates' : DictOf(plates')[plates'[i].identifier] = SettingsOf(plates'[i])
  BY <1>3, DictEntry DEF IdentifiersUnique
<1>6. \A i \in DOMAIN plates : DictOf(plates)[plates[i].identifier] = SettingsOf(plates[i])
  BY <1>3, DictEntry DEF IdentifiersUnique
<1>7. ASSUME NEW q \in IdentifiersOf(plates')
      PROVE  DictOf(plates')[q] = DictOf(plates)[q]
  <2>1. PICK i \in DOMAIN plates' : q = plates'[i].identifier
    BY DEF IdentifiersOf
  <2> QED BY <1>1, <1>5, <1>6, <2>1
<1>8. DictOf(plates') = [q \in DOMAIN DictOf(plates) \ {p} |-> DictOf(plates)[q]]
  <2>1. DictOf(plates') = [q \in DOMAIN DictOf(plates') |-> DictOf(plates')[q]]
    BY DEF DictOf
  <2> QED BY <1>2, <1>4, <1>7, <2>1
<1>9. CASE p \in DOMAIN DictOf(plates)
  BY <1>8, <1>9 DEF Registry!TakeOut
<1>10. CASE p \notin DOMAIN DictOf(plates)
  <2>1. DictOf(plates) = [q \in DOMAIN DictOf(plates) |-> DictOf(plates)[q]]
    BY DEF DictOf
  <2>2. DOMAIN DictOf(plates) \ {p} = DOMAIN DictOf(plates)
    BY <1>10
  <2> QED BY <1>8, <2>1, <2>2
<1> QED BY <1>9, <1>10

\* Dialogs act on the registry of plates in single steps: each enters,
\* changes or takes out one plate, or leaves the registry as it is.
THEOREM RegistryIsKept == Spec => KeepsRegistry
<1>1. Init => Registry!Init
  BY DEF Init, Registry!Init, DictOf, IdentifiersOf
<1>2. TypeOK /\ TypeOK' /\ IdentifiersUnique /\ IdentifiersUnique' /\ [Next]_vars
        => [Registry!Next]_(DictOf(plates))
  <2> SUFFICES ASSUME TypeOK, TypeOK', IdentifiersUnique, IdentifiersUnique', [Next]_vars
               PROVE  [Registry!Next]_(DictOf(plates))
    OBVIOUS
  <2>1. CASE UNCHANGED plates
    BY <2>1 DEF DictOf
  <2>2. ASSUME NEW f \in Flows, NEW form \in Form, Add(f, form)
        PROVE  [Registry!Next]_(DictOf(plates))
    BY <2>2, AddRefines DEF Registry!Next
  <2>3. ASSUME NEW f \in Flows, NEW form \in Form, Edit(f, form)
        PROVE  [Registry!Next]_(DictOf(plates))
    BY <2>3, EditRefines DEF Registry!Next
  <2>4. ASSUME NEW f \in Flows, NEW identifier \in Identifiers, Remove(f, identifier)
        PROVE  [Registry!Next]_(DictOf(plates))
    BY <2>4, RemoveRefines DEF Registry!Next
  <2> QED BY <2>1, <2>2, <2>3, <2>4, OtherSteps DEF vars
<1> QED BY <1>1, <1>2, Invariant, PTL DEF Spec, KeepsRegistry, Registry!Spec

\* What follows from the promise alone: whatever the dialogs do, a setup of the
\* entry reads some plates, each with settings that can be scheduled.  These
\* are the options ConfigEntry starts from.
THEOREM RegistryIsSchedulable == KeepsRegistry => []Registry!Schedulable
<1>1. Registry!Init => Registry!Schedulable
  <2> SUFFICES ASSUME Registry!Init PROVE Registry!Schedulable
    OBVIOUS
  <2>1. DictOf(plates) \in [{} -> Settings]
    BY DEF Registry!Init
  <2> QED
    BY <2>1 DEF Registry!Schedulable
<1>2. ASSUME Registry!Schedulable, [Registry!Next]_(DictOf(plates)) PROVE Registry!Schedulable'
  <2> DEFINE old == DictOf(plates)
             new == DictOf(plates)'
             Valid(r) == r \in UNION {[S -> Settings] : S \in SUBSET Identifiers}
  <2>1. PICK S \in SUBSET Identifiers : old \in [S -> Settings]
    BY <1>2 DEF Registry!Schedulable
  <2>2. ASSUME NEW p \in Identifiers, NEW settings \in Settings, Registry!Enter(p, settings)
        PROVE  Valid(new)
    <3>1. new \in [S \cup {p} -> Settings]
      BY <2>1, <2>2 DEF Registry!Enter
    <3> QED
      BY <3>1
  <2>3. ASSUME NEW p \in Identifiers, NEW settings \in Settings, Registry!Change(p, settings)
        PROVE  Valid(new)
    <3>1. new \in [S -> Settings]
      BY <2>1, <2>3 DEF Registry!Change
    <3> QED
      BY <3>1
  <2>4. ASSUME NEW p \in Identifiers, Registry!TakeOut(p)
        PROVE  Valid(new)
    <3>1. new \in [S \ {p} -> Settings]
      BY <2>1, <2>4 DEF Registry!TakeOut
    <3> QED
      BY <3>1
  <2>5. ASSUME UNCHANGED DictOf(plates) PROVE Valid(new)
    <3>1. new = old
      BY <2>5
    <3> HIDE DEF old, new
    <3> QED
      BY <2>1, <3>1
  <2>6. Valid(new)
    BY <1>2, <2>2, <2>3, <2>4, <2>5 DEF Registry!Next
  <2> QED
    BY <2>6 DEF Registry!Schedulable
<1>3. Registry!Schedulable /\ [Registry!Next]_(DictOf(plates)) => Registry!Schedulable'
  BY <1>2
<1> QED
  BY <1>1, <1>3, PTL DEF KeepsRegistry, Registry!Spec
=============================================================================
