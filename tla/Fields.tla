-------------------------------- MODULE Fields --------------------------------
(***************************************************************************)
(* The custom fields of one kind of record: their definitions, the layout  *)
(* of the form and the values of the records.  Every command locks the     *)
(* organization's row before it reads anything, also one that writes the   *)
(* record's own columns in the same transaction, so it is one step.  What  *)
(* makes that write fail undoes the values too, a repeated creation key    *)
(* answers with the record it made, a command for an old version is        *)
(* refused: these change nothing and are left out.                         *)
(***************************************************************************)
EXTENDS Commands

CONSTANTS
  FieldIds, ChoiceFields,   \* all fields; those whose values are options
  Options,                  \* what a field may be set to
  RecordIds

ASSUME FieldsAssumption == ChoiceFields \subseteq FieldIds

VARIABLES definitions, placed, values
fieldVars == <<definitions, placed, values>>

NoField == [status |-> "none"]
Definition == [status : {"active", "archived"}, required : BOOLEAN, default : Optional(Options),
               options : [Options -> {"none", "active", "archived"}]]
NoRecord == [state |-> "none"]
RecordRow == [state : {"made"}, of : [FieldIds -> Optional(Options)]]

FieldsInit ==
  /\ definitions = [f \in FieldIds |-> NoField]
  /\ placed = [f \in FieldIds |-> "nowhere"]
  /\ values = [r \in RecordIds |-> NoRecord]

ActiveFields == {f \in FieldIds : definitions[f].status = "active"}

(* What may be given to a field, and what it may have been given before.    *)
Offered(f, d) == IF f \in ChoiceFields THEN {o \in Options : d.options[o] = "active"} ELSE Options
EverOffered(f, d) == IF f \in ChoiceFields THEN {o \in Options : d.options[o] # "none"} ELSE Options

(***************************************************************************)
(* Definitions and the layout                                              *)
(***************************************************************************)
KeepsOptions(old, d) ==
  old # NoField => \A o \in Options : old.options[o] # "none" => d.options[o] # "none"

(* A field that has no place in the layout yet may be required.             *)
Requirable(f, d) ==
  definitions[f] # NoField /\ d.status = "active" /\ d.required => placed[f] # "hidden"

SaveDefinition(f, d) ==
  /\ KeepsOptions(definitions[f], d) /\ Requirable(f, d)
  /\ f \in ChoiceFields /\ d.status = "active" => Offered(f, d) # {}
  /\ d.default \subseteq Offered(f, d)
  /\ definitions' = [definitions EXCEPT ![f] = d]
  /\ UNCHANGED <<placed, values>>

SaveLayout(places) ==
  /\ \A f \in FieldIds : places[f] # "nowhere" => definitions[f] # NoField
  /\ \A f \in ActiveFields : definitions[f].required => places[f] = "shown"
  /\ placed' = places /\ UNCHANGED <<definitions, values>>

ResetLayout ==
  SaveLayout([f \in FieldIds |-> IF f \in ActiveFields THEN "shown" ELSE "nowhere"])

(***************************************************************************)
(* Values.  A patch names the fields it sets or clears.                    *)
(***************************************************************************)
(* Mutant: whatever the field has had is accepted.                          *)
AcceptsHistorical(patch, f) == f \in DOMAIN patch => patch[f] \subseteq EverOffered(f, definitions[f])
(* What is given must be offered; what stays may have been withdrawn.       *)
Accepts(patch, f) == f \in DOMAIN patch => patch[f] \subseteq Offered(f, definitions[f])

(* What an active field has after the write: new records get the default.   *)
Proposed(r, patch, f) ==
  IF f \in DOMAIN patch THEN patch[f]
  ELSE IF values[r] = NoRecord THEN definitions[f].default
  ELSE values[r].of[f]

SaveValues(r, patch) ==
  /\ DOMAIN patch \subseteq ActiveFields
  /\ \A f \in ActiveFields :
       Accepts(patch, f) /\ (definitions[f].required => Proposed(r, patch, f) # {})
  /\ values' = [values EXCEPT ![r] =
       [state |-> "made", of |-> [f \in FieldIds |->
          IF f \in ActiveFields THEN Proposed(r, patch, f)
          ELSE IF values[r] = NoRecord THEN {} ELSE values[r].of[f]]]]
  /\ UNCHANGED <<definitions, placed>>

(* Only the options of a choice are kept.                                   *)
DefinitionsOf(f) ==
  IF f \in ChoiceFields THEN Definition
  ELSE {d \in Definition : d.options = [o \in Options |-> "none"]}

Patches == UNION {[S -> Optional(Options)] : S \in SUBSET FieldIds}

FieldsNext ==
  \/ \E f \in FieldIds : \E d \in DefinitionsOf(f) : SaveDefinition(f, d)
  \/ \E places \in [FieldIds -> {"nowhere", "hidden", "shown"}] : SaveLayout(places)
  \/ ResetLayout
  \/ \E r \in RecordIds, patch \in Patches : SaveValues(r, patch)

FieldsSpec == FieldsInit /\ [][FieldsNext]_fieldVars

(***************************************************************************)
(* Properties                                                              *)
(***************************************************************************)
(* Rows have their columns, and what is stored stays readable: it is an    *)
(* option that its field still has, in use or not.                         *)
FieldsTypeOK ==
  /\ definitions \in [FieldIds -> Definition \cup {NoField}]
  /\ placed \in [FieldIds -> {"nowhere", "hidden", "shown"}]
  /\ values \in [RecordIds -> RecordRow \cup {NoRecord}]
  /\ \A r \in RecordIds, f \in FieldIds :
       values[r] # NoRecord /\ values[r].of[f] # {} =>
         definitions[f] # NoField /\ values[r].of[f] \subseteq EverOffered(f, definitions[f])

(* Nobody is asked for a value in a field the form hides: a field that is  *)
(* required and placed is shown, in whatever order it was required,        *)
(* archived, hidden and brought back.                                      *)
RequiredAreShown ==
  \A f \in ActiveFields : definitions[f].required /\ placed[f] # "nowhere" => placed[f] = "shown"

(* A record that is written has what is required of it then, what is new   *)
(* in it is offered then, also when it is a default, and nothing changes   *)
(* what an archived field has.                                             *)
Has(row, f) == IF row = NoRecord THEN {} ELSE row.of[f]

ValuesFollowDefinitions ==
  [][\A r \in RecordIds : values'[r] # values[r] =>
       /\ \A f \in ActiveFields : definitions[f].required => Has(values'[r], f) # {}
       /\ \A f \in FieldIds : Has(values'[r], f) # Has(values[r], f) =>
            f \in ActiveFields /\ Has(values'[r], f) \subseteq Offered(f, definitions[f])]_fieldVars
=============================================================================
