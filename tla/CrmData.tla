------------------------------ MODULE CrmData ------------------------------
(***************************************************************************)
(* The rows of the CRM database and the input rules of backend/app/store.py *)
(* that need no database: which inputs are refused, the row an accepted     *)
(* input creates, and the columns a patch changes.                          *)
(*                                                                          *)
(* Abstraction.  An id "c7" is the number 7 in the table of its kind; 0     *)
(* stands for a missing or empty contactId.  Text is a member of Texts;     *)
(* null and "" are both Blank, because every method treats them alike       *)
(* (`not x`, `x or ""`).  Tags have no row here (they are a list, joined    *)
(* and split), nor has an activity's timestamp `at`, which only sorts.      *)
(***************************************************************************)
EXTENDS Naturals

CONSTANTS
  Texts,            \* the texts a client may send
  Blank,            \* the empty text (also: null)
  Strip,            \* Python's str.strip, as a function on Texts
  OptionalFields,   \* contact columns other than name and company
  Stages,           \* models.Stage, the pipeline
  LeadStage,        \* models.Stage.LEAD, the default
  ActivityTypes,    \* models.ActivityType
  Amounts,          \* deal values; 0 is the default
  Dates,            \* expected close dates
  NoDate            \* a null date

Kinds == {"contact", "deal", "activity"}

ContactFields  == {"name", "company"} \cup OptionalFields
DealFields     == {"contactId", "title", "stage", "value", "expectedClose"}
ActivityFields == {"contactId", "type", "note"}

(* Columns that must hold more than white space.                           *)
Mandatory == [contact  |-> {"name", "company"},
              deal     |-> {"title"},
              activity |-> {"note"}]

ASSUME TextAssumption ==
  /\ Blank \in Texts
  /\ Strip \in [Texts -> Texts]
  /\ Strip[Blank] = Blank
  /\ \A t \in Texts : Strip[Strip[t]] = Strip[t]

ASSUME FieldAssumption ==
  /\ OptionalFields \cap (DealFields \cup ActivityFields \cup {"name", "company"}) = {}
  /\ LeadStage \in Stages
  /\ Blank \notin Stages \cup ActivityTypes
  /\ 0 \in Amounts

-----------------------------------------------------------------------------
(* Rows.                                                                   *)

ContactRows  == [ContactFields -> Texts]
DealRows     == [contactId : Nat, title : Texts, stage : Stages,
                 value : Amounts, expectedClose : Dates \cup {NoDate}]
ActivityRows == [contactId : Nat, type : ActivityTypes, note : Texts]

Rows == [contact |-> ContactRows, deal |-> DealRows, activity |-> ActivityRows]

(* Inputs are partial: only the fields the client supplied are in their     *)
(* domain (pydantic's exclude_unset).  A stage or type may be any text.     *)
InputField(f) ==
  IF f = "contactId"          THEN Nat
  ELSE IF f = "value"         THEN Amounts
  ELSE IF f = "expectedClose" THEN Dates \cup {NoDate}
  ELSE IF f = "stage"         THEN Stages \cup Texts
  ELSE IF f = "type"          THEN ActivityTypes \cup Texts
  ELSE Texts

FieldsOf == [contact |-> ContactFields, deal |-> DealFields, activity |-> ActivityFields]

IsInput(k, in) ==
  /\ DOMAIN in \subseteq FieldsOf[k]
  /\ in = [f \in DOMAIN in |-> in[f]]
  /\ \A f \in DOMAIN in : in[f] \in InputField(f)

Given(in, f, default) == IF f \in DOMAIN in THEN in[f] ELSE default

IsBlank(t) == Strip[t] = Blank

-----------------------------------------------------------------------------
(* create_*                                                                *)

NewStage(in) ==
  IF Given(in, "stage", Blank) = Blank THEN LeadStage ELSE in["stage"]

(* The checks create_contact, create_deal and create_activity make before   *)
(* they open a session; a request that fails one is answered 400.           *)
ContactAccepted(in) ==
  ~ IsBlank(Given(in, "name", Blank)) /\ ~ IsBlank(Given(in, "company", Blank))

(* Mutant of DealAccepted: create_deal forgets to check the stage.          *)
DealAccepted_AnyStage(in) ==
  Given(in, "contactId", 0) # 0 /\ ~ IsBlank(Given(in, "title", Blank))

DealAccepted(in) ==
  /\ Given(in, "contactId", 0) # 0
  /\ ~ IsBlank(Given(in, "title", Blank))
  /\ NewStage(in) \in Stages

ActivityAccepted(in) ==
  /\ Given(in, "contactId", 0) # 0
  /\ Given(in, "type", Blank) \in ActivityTypes
  /\ ~ IsBlank(Given(in, "note", Blank))

CreateAccepted(k, in) ==
  /\ k = "contact"  => ContactAccepted(in)
  /\ k = "deal"     => DealAccepted(in)
  /\ k = "activity" => ActivityAccepted(in)

NewContact(in) == [f \in ContactFields |-> Strip[Given(in, f, Blank)]]

NewDeal(in) ==
  [contactId     |-> in["contactId"],
   title         |-> Strip[in["title"]],
   stage         |-> NewStage(in),
   value         |-> Given(in, "value", 0),
   expectedClose |-> Given(in, "expectedClose", NoDate)]

NewActivity(in) ==
  [contactId |-> in["contactId"], type |-> in["type"], note |-> Strip[in["note"]]]

NewRow(k, in) ==
  IF k = "contact"   THEN NewContact(in)
  ELSE IF k = "deal" THEN NewDeal(in)
  ELSE NewActivity(in)

-----------------------------------------------------------------------------
(* update_*                                                                *)

(* Mutant of PatchAccepted: `if not update["name"]` without the strip().    *)
PatchAccepted_NoStrip(k, in) ==
  /\ \A f \in Mandatory[k] \cap DOMAIN in : in[f] # Blank
  /\ "stage" \in DOMAIN in => in["stage"] \in Stages

(* The checks of update_contact and update_deal that need no database:      *)
(* a supplied mandatory text is not blank, a supplied stage is known.       *)
PatchAccepted(k, in) ==
  /\ \A f \in Mandatory[k] \cap DOMAIN in : ~ IsBlank(in[f])
  /\ "stage" \in DOMAIN in => in["stage"] \in Stages

(* What a supplied value becomes: only name, company and title are stripped *)
(* by an update; the optional columns are stored as sent.                   *)
Stored(k, f, v) == IF f \in Mandatory[k] THEN Strip[v] ELSE v

(* Mutant of Patched: exclude_unset is forgotten for the optional columns.  *)
Patched_ResetsOptional(k, row, in) ==
  [f \in DOMAIN row |-> IF f \in DOMAIN in      THEN Stored(k, f, in[f])
                        ELSE IF f \in OptionalFields THEN Blank
                        ELSE row[f]]

Patched(k, row, in) ==
  [f \in DOMAIN row |-> IF f \in DOMAIN in THEN Stored(k, f, in[f]) ELSE row[f]]

(* The columns SQLAlchemy puts in the UPDATE: those whose value differs     *)
(* from the one this session loaded.                                        *)
Dirty(old, new) == {f \in DOMAIN old : new[f] # old[f]}

-----------------------------------------------------------------------------
(* A row is well formed when it has the columns and types of its table and  *)
(* its mandatory columns are filled.                                        *)
WellFormed(k, row) ==
  /\ row \in Rows[k]
  /\ \A f \in Mandatory[k] : ~ IsBlank(row[f])
=============================================================================
