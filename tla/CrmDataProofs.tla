---------------------------- MODULE CrmDataProofs ----------------------------
(***************************************************************************)
(* Lemmas about the pure operators of CrmData: what create_* and update_*   *)
(* make of an accepted input.  They hold for every choice of the constants. *)
(***************************************************************************)
EXTENDS CrmData, TLAPS

-----------------------------------------------------------------------------
(* The tables, one kind at a time.                                          *)
LEMMA ByKind ==
  /\ Rows["contact"] = ContactRows /\ Rows["deal"] = DealRows
  /\ Rows["activity"] = ActivityRows
  /\ Mandatory["contact"] = {"name", "company"} /\ Mandatory["deal"] = {"title"}
  /\ Mandatory["activity"] = {"note"}
  /\ FieldsOf["contact"] = ContactFields /\ FieldsOf["deal"] = DealFields
  /\ FieldsOf["activity"] = ActivityFields
BY DEF Rows, Mandatory, FieldsOf

(* Stripping keeps a text filled and gives a text.                          *)
LEMMA StripText ==
  ASSUME NEW t \in Texts
  PROVE  Strip[t] \in Texts /\ (~ IsBlank(t) => ~ IsBlank(Strip[t]))
BY TextAssumption DEF IsBlank

(* Every column of a contact takes a text.                                  *)
LEMMA ContactInputText ==
  ASSUME NEW in, IsInput("contact", in), NEW f \in DOMAIN in
  PROVE  f \in ContactFields /\ in[f] \in Texts
<1>1. f \in ContactFields
  BY ByKind DEF IsInput
<1>2. f \notin {"contactId", "value", "expectedClose", "stage", "type"}
  BY <1>1, FieldAssumption DEF ContactFields, DealFields, ActivityFields
<1>3. in[f] \in InputField(f)
  BY DEF IsInput
<1> QED BY <1>1, <1>2, <1>3 DEF InputField

(* The contact create_contact inserts is well formed.                       *)
LEMMA NewContactWellFormed ==
  ASSUME NEW in, IsInput("contact", in), CreateAccepted("contact", in)
  PROVE  WellFormed("contact", NewContact(in))
<1>1. \A f \in ContactFields : Given(in, f, Blank) \in Texts
  BY ContactInputText, TextAssumption DEF Given
<1>2. NewContact(in) \in ContactRows
  BY <1>1, StripText DEF NewContact, ContactRows
<1>3. \A f \in {"name", "company"} : ~ IsBlank(Given(in, f, Blank))
  BY DEF CreateAccepted, ContactAccepted
<1>4. \A f \in {"name", "company"} : ~ IsBlank(NewContact(in)[f])
  BY <1>1, <1>3, StripText DEF NewContact, ContactFields
<1> QED BY <1>2, <1>4, ByKind DEF WellFormed

(* The deal create_deal inserts is well formed and belongs to the contact   *)
(* that was asked for.                                                      *)
LEMMA NewDealWellFormed ==
  ASSUME NEW in, IsInput("deal", in), CreateAccepted("deal", in)
  PROVE  /\ WellFormed("deal", NewDeal(in))
         /\ NewDeal(in).contactId = in["contactId"]
         /\ "contactId" \in DOMAIN in
<1>1. /\ "contactId" \in DOMAIN in /\ in["contactId"] \in Nat
  <2>1. Given(in, "contactId", 0) # 0
    BY DEF CreateAccepted, DealAccepted
  <2>2. "contactId" \in DOMAIN in
    BY <2>1 DEF Given
  <2> QED BY <2>2 DEF IsInput, InputField
<1>2. "title" \in DOMAIN in /\ in["title"] \in Texts /\ ~ IsBlank(in["title"])
  <2>1. ~ IsBlank(Given(in, "title", Blank))
    BY DEF CreateAccepted, DealAccepted
  <2>2. "title" \in DOMAIN in
    BY <2>1, TextAssumption DEF Given, IsBlank
  <2>3. in["title"] \in InputField("title")
    BY <2>2 DEF IsInput
  <2> QED BY <2>1, <2>2, <2>3 DEF Given, InputField
<1>3. NewStage(in) \in Stages
  BY DEF CreateAccepted, DealAccepted
<1>4. Given(in, "value", 0) \in Amounts
  <2>1. "value" \in DOMAIN in => in["value"] \in InputField("value")
    BY DEF IsInput
  <2> QED BY <2>1, FieldAssumption DEF Given, InputField
<1>5. Given(in, "expectedClose", NoDate) \in Dates \cup {NoDate}
  <2>1. "expectedClose" \in DOMAIN in => in["expectedClose"] \in InputField("expectedClose")
    BY DEF IsInput
  <2> QED BY <2>1 DEF Given, InputField
<1>6. NewDeal(in) \in DealRows
  BY <1>1, <1>2, <1>3, <1>4, <1>5, StripText DEF NewDeal, DealRows
<1>7. ~ IsBlank(NewDeal(in)["title"])
  BY <1>2, StripText DEF NewDeal
<1> QED BY <1>1, <1>6, <1>7, ByKind DEF WellFormed, NewDeal

(* The activity create_activity inserts is well formed and belongs to the   *)
(* contact that was asked for.                                              *)
LEMMA NewActivityWellFormed ==
  ASSUME NEW in, IsInput("activity", in), CreateAccepted("activity", in)
  PROVE  /\ WellFormed("activity", NewActivity(in))
         /\ NewActivity(in).contactId = in["contactId"]
         /\ "contactId" \in DOMAIN in
<1>1. "contactId" \in DOMAIN in /\ in["contactId"] \in Nat
  <2>1. "contactId" \in DOMAIN in
    BY DEF CreateAccepted, ActivityAccepted, Given
  <2> QED BY <2>1 DEF IsInput, InputField
<1>2. "note" \in DOMAIN in /\ in["note"] \in Texts /\ ~ IsBlank(in["note"])
  <2>1. ~ IsBlank(Given(in, "note", Blank))
    BY DEF CreateAccepted, ActivityAccepted
  <2>2. "note" \in DOMAIN in
    BY <2>1, TextAssumption DEF Given, IsBlank
  <2>3. in["note"] \in InputField("note")
    BY <2>2 DEF IsInput
  <2> QED BY <2>1, <2>2, <2>3 DEF Given, InputField
<1>3. in["type"] \in ActivityTypes
  BY FieldAssumption DEF CreateAccepted, ActivityAccepted, Given
<1>4. NewActivity(in) \in ActivityRows
  BY <1>1, <1>2, <1>3, StripText DEF NewActivity, ActivityRows
<1>5. ~ IsBlank(NewActivity(in)["note"])
  BY <1>2, StripText DEF NewActivity
<1> QED BY <1>1, <1>4, <1>5, ByKind DEF WellFormed, NewActivity

(* Whatever create_* inserts is well formed, and a deal or an activity      *)
(* belongs to the contact that was looked up.                               *)
LEMMA NewRowWellFormed ==
  ASSUME NEW k \in Kinds, NEW in, IsInput(k, in), CreateAccepted(k, in)
  PROVE  /\ WellFormed(k, NewRow(k, in))
         /\ k # "contact" => NewRow(k, in).contactId = in["contactId"]
<1>1. CASE k = "contact"
  BY <1>1, NewContactWellFormed DEF NewRow
<1>2. CASE k = "deal"
  BY <1>2, NewDealWellFormed DEF NewRow
<1>3. CASE k = "activity"
  BY <1>3, NewActivityWellFormed DEF NewRow
<1> QED BY <1>1, <1>2, <1>3 DEF Kinds

-----------------------------------------------------------------------------
(* An accepted value for a supplied column keeps a row well formed.         *)
LEMMA StoredTyped ==
  ASSUME NEW k \in {"contact", "deal"}, NEW in, IsInput(k, in), PatchAccepted(k, in),
         NEW f \in DOMAIN in
  PROVE  /\ k = "contact" => Stored(k, f, in[f]) \in Texts
         /\ k = "deal" =>
              /\ f \in {"contactId", "title", "stage", "value", "expectedClose"}
              /\ f = "contactId" => Stored(k, f, in[f]) = in[f] /\ in[f] \in Nat
              /\ f = "title" => Stored(k, f, in[f]) \in Texts
              /\ f = "stage" => Stored(k, f, in[f]) \in Stages
              /\ f = "value" => Stored(k, f, in[f]) \in Amounts
              /\ f = "expectedClose" => Stored(k, f, in[f]) \in Dates \cup {NoDate}
         /\ f \in Mandatory[k] => ~ IsBlank(Stored(k, f, in[f]))
<1>1. CASE k = "contact"
  <2>1. in[f] \in Texts
    BY <1>1, ContactInputText
  <2>2. f \in Mandatory[k] => ~ IsBlank(in[f])
    BY DEF PatchAccepted
  <2> QED BY <1>1, <2>1, <2>2, StripText DEF Stored
<1>2. CASE k = "deal"
  <2>1. f \in DealFields /\ in[f] \in InputField(f)
    BY <1>2, ByKind DEF IsInput
  <2>2. f = "title" => in[f] \in Texts /\ ~ IsBlank(in[f])
    BY <1>2, <2>1, ByKind DEF PatchAccepted, InputField
  <2>3. f = "stage" => in[f] \in Stages
    BY <1>2 DEF PatchAccepted
  <2>4. f # "title" => Stored(k, f, in[f]) = in[f]
    BY <1>2, ByKind DEF Stored
  <2>5. f = "title" => /\ Stored(k, f, in[f]) = Strip[in[f]]
                       /\ Strip[in[f]] \in Texts /\ ~ IsBlank(Strip[in[f]])
    BY <1>2, <2>2, ByKind, StripText DEF Stored
  <2>6. f \in Mandatory[k] => f = "title"
    BY <1>2, ByKind
  <2>7. /\ f = "contactId" => in[f] \in Nat
        /\ f = "value" => in[f] \in Amounts
        /\ f = "expectedClose" => in[f] \in Dates \cup {NoDate}
    BY <2>1 DEF InputField
  <2> QED BY <1>2, <2>1, <2>3, <2>4, <2>5, <2>6, <2>7 DEF DealFields
<1> QED BY <1>1, <1>2

(* A row whose columns come from two well-formed rows of its table is well  *)
(* formed: what an UPDATE of some columns leaves behind.                    *)
LEMMA MixWellFormed ==
  ASSUME NEW k \in Kinds, NEW new, WellFormed(k, new), NEW old, WellFormed(k, old),
         NEW F
  PROVE  WellFormed(k, [f \in DOMAIN new |-> IF f \in F THEN new[f] ELSE old[f]])
<1> DEFINE mix == [f \in DOMAIN new |-> IF f \in F THEN new[f] ELSE old[f]]
<1>1. CASE k = "contact"
  <2>1. new \in ContactRows /\ old \in ContactRows
    BY <1>1, ByKind DEF WellFormed
  <2>2. mix \in ContactRows
    BY <2>1 DEF ContactRows
  <2>3. \A f \in {"name", "company"} : ~ IsBlank(mix[f])
    BY <1>1, <2>1, ByKind DEF WellFormed, ContactRows, ContactFields
  <2> QED BY <1>1, <2>2, <2>3, ByKind DEF WellFormed
<1>2. CASE k = "deal"
  <2>1. new \in DealRows /\ old \in DealRows
    BY <1>2, ByKind DEF WellFormed
  <2>2. mix \in DealRows
    BY <2>1 DEF DealRows
  <2>3. ~ IsBlank(mix["title"])
    BY <1>2, <2>1, ByKind DEF WellFormed, DealRows
  <2> QED BY <1>2, <2>2, <2>3, ByKind DEF WellFormed
<1>3. CASE k = "activity"
  <2>1. new \in ActivityRows /\ old \in ActivityRows
    BY <1>3, ByKind DEF WellFormed
  <2>2. mix \in ActivityRows
    BY <2>1 DEF ActivityRows
  <2>3. ~ IsBlank(mix["note"])
    BY <1>3, <2>1, ByKind DEF WellFormed, ActivityRows
  <2> QED BY <1>3, <2>2, <2>3, ByKind DEF WellFormed
<1> QED BY <1>1, <1>2, <1>3 DEF Kinds

(* An accepted patch of a well-formed row is well formed; a contact id in   *)
(* it is the supplied one, or the row's own when none was supplied.         *)
LEMMA PatchedWellFormed ==
  ASSUME NEW k \in {"contact", "deal"}, NEW in, IsInput(k, in), PatchAccepted(k, in),
         NEW row, WellFormed(k, row)
  PROVE  /\ WellFormed(k, Patched(k, row, in))
         /\ k = "deal" => Patched(k, row, in).contactId =
              IF "contactId" \in DOMAIN in THEN in["contactId"] ELSE row.contactId
<1>1. CASE k = "contact"
  <2>1. row \in ContactRows
    BY <1>1, ByKind DEF WellFormed
  <2>2. Patched(k, row, in) \in ContactRows
    BY <1>1, <2>1, StoredTyped DEF ContactRows, Patched
  <2>3. \A f \in {"name", "company"} : ~ IsBlank(Patched(k, row, in)[f])
    <3> TAKE f \in {"name", "company"}
    <3>1. f \in DOMAIN row /\ ~ IsBlank(row[f])
      BY <1>1, <2>1, ByKind DEF WellFormed, ContactRows, ContactFields
    <3>2. f \in DOMAIN in => ~ IsBlank(Stored(k, f, in[f]))
      BY <1>1, StoredTyped, ByKind
    <3> QED BY <3>1, <3>2 DEF Patched
  <2> QED BY <1>1, <2>2, <2>3, ByKind DEF WellFormed
<1>2. CASE k = "deal"
  <2>1. row \in DealRows /\ ~ IsBlank(row["title"])
    BY <1>2, ByKind DEF WellFormed
  <2>2. \A f \in DOMAIN in :
          /\ f = "contactId" => Stored(k, f, in[f]) = in[f] /\ in[f] \in Nat
          /\ f = "title" => Stored(k, f, in[f]) \in Texts /\ ~ IsBlank(Stored(k, f, in[f]))
          /\ f = "stage" => Stored(k, f, in[f]) \in Stages
          /\ f = "value" => Stored(k, f, in[f]) \in Amounts
          /\ f = "expectedClose" => Stored(k, f, in[f]) \in Dates \cup {NoDate}
    BY <1>2, StoredTyped, ByKind
  <2>3. Patched(k, row, in) \in DealRows
    BY <2>1, <2>2 DEF DealRows, Patched
  <2>4. ~ IsBlank(Patched(k, row, in)["title"])
    BY <2>1, <2>2 DEF DealRows, Patched
  <2>5. Patched(k, row, in).contactId =
          IF "contactId" \in DOMAIN in THEN in["contactId"] ELSE row.contactId
    BY <2>1, <2>2 DEF DealRows, Patched
  <2> QED BY <1>2, <2>3, <2>4, <2>5, ByKind DEF WellFormed
<1> QED BY <1>1, <1>2
=============================================================================
