---------------------------- MODULE CrmMockProofs ----------------------------
(***************************************************************************)
(* Proofs about the mock service, for any data it starts with and any       *)
(* calls: its rows keep their ids and their contacts, and it implements     *)
(* the catalogue that the store implements too.                             *)
(***************************************************************************)
EXTENDS CrmMock, CrmDataProofs, SequenceTheorems, FiniteSetTheorems

-----------------------------------------------------------------------------
(* What the mock keeps.                                                     *)

MockTexts == Texts \cup {Null}

MockRow(k) ==
  IF k = "contact" THEN [ContactFields -> MockTexts]
  ELSE IF k = "deal"
       THEN [contactId : Nat, title : MockTexts, stage : Stages, value : Amounts,
             expectedClose : Dates \cup {NoDate, Blank}]
  ELSE ActivityRows

Entry(k) == [id : Nat, row : MockRow(k), tags : SUBSET Tidy]

IsCall(k, in) ==
  /\ DOMAIN in \subseteq FieldsOf[k]
  /\ in = [f \in DOMAIN in |-> in[f]]
  /\ \A f \in DOMAIN in : in[f] \in CallField(f)

(* Strengthens MockConsistent: the first rows are at their ids, the others  *)
(* have theirs from the counter, one for each row.                          *)
MockInv ==
  /\ counter \in FirstId..FirstId + MaxCreates
  /\ queue \in Seq(Requests)
  /\ DOMAIN rows = Kinds
  /\ \A k \in Kinds :
       /\ rows[k] \in Seq(Entry(k))
       /\ Len(Seed[k]) <= Len(rows[k])
       /\ Len(rows[k]) + FirstId <= Len(Seed[k]) + counter
       /\ \A i \in DOMAIN rows[k] : /\ rows[k][i].id <= counter
                                    /\ \A j \in DOMAIN rows[k] :
                                         rows[k][i].id = rows[k][j].id => i = j
                                    /\ IF i \in DOMAIN Seed[k] THEN rows[k][i].id = i
                                       ELSE rows[k][i].id > FirstId
  /\ \A k \in {"deal", "activity"} : \A i \in DOMAIN rows[k] :
       rows[k][i].row.contactId \in Ids("contact")

-----------------------------------------------------------------------------
(* Sequences of entries.                                                    *)

(* An entry is found under its id if no other one has it.                   *)
LEMMA IndexOfEntry ==
  ASSUME NEW s, NEW i \in 1..Len(s), Len(s) \in Nat,
         \A j \in 1..Len(s) : s[j].id = s[i].id => j = i
  PROVE  Index(s, s[i].id) = i
<1>1. {j \in 1..Len(s) : s[j].id = s[i].id} = {i}
  OBVIOUS
<1>2. Min({i}) = i
  BY DEF Min
<1> QED BY <1>1, <1>2 DEF Index, SelectInSeq

LEMMA EntryTyped ==
  ASSUME MockInv, NEW k \in Kinds
  PROVE  /\ Len(rows[k]) \in Nat /\ DOMAIN rows[k] = 1..Len(rows[k])
         /\ \A i \in DOMAIN rows[k] :
              /\ rows[k][i] \in Entry(k)
              /\ rows[k][i].id \in Nat /\ rows[k][i].row \in MockRow(k)
              /\ rows[k][i].tags \subseteq Tidy
<1>1. rows[k] \in Seq(Entry(k))
  BY DEF MockInv
<1>2. \A i \in 1..Len(rows[k]) : rows[k][i] \in Entry(k)
  BY <1>1, ElementOfSeq
<1>3. Len(rows[k]) \in Nat /\ DOMAIN rows[k] = 1..Len(rows[k])
  BY <1>1, LenProperties
<1> QED BY <1>2, <1>3 DEF Entry

LEMMA Constants ==
  /\ FirstId \in Nat /\ MaxCreates \in Nat /\ Kinds = DOMAIN Seed
  /\ \A k \in Kinds : /\ Seed[k] \in Seq(Rows[k])
                      /\ Len(Seed[k]) \in Nat /\ DOMAIN Seed[k] = 1..Len(Seed[k])
                      /\ Len(Seed[k]) <= FirstId
                      /\ \A i \in 1..Len(Seed[k]) : Seed[k][i] \in Rows[k]
BY MockAssumption, LenProperties, ElementOfSeq

LEMMA LastOrEarlier ==
  ASSUME NEW n \in Nat, NEW i \in 1..n + 1
  PROVE  i \in 1..n \/ i = n + 1
OBVIOUS

LEMMA OneMore ==
  ASSUME NEW a \in Nat, NEW b \in Nat, NEW c \in Nat, NEW d \in Nat, a + b <= c + d
  PROVE  a + b <= c + (d + 1)
OBVIOUS

LEMMA RequestFacts ==
  ASSUME NEW r \in Requests
  PROVE  /\ r = [verb |-> r.verb, kind |-> r.kind, id |-> r.id, input |-> r.input,
                 tags |-> r.tags]
         /\ r.verb \in {"create", "update", "get", "list"} /\ r.kind \in Kinds /\ r.id \in Nat
         /\ IsCall(r.kind, r.input)
         /\ r.tags \subseteq Texts \/ r.tags = Absent
         /\ r.verb = "update" => r.kind # "activity"
BY CallAssumption DEF IsCall

(* What a call may put in the fields of each kind.                          *)
LEMMA CallTyped ==
  /\ \A in : IsCall("contact", in) =>
       \A f \in DOMAIN in : f \in ContactFields /\ in[f] \in MockTexts
  /\ \A in : IsCall("deal", in) =>
       /\ "contactId" \in DOMAIN in => in["contactId"] \in Nat
       /\ "title" \in DOMAIN in => in["title"] \in MockTexts
       /\ "expectedClose" \in DOMAIN in => in["expectedClose"] \in Dates \cup {NoDate, Blank}
  /\ \A in : IsCall("activity", in) =>
       /\ "contactId" \in DOMAIN in => in["contactId"] \in Nat
       /\ "note" \in DOMAIN in => in["note"] \in MockTexts
<1>1. \A f \in ContactFields :
        f \notin {"contactId", "value", "expectedClose", "stage", "type"}
  BY FieldAssumption DEF ContactFields, DealFields, ActivityFields
<1>2. \A f \in ContactFields \cup {"title", "note"} : CallField(f) = MockTexts
  BY <1>1 DEF CallField, InputField, MockTexts
<1>3. /\ CallField("contactId") = Nat
      /\ CallField("expectedClose") = Dates \cup {NoDate, Blank}
  BY DEF CallField, InputField
<1>4. ASSUME NEW in, IsCall("contact", in), NEW f \in DOMAIN in
      PROVE  f \in ContactFields /\ in[f] \in MockTexts
  <2>1. f \in ContactFields /\ in[f] \in CallField(f)
    BY <1>4, ByKind DEF IsCall
  <2> QED BY <1>2, <2>1
<1> QED BY <1>2, <1>3, <1>4 DEF IsCall

LEMMA NumberTyped == \A v : NumberOf(v) \in Amounts /\ NumberOf(NumberOf(v)) = NumberOf(v)
BY FieldAssumption DEF NumberOf

(* The rows the mock starts with are such rows too.                         *)
LEMMA SeedRows ==
  ASSUME NEW k \in Kinds
  PROVE  Rows[k] \subseteq MockRow(k)
<1>1. CASE k = "contact"
  BY <1>1, ByKind DEF MockRow, MockTexts, ContactRows
<1>2. CASE k = "deal"
  BY <1>2, ByKind DEF MockRow, MockTexts, DealRows
<1>3. CASE k = "activity"
  BY <1>3, ByKind DEF MockRow
<1> QED BY <1>1, <1>2, <1>3 DEF Kinds

LEMMA NormalisedTidy ==
  ASSUME NEW tags, tags \subseteq Texts \/ tags = Absent
  PROVE  Normalised(tags) \subseteq Tidy
BY TextAssumption DEF Normalised, Tidy

(* A contact named by an accepted input is one of those stored.             *)
LEMMA BelongsToStored ==
  ASSUME NEW in, Belongs(in)
  PROVE  "contactId" \in DOMAIN in /\ in["contactId"] \in Ids("contact")
BY DEF Belongs, Given

(* The rows of a create have the columns of their table.                    *)
LEMMA RecordTyped ==
  ASSUME MockInv, NEW k \in Kinds, NEW in, IsCall(k, in), CreateAllowed(k, in)
  PROVE  /\ Record(k, in) \in MockRow(k)
         /\ k # "contact" => Record(k, in).contactId \in Ids("contact")
<1>1. CASE k = "contact"
  <2>1. \A f \in ContactFields : Given(in, f, Blank) \in MockTexts
    BY <1>1, CallTyped, TextAssumption DEF Given, MockTexts
  <2> QED BY <1>1, <2>1 DEF Record, MockRow
<1>2. CASE k = "deal"
  <2>1. /\ Belongs(in) /\ Filled(in, "title") /\ StageOf(in) \in Stages
    BY <1>2 DEF CreateAllowed
  <2>2. "title" \in DOMAIN in
    BY <2>1, TextAssumption DEF Filled, Given, IsBlank
  <2>3. /\ in["contactId"] \in Nat /\ in["title"] \in MockTexts
        /\ NumberOf(Given(in, "value", 0)) \in Amounts
        /\ Given(in, "expectedClose", Blank) \in Dates \cup {NoDate, Blank}
    BY <1>2, <2>1, <2>2, BelongsToStored, CallTyped, NumberTyped DEF Given
  <2>4. Record(k, in) = [contactId |-> in["contactId"], title |-> in["title"],
                         stage |-> StageOf(in), value |-> NumberOf(Given(in, "value", 0)),
                         expectedClose |-> Given(in, "expectedClose", Blank)]
    BY <1>2 DEF Record
  <2> QED BY <1>2, <2>1, <2>3, <2>4, BelongsToStored DEF MockRow
<1>3. CASE k = "activity"
  <2>1. /\ Belongs(in) /\ Filled(in, "note") /\ Given(in, "type", Blank) \in ActivityTypes
    BY <1>3 DEF CreateAllowed
  <2>2. "note" \in DOMAIN in /\ "type" \in DOMAIN in /\ in["type"] \in ActivityTypes
    BY <2>1, TextAssumption, FieldAssumption DEF Filled, Given, IsBlank
  <2>3. in["contactId"] \in Nat /\ in["note"] \in Texts
    BY <1>3, <2>1, <2>2, BelongsToStored, CallTyped DEF MockTexts, Filled, Given
  <2>4. Record(k, in) = [contactId |-> in["contactId"], type |-> in["type"],
                         note |-> Strip[in["note"]]]
    BY <1>3 DEF Record
  <2> QED BY <1>3, <2>1, <2>2, <2>3, <2>4, BelongsToStored, StripText DEF ActivityRows, MockRow
<1> QED BY <1>1, <1>2, <1>3 DEF Kinds

(* So have the rows of an update.                                           *)
LEMMA MergedTyped ==
  ASSUME MockInv, NEW k \in {"contact", "deal"}, NEW in, IsCall(k, in),
         NEW i \in DOMAIN rows[k], NEW id, UpdateAllowed(k, id, in)
  PROVE  /\ Merged(rows[k][i].row, in) \in MockRow(k)
         /\ k = "deal" => Merged(rows[k][i].row, in).contactId \in Ids("contact")
<1> DEFINE old == rows[k][i].row
<1>1. old \in MockRow(k) /\ (k = "deal" => old.contactId \in Ids("contact"))
  BY EntryTyped DEF MockInv, Kinds
<1>2. CASE k = "contact"
  <2>1. "value" \notin ContactFields
    BY FieldAssumption DEF ContactFields, DealFields
  <2> QED BY <1>1, <1>2, <2>1, CallTyped DEF Merged, MockRow
<1>3. CASE k = "deal"
  <2>1. old \in MockRow("deal")
    BY <1>1, <1>3
  <2>3. /\ "contactId" \in DOMAIN in => in["contactId"] \in Nat \cap Ids("contact")
        /\ "title" \in DOMAIN in => in["title"] \in MockTexts
        /\ "stage" \in DOMAIN in => in["stage"] \in Stages
        /\ "expectedClose" \in DOMAIN in => in["expectedClose"] \in Dates \cup {NoDate, Blank}
        /\ NumberOf(in["value"]) \in Amounts
    BY <1>3, CallTyped, BelongsToStored, NumberTyped DEF UpdateAllowed
  <2> HIDE DEF old
  <2>4. Merged(old, in) \in MockRow("deal")
    BY <2>1, <2>3 DEF Merged, MockRow
  <2>5. Merged(old, in).contactId \in Ids("contact")
    BY <1>1, <1>3, <2>1, <2>3 DEF Merged, MockRow
  <2> QED BY <1>3, <2>4, <2>5 DEF old
<1> QED BY <1>2, <1>3

-----------------------------------------------------------------------------
(* Every step keeps the invariant.                                          *)

LEMMA InitMock == Init => MockInv
<1> SUFFICES ASSUME Init PROVE MockInv
  OBVIOUS
<1>1. ASSUME NEW k \in Kinds
      PROVE  /\ Len(Seed[k]) \in Nat /\ Len(Seed[k]) <= FirstId
             /\ DOMAIN Seed[k] = 1..Len(Seed[k]) /\ DOMAIN rows[k] = 1..Len(Seed[k])
             /\ rows[k] \in [1..Len(Seed[k]) -> Entry(k)]
  <2>1. /\ Len(Seed[k]) \in Nat /\ DOMAIN Seed[k] = 1..Len(Seed[k])
        /\ Len(Seed[k]) <= FirstId /\ FirstId \in Nat
        /\ \A i \in 1..Len(Seed[k]) : Seed[k][i] \in Rows[k]
    BY Constants
  <2>2. rows[k] = [i \in DOMAIN Seed[k] |->
                    [id |-> i, row |-> Seed[k][i],
                     tags |-> IF k = "contact" THEN SeedTags[i] ELSE {}]]
    BY DEF Init
  <2>3. ASSUME NEW i \in 1..Len(Seed[k])
        PROVE  [id |-> i, row |-> Seed[k][i],
                tags |-> IF k = "contact" THEN SeedTags[i] ELSE {}] \in Entry(k)
    <3>1. Seed[k][i] \in MockRow(k) /\ i \in Nat
      BY <2>1, SeedRows
    <3>2. k = "contact" => SeedTags[i] \in SUBSET Tidy
      BY <2>1, MockAssumption
    <3>3. (IF k = "contact" THEN SeedTags[i] ELSE {}) \in SUBSET Tidy
      BY <3>2
    <3> QED BY <3>1, <3>3 DEF Entry
  <2> QED BY <2>1, <2>2, <2>3
<1>2. ASSUME NEW k \in Kinds, NEW i \in DOMAIN rows[k]
      PROVE  rows[k][i].id = i /\ rows[k][i].row = Seed[k][i]
  <2>1. rows[k] = [j \in DOMAIN Seed[k] |->
                    [id |-> j, row |-> Seed[k][j],
                     tags |-> IF k = "contact" THEN SeedTags[j] ELSE {}]]
    BY DEF Init
  <2>2. rows[k][i] = [id |-> i, row |-> Seed[k][i],
                      tags |-> IF k = "contact" THEN SeedTags[i] ELSE {}]
    BY <2>1
  <2> QED BY <2>2
<1>3. ASSUME NEW k \in Kinds
      PROVE  /\ rows[k] \in Seq(Entry(k)) /\ Len(Seed[k]) <= Len(rows[k])
             /\ Len(rows[k]) + FirstId <= Len(Seed[k]) + counter
             /\ \A i \in DOMAIN rows[k] : /\ rows[k][i].id <= counter
                                          /\ i \in DOMAIN Seed[k] /\ rows[k][i].id = i
                                          /\ \A j \in DOMAIN rows[k] :
                                               rows[k][i].id = rows[k][j].id => i = j
  <2>1. rows[k] \in Seq(Entry(k))
    BY <1>1, SeqDef
  <2>2. 1..Len(rows[k]) = 1..Len(Seed[k]) /\ Len(rows[k]) \in Nat
    BY <1>1, <2>1, LenProperties
  <2>3. Len(rows[k]) = Len(Seed[k]) /\ counter = FirstId /\ FirstId \in Nat
    BY <1>1, <2>2, Constants DEF Init
  <2>4. \A i \in DOMAIN rows[k] : rows[k][i].id = i /\ i <= counter
    BY <1>1, <1>2, <2>3
  <2> QED BY <1>1, <2>1, <2>3, <2>4
<1>5. ASSUME NEW k \in {"deal", "activity"}, NEW i \in DOMAIN rows[k]
      PROVE  rows[k][i].row.contactId \in Ids("contact")
  <2>1. k \in Kinds /\ "contact" \in Kinds
    BY DEF Kinds
  <2>2. rows[k][i].row = Seed[k][i] /\ i \in DOMAIN Seed[k]
    BY <1>1, <1>2, <2>1
  <2>3. Seed[k][i].contactId \in DOMAIN rows["contact"]
    BY <1>1, <2>1, <2>2, MockAssumption
  <2>4. rows["contact"][Seed[k][i].contactId].id = Seed[k][i].contactId
    BY <1>2, <2>1, <2>3
  <2> QED BY <2>2, <2>3, <2>4 DEF Ids
<1>4. counter \in FirstId..FirstId + MaxCreates /\ queue \in Seq(Requests) /\ DOMAIN rows = Kinds
  BY Constants DEF Init
<1> QED BY <1>3, <1>4, <1>5 DEF MockInv

LEMMA CreateInv ==
  ASSUME MockInv, NEW r \in Requests, r.verb = "create", CreateAllowed(r.kind, r.input),
         counter < FirstId + MaxCreates, Create(r), queue' \in Seq(Requests)
  PROVE  /\ MockInv'
         /\ Len(rows[r.kind]) \in Nat
         /\ rows' = [rows EXCEPT ![r.kind] =
                       Append(@, [id |-> counter + 1, row |-> Record(r.kind, r.input),
                                  tags |-> Normalised(r.tags)])]
<1> DEFINE k == r.kind
           new == [id |-> counter + 1, row |-> Record(k, r.input), tags |-> Normalised(r.tags)]
<1>1. k \in Kinds /\ counter \in Nat /\ counter + 1 \in FirstId..FirstId + MaxCreates
  BY RequestFacts, MockAssumption DEF MockInv
<1>2. counter' = counter + 1 /\ rows' = [rows EXCEPT ![k] = Append(@, new)]
  BY DEF Create, NewId
<1>3. /\ new \in Entry(k)
      /\ k # "contact" => new.row.contactId \in Ids("contact")
  BY <1>1, RequestFacts, RecordTyped, NormalisedTidy DEF Entry
<1>4. new.id = counter + 1
  OBVIOUS
<1> HIDE DEF new
<1>5. /\ rows[k] \in Seq(Entry(k)) /\ Len(rows[k]) \in Nat /\ DOMAIN rows[k] = 1..Len(rows[k])
      /\ \A i \in DOMAIN rows[k] : rows[k][i].id \in Nat /\ rows[k][i].id <= counter
  BY <1>1, EntryTyped DEF MockInv
<1>6. DOMAIN rows' = Kinds /\ \A m \in Kinds \ {k} : rows'[m] = rows[m]
  BY <1>1, <1>2 DEF MockInv
<1>7. /\ rows'[k] \in Seq(Entry(k)) /\ DOMAIN rows'[k] = 1..Len(rows[k]) + 1
      /\ Len(rows'[k]) = Len(rows[k]) + 1
      /\ \A i \in 1..Len(rows[k]) : rows'[k][i] = rows[k][i]
      /\ rows'[k][Len(rows[k]) + 1] = new
  <2>1. rows'[k] = Append(rows[k], new)
    BY <1>1, <1>2 DEF MockInv
  <2>2. new \in Entry(k) /\ rows[k] \in Seq(Entry(k))
    BY <1>3, <1>5
  <2> HIDE DEF k
  <2>3. /\ rows'[k] \in Seq(Entry(k)) /\ Len(rows'[k]) = Len(rows[k]) + 1
        /\ \A i \in 1..Len(rows[k]) : rows'[k][i] = rows[k][i]
        /\ rows'[k][Len(rows[k]) + 1] = new
    BY <2>1, <2>2, AppendProperties
  <2> QED BY <2>3, LenProperties
<1>8. ASSUME NEW m \in Kinds
      PROVE  /\ rows'[m] \in Seq(Entry(m)) /\ Len(Seed[m]) <= Len(rows'[m])
             /\ Len(rows'[m]) + FirstId <= Len(Seed[m]) + counter'
             /\ \A i \in DOMAIN rows'[m] :
                  /\ rows'[m][i].id <= counter'
                  /\ \A j \in DOMAIN rows'[m] : rows'[m][i].id = rows'[m][j].id => i = j
                  /\ IF i \in DOMAIN Seed[m] THEN rows'[m][i].id = i
                     ELSE rows'[m][i].id > FirstId
  <2>1. CASE m = k
    <3>1. Len(rows[k]) + FirstId <= Len(Seed[k]) + counter /\ Len(Seed[k]) \in Nat
      BY <1>1, MockAssumption, LenProperties DEF MockInv
    <3>2. \A i \in DOMAIN rows[k] : \A j \in DOMAIN rows[k] :
            rows[k][i].id = rows[k][j].id => i = j
      BY <1>1 DEF MockInv
    <3>3. counter' = counter + 1 /\ counter \in Nat /\ FirstId \in Nat
      BY <1>1, <1>2, Constants
    <3>4. \A i \in 1..Len(rows[k]) + 1 :
            \/ i \in DOMAIN rows[k] /\ rows'[k][i].id = rows[k][i].id
            \/ i = Len(rows[k]) + 1 /\ rows'[k][i].id = counter + 1
      BY <1>4, <1>5, <1>7
    <3>5. \A i \in DOMAIN rows[k] : rows[k][i].id # counter + 1 /\ rows[k][i].id <= counter + 1
      BY <1>5, <3>3
    <3>6. \A i \in DOMAIN rows'[k] :
            /\ rows'[k][i].id <= counter'
            /\ \A j \in DOMAIN rows'[k] : rows'[k][i].id = rows'[k][j].id => i = j
      <4> HIDE DEF k
      <4>1. \A i \in DOMAIN rows'[k] : rows'[k][i].id <= counter'
        BY <1>7, <3>3, <3>4, <3>5
      <4>2. ASSUME NEW i \in DOMAIN rows'[k], NEW j \in DOMAIN rows'[k],
                   rows'[k][i].id = rows'[k][j].id
            PROVE  i = j
        <5>1. (i \in DOMAIN rows[k] \/ i = Len(rows[k]) + 1)
              /\ (j \in DOMAIN rows[k] \/ j = Len(rows[k]) + 1)
          BY <1>5, <1>7
        <5>2. \A n \in DOMAIN rows[k] : rows'[k][n] = rows[k][n]
          BY <1>5, <1>7
        <5>3. rows'[k][Len(rows[k]) + 1].id = counter + 1
          BY <1>4, <1>7
        <5> QED BY <3>2, <3>5, <4>2, <5>1, <5>2, <5>3
      <4> QED BY <4>1, <4>2
    <3>7. Len(rows'[k]) + FirstId <= Len(Seed[k]) + counter'
      <4> DEFINE l == Len(rows[k])
                 d == Len(Seed[k])
      <4>1. l \in Nat /\ d \in Nat /\ l + FirstId <= d + counter
        BY <1>5, <3>1
      <4>2. Len(rows'[k]) = l + 1
        BY <1>7
      <4> HIDE DEF l, d
      <4>3. (l + 1) + FirstId <= d + (counter + 1)
        BY ONLY <4>1, <3>3
      <4>4. Len(rows'[k]) + FirstId <= d + counter'
        BY <4>2, <4>3, <3>3
      <4> QED BY <4>4 DEF d
    <3>8. Len(Seed[k]) <= Len(rows[k]) /\ DOMAIN Seed[k] = 1..Len(Seed[k])
      BY <1>1, Constants DEF MockInv
    <3>9. \A i \in DOMAIN rows'[k] : IF i \in DOMAIN Seed[k] THEN rows'[k][i].id = i
                                     ELSE rows'[k][i].id > FirstId
      <4> HIDE DEF k
      <4>1. \A i \in DOMAIN rows[k] : IF i \in DOMAIN Seed[k] THEN rows[k][i].id = i
                                      ELSE rows[k][i].id > FirstId
        BY <1>1 DEF MockInv
      <4>2. Len(rows[k]) + 1 \notin DOMAIN Seed[k] /\ counter + 1 > FirstId
        BY <1>5, <3>1, <3>3, <3>8 DEF MockInv
      <4> QED BY <1>5, <1>7, <3>4, <4>1, <4>2
    <3>10. Len(Seed[k]) <= Len(rows'[k])
      BY <1>5, <1>7, <3>1, <3>8
    <3> QED BY <1>7, <2>1, <3>6, <3>7, <3>9, <3>10
  <2>2. CASE m # k
    <3>1. rows'[m] = rows[m]
      BY <1>6, <2>2
    <3>2. /\ Len(rows[m]) \in Nat /\ Len(Seed[m]) \in Nat
          /\ \A i \in DOMAIN rows[m] : rows[m][i].id \in Nat
      BY EntryTyped, Constants
    <3>3. counter' = counter + 1 /\ counter \in Nat /\ FirstId \in Nat
      BY <1>1, <1>2, Constants
    <3>4. /\ rows[m] \in Seq(Entry(m)) /\ Len(rows[m]) + FirstId <= Len(Seed[m]) + counter
          /\ Len(Seed[m]) <= Len(rows[m])
          /\ \A i \in DOMAIN rows[m] :
               /\ rows[m][i].id <= counter
               /\ \A j \in DOMAIN rows[m] : rows[m][i].id = rows[m][j].id => i = j
               /\ IF i \in DOMAIN Seed[m] THEN rows[m][i].id = i ELSE rows[m][i].id > FirstId
      BY DEF MockInv
    <3>5. /\ Len(rows[m]) + FirstId <= Len(Seed[m]) + counter'
          /\ \A i \in DOMAIN rows[m] : rows[m][i].id <= counter'
      <4>1. Len(rows[m]) + FirstId <= Len(Seed[m]) + (counter + 1)
        <5>1. Len(rows[m]) + FirstId <= Len(Seed[m]) + counter
          BY <3>4
        <5>2. Len(rows[m]) \in Nat /\ Len(Seed[m]) \in Nat
          BY <3>2
        <5> QED BY <3>3, <5>1, <5>2, OneMore
      <4>2. \A i \in DOMAIN rows[m] : rows[m][i].id <= counter + 1
        BY <3>2, <3>3, <3>4
      <4> QED BY <3>3, <4>1, <4>2
    <3> QED BY <3>1, <3>4, <3>5
  <2> QED BY <2>1, <2>2
<1>9. Ids("contact") \subseteq Ids("contact")'
  <2>1. ASSUME NEW i \in DOMAIN rows["contact"]
        PROVE  i \in DOMAIN rows'["contact"] /\ rows'["contact"][i] = rows["contact"][i]
    <3>1. "contact" \in Kinds
      BY DEF Kinds
    <3>2. CASE k = "contact"
      BY <1>5, <1>7, <3>2
    <3>3. CASE k # "contact"
      BY <1>6, <3>1, <3>3
    <3> QED BY <3>2, <3>3
  <2> QED BY <2>1 DEF Ids
<1>10. ASSUME NEW m \in {"deal", "activity"}, NEW i \in DOMAIN rows'[m]
       PROVE  rows'[m][i].row.contactId \in Ids("contact")'
  <2>1. \/ i \in DOMAIN rows[m] /\ rows'[m][i] = rows[m][i]
        \/ m = k /\ rows'[m][i] = new
    <3> HIDE DEF k
    <3>1. m \in Kinds
      BY DEF Kinds
    <3>2. CASE m = k
      <4>1. i \in 1..Len(rows[k]) + 1 /\ rows'[m] = rows'[k] /\ rows[m] = rows[k]
        BY <1>7, <3>2
      <4>2. CASE i \in 1..Len(rows[k])
        <5>1. i \in DOMAIN rows[k] /\ rows'[k][i] = rows[k][i]
          BY <1>5, <1>7, <4>2
        <5> QED BY <4>1, <5>1
      <4>3. CASE i = Len(rows[k]) + 1
        BY <1>7, <3>2, <4>1, <4>3
      <4>4. i \in 1..Len(rows[k]) \/ i = Len(rows[k]) + 1
        <5>1. Len(rows[k]) \in Nat
          BY <1>5
        <5> QED BY ONLY <4>1, <5>1, LastOrEarlier
      <4> QED BY <4>2, <4>3, <4>4
    <3>3. CASE m # k
      BY <1>6, <3>1, <3>3
    <3> QED BY <3>2, <3>3
  <2>2. rows'[m][i].row.contactId \in Ids("contact")
    BY <1>3, <2>1 DEF MockInv
  <2> QED BY <1>9, <2>2
<1> QED BY <1>1, <1>2, <1>5, <1>6, <1>8, <1>10 DEF MockInv, new

(* An update changes the row under its id, and neither ids nor lengths.     *)
LEMMA UpdateEffect ==
  ASSUME MockInv, NEW r \in Requests, r.verb = "update",
         UpdateAllowed(r.kind, r.id, r.input), Update(r)
  PROVE  LET k == r.kind
             i == IndexOf(k, r.id)
         IN  \E new \in Entry(k) :
               /\ k \in {"contact", "deal"} /\ i \in DOMAIN rows[k] /\ rows[k][i].id = r.id
               /\ rows' = [rows EXCEPT ![k][i] = new]
               /\ new.id = r.id /\ new.row = Merged(rows[k][i].row, r.input)
<1> DEFINE k == r.kind
           i == IndexOf(k, r.id)
           e == rows[k][i]
           x == Merged(rows[k][i].row, r.input)
           y == IF r.tags = Absent THEN rows[k][i].tags ELSE Normalised(r.tags)
           new == [e EXCEPT !.row = x, !.tags = y]
<1>1. k \in {"contact", "deal"}
  BY RequestFacts DEF Kinds
<1>2. PICK j \in DOMAIN rows[k] : rows[k][j].id = r.id
  BY DEF UpdateAllowed, Ids
<1>3. i = j
  <2>1. DOMAIN rows[k] = 1..Len(rows[k]) /\ Len(rows[k]) \in Nat
    BY <1>1, EntryTyped DEF Kinds
  <2>2. \A n \in DOMAIN rows[k] : rows[k][n].id = rows[k][j].id => n = j
    BY <1>1, <1>2 DEF MockInv, Kinds
  <2>3. Index(rows[k], r.id) = j
    BY <1>2, <2>1, <2>2, IndexOfEntry
  <2> QED BY <2>3 DEF IndexOf, Index
<1>4. e \in Entry(k) /\ e.id = r.id
  BY <1>1, <1>2, <1>3, EntryTyped DEF Kinds
<1>5. rows' = [rows EXCEPT ![k][i] = new]
  BY DEF Update
<1>6. x \in MockRow(k) /\ y \subseteq Tidy
  <2>1. x \in MockRow(k)
    BY <1>1, <1>2, <1>3, RequestFacts, MergedTyped
  <2>2. y \subseteq Tidy
    BY <1>4, RequestFacts, NormalisedTidy DEF Entry
  <2> QED BY <2>1, <2>2
<1> HIDE DEF x, y, e, i
<1>7. new \in Entry(k) /\ new.id = r.id /\ new.row = x
  BY <1>4, <1>6 DEF Entry
<1> HIDE DEF new
<1>8. i \in DOMAIN rows[k] /\ rows[k][i].id = r.id
  BY <1>2, <1>3
<1> QED BY <1>1, <1>5, <1>7, <1>8 DEF x, e, i

LEMMA UpdateInv ==
  ASSUME MockInv, NEW r \in Requests, r.verb = "update",
         UpdateAllowed(r.kind, r.id, r.input), Update(r), counter' = counter,
         queue' \in Seq(Requests)
  PROVE  MockInv'
<1> DEFINE k == r.kind
           i == IndexOf(k, r.id)
<1>1. PICK new \in Entry(k) :
        /\ k \in {"contact", "deal"} /\ i \in DOMAIN rows[k] /\ rows[k][i].id = r.id
        /\ rows' = [rows EXCEPT ![k][i] = new]
        /\ new.id = r.id /\ new.row = Merged(rows[k][i].row, r.input)
  BY UpdateEffect
<1>2. k = "deal" => new.row.contactId \in Ids("contact")
  BY <1>1, RequestFacts, MergedTyped
<1> HIDE DEF k, i
<1>3. DOMAIN rows' = Kinds /\ k \in Kinds /\ \A m \in Kinds \ {k} : rows'[m] = rows[m]
  BY <1>1 DEF MockInv, Kinds
<1>4. /\ rows[k] \in Seq(Entry(k)) /\ Len(rows[k]) \in Nat /\ DOMAIN rows[k] = 1..Len(rows[k])
  BY <1>3, EntryTyped DEF MockInv
<1>5. /\ rows'[k] \in Seq(Entry(k)) /\ Len(rows'[k]) = Len(rows[k])
      /\ DOMAIN rows'[k] = DOMAIN rows[k]
      /\ \A j \in DOMAIN rows[k] : rows'[k][j] = IF j = i THEN new ELSE rows[k][j]
  <2>1. rows'[k] = [rows[k] EXCEPT ![i] = new]
    BY <1>1, <1>3 DEF MockInv
  <2> QED BY <1>1, <1>4, <2>1, ExceptSeq
<1>6. \A j \in DOMAIN rows[k] : rows'[k][j].id = rows[k][j].id
  BY <1>1, <1>5
<1>7. ASSUME NEW m \in Kinds
      PROVE  /\ rows'[m] \in Seq(Entry(m)) /\ Len(rows'[m]) = Len(rows[m])
             /\ DOMAIN rows'[m] = DOMAIN rows[m]
             /\ \A j \in DOMAIN rows[m] : rows'[m][j].id = rows[m][j].id
  BY <1>3, <1>5, <1>6 DEF MockInv
<1>8. Ids("contact")' = Ids("contact")
  <2>1. "contact" \in Kinds
    BY DEF Kinds
  <2> QED BY <1>7, <2>1 DEF Ids
<1>9. ASSUME NEW m \in {"deal", "activity"}, NEW j \in DOMAIN rows'[m]
      PROVE  rows'[m][j].row.contactId \in Ids("contact")'
  <2>1. m \in Kinds /\ j \in DOMAIN rows[m] /\ rows[m][j].row.contactId \in Ids("contact")
    BY <1>7 DEF Kinds, MockInv
  <2>2. CASE m = k
    BY <1>1, <1>2, <1>5, <1>8, <2>1, <2>2
  <2>3. CASE m # k
    BY <1>3, <1>8, <2>1, <2>3
  <2> QED BY <2>2, <2>3
<1>10. ASSUME NEW m \in Kinds
       PROVE  /\ Len(rows'[m]) + FirstId <= Len(Seed[m]) + counter'
              /\ Len(Seed[m]) <= Len(rows'[m])
              /\ \A n \in DOMAIN rows'[m] :
                   /\ rows'[m][n].id <= counter'
                   /\ \A j \in DOMAIN rows'[m] : rows'[m][n].id = rows'[m][j].id => n = j
                   /\ IF n \in DOMAIN Seed[m] THEN rows'[m][n].id = n
                      ELSE rows'[m][n].id > FirstId
  BY <1>7 DEF MockInv
<1> QED BY <1>3, <1>7, <1>9, <1>10 DEF MockInv

(* A call that goes on creates, updates, or changes no row.                 *)
LEMMA NextSteps ==
  ASSUME MockInv, Next
  PROVE  /\ queue' \in Seq(Requests)
         /\ \/ UNCHANGED <<rows, counter>>
            \/ \E r \in Requests : /\ r.verb = "create" /\ CreateAllowed(r.kind, r.input)
                                   /\ counter < FirstId + MaxCreates /\ Create(r)
            \/ \E r \in Requests : /\ r.verb = "update" /\ UpdateAllowed(r.kind, r.id, r.input)
                                   /\ Update(r) /\ counter' = counter
<1>1. CASE Resume
  <2> DEFINE r == Head(queue)
  <2>1. r \in Requests /\ queue' \in Seq(Requests)
    BY <1>1, HeadTailProperties DEF Resume, MockInv
  <2>2. \/ UNCHANGED <<rows, counter>>
        \/ Allowed(r) /\ r.verb = "create" /\ counter < FirstId + MaxCreates /\ Create(r)
        \/ Allowed(r) /\ r.verb = "update" /\ Update(r)
    BY <1>1 DEF Resume
  <2> HIDE DEF r
  <2>3. Allowed(r) /\ r.verb = "create" => CreateAllowed(r.kind, r.input)
    BY DEF Allowed
  <2>4. Allowed(r) /\ r.verb = "update" => UpdateAllowed(r.kind, r.id, r.input)
    BY DEF Allowed
  <2>5. Update(r) => counter' = counter
    BY DEF Update
  <2> QED BY <2>1, <2>2, <2>3, <2>4, <2>5
<1>2. CASE \E r \in Requests : Call(r)
  BY <1>2, AppendProperties DEF Call, MockInv
<1> QED BY <1>1, <1>2 DEF Next

LEMMA NextMock == MockInv /\ [Next]_vars => MockInv'
<1> SUFFICES ASSUME MockInv, [Next]_vars PROVE MockInv'
  OBVIOUS
<1>1. ASSUME UNCHANGED <<rows, counter>>, queue' \in Seq(Requests)
      PROVE  MockInv'
  BY <1>1 DEF MockInv, Ids
<1>2. CASE Next
  BY <1>1, <1>2, NextSteps, CreateInv, UpdateInv
<1>3. CASE UNCHANGED vars
  BY <1>1, <1>3 DEF vars, MockInv
<1> QED BY <1>2, <1>3

(* What the mock keeps is an invariant.                                     *)
THEOREM MockInvariant == Spec => []MockInv
BY InitMock, NextMock, PTL DEF Spec

-----------------------------------------------------------------------------
(* Ids of a kind differ, and what belongs to a contact belongs to one that  *)
(* is there, whatever calls were made (createMockService).                  *)
THEOREM MockIsConsistent == Spec => []MockConsistent
<1>1. MockInv => MockConsistent
  <2> SUFFICES ASSUME MockInv PROVE MockConsistent
    OBVIOUS
  <2>1. ASSUME NEW k \in Kinds PROVE Cardinality(Ids(k)) = Len(rows[k])
    <3> DEFINE f == [i \in 1..Len(rows[k]) |-> rows[k][i].id]
    <3>1. Len(rows[k]) \in Nat /\ DOMAIN rows[k] = 1..Len(rows[k])
      BY EntryTyped
    <3>2. f \in Bijection(1..Len(rows[k]), Ids(k))
      <4>1. \A i, j \in 1..Len(rows[k]) : f[i] = f[j] => i = j
        BY <3>1 DEF MockInv
      <4>2. f \in [1..Len(rows[k]) -> Ids(k)]
        BY <3>1 DEF Ids
      <4>3. \A n \in Ids(k) : \E i \in 1..Len(rows[k]) : f[i] = n
        BY <3>1 DEF Ids
      <4> HIDE DEF f
      <4> QED BY <4>1, <4>2, <4>3 DEF Bijection, Injection, Surjection, IsInjective
    <3>3. IsFiniteSet(1..Len(rows[k])) /\ Cardinality(1..Len(rows[k])) = Len(rows[k])
      BY <3>1, FS_Interval
    <3> QED BY <3>2, <3>3, FS_Bijection DEF ExistsBijection
  <2>2. ASSUME NEW k \in {"deal", "activity"}, NEW x \in Range(rows[k])
        PROVE  x.row.contactId \in Ids("contact")
    BY DEF MockInv, Range
  <2> QED BY <2>1, <2>2 DEF MockConsistent
<1> QED BY <1>1, MockInvariant, PTL

(* A contact is found under every spelling of its tags, because tags are    *)
(* normalised both when they are stored and when they are asked for.        *)
THEOREM TagsAreFindable == Spec => []TagsFindable
<1>1. MockInv => TagsFindable
  <2> SUFFICES ASSUME MockInv, NEW c \in Range(rows["contact"]), NEW t \in c.tags,
                      NEW u \in Texts, Strip[u] = Strip[t]
               PROVE  c \in Listed("contact", 0, {u})
    BY DEF TagsFindable
  <2>1. t \in Tidy
    BY EntryTyped DEF Range, Kinds
  <2>2. Normalised({u}) \subseteq {t}
    BY <2>1 DEF Normalised, Tidy
  <2> QED BY <2>2 DEF Listed
<1> QED BY <1>1, MockInvariant, PTL

-----------------------------------------------------------------------------
(* The rows as the catalogue sees them, with the contacts they refer to     *)
(* made explicit.                                                           *)

UniqueIds(s) ==
  /\ Len(s) \in Nat /\ DOMAIN s = 1..Len(s)
  /\ \A i, j \in DOMAIN s : s[i].id = s[j].id => i = j

(* A sequence that keeps the ids of another at their places.                *)
Extends(t, s) == \A i \in DOMAIN s : i \in DOMAIN t /\ t[i].id = s[i].id

LEMMA ContactsUnique ==
  /\ MockInv => UniqueIds(rows["contact"])
  /\ MockInv' => UniqueIds(rows'["contact"])
<1>1. MockInv => UniqueIds(rows["contact"])
  BY EntryTyped DEF MockInv, UniqueIds, Kinds
<1>2. ASSUME MockInv' PROVE UniqueIds(rows'["contact"])
  <2>1. "contact" \in Kinds
    BY DEF Kinds
  <2>2. rows'["contact"] \in Seq(Entry("contact"))
    BY <1>2, <2>1 DEF MockInv
  <2>3. /\ Len(rows'["contact"]) \in Nat
        /\ DOMAIN rows'["contact"] = 1..Len(rows'["contact"])
    BY <2>2, LenProperties
  <2>4. \A i, j \in DOMAIN rows'["contact"] :
          rows'["contact"][i].id = rows'["contact"][j].id => i = j
    BY <1>2, <2>1 DEF MockInv
  <2> QED BY <2>3, <2>4 DEF UniqueIds
<1> QED BY <1>1, <1>2

LEMMA IndexStable ==
  ASSUME NEW s, NEW t, UniqueIds(s), UniqueIds(t), Extends(t, s),
         NEW c \in {s[i].id : i \in DOMAIN s}
  PROVE  Index(t, c) = Index(s, c) /\ Index(s, c) \in DOMAIN s
<1>1. PICK i \in DOMAIN s : s[i].id = c
  OBVIOUS
<1>2. Index(s, c) = i
  BY <1>1, IndexOfEntry DEF UniqueIds
<1>3. Index(t, c) = i
  BY <1>1, IndexOfEntry DEF UniqueIds, Extends
<1> QED BY <1>1, <1>2, <1>3

(* An id that no entry has is found nowhere.                                *)
LEMMA IndexOfNone ==
  ASSUME NEW s, UniqueIds(s), NEW c
  PROVE  Index(s, c) \in DOMAIN s <=> c \in {s[i].id : i \in DOMAIN s}
<1>1. CASE c \in {s[i].id : i \in DOMAIN s}
  BY <1>1, IndexStable DEF Extends
<1>2. CASE c \notin {s[i].id : i \in DOMAIN s}
  <2>1. {i \in 1..Len(s) : s[i].id = c} = {}
    BY <1>2 DEF UniqueIds
  <2>2. Index(s, c) = 0
    BY <2>1 DEF Index, SelectInSeq
  <2> QED BY <1>2, <2>2 DEF UniqueIds
<1> QED BY <1>1, <1>2

(* Only the columns of deals and activities refer to contacts.              *)
LEMMA RowColumns ==
  ASSUME NEW k \in Kinds, NEW row \in MockRow(k)
  PROVE  /\ DOMAIN row = FieldsOf[k] /\ ("contactId" \in FieldsOf[k] <=> k # "contact")
         /\ row = [f \in DOMAIN row |-> row[f]]
<1>1. CASE k = "contact"
  <2>1. "contactId" \notin ContactFields
    BY FieldAssumption DEF ContactFields, DealFields
  <2> QED BY <1>1, <2>1, ByKind DEF MockRow
<1>2. CASE k = "deal"
  BY <1>2, ByKind DEF MockRow, DealFields
<1>3. CASE k = "activity"
  BY <1>3, ByKind DEF MockRow, ActivityRows, ActivityFields
<1> QED BY <1>1, <1>2, <1>3 DEF Kinds

LEMMA ReadStable ==
  ASSUME NEW s, NEW t, UniqueIds(s), UniqueIds(t), Extends(t, s),
         NEW k \in Kinds, NEW row \in MockRow(k),
         k # "contact" => row.contactId \in {s[i].id : i \in DOMAIN s}
  PROVE  Read(t, row) = Read(s, row)
<1>1. "contactId" \in DOMAIN row => Index(t, row["contactId"]) = Index(s, row["contactId"])
  BY RowColumns, IndexStable
<1> QED BY <1>1 DEF Read

(* The catalogue's copies of the pure operators are the mock's.             *)
LEMMA SameRules ==
  ASSUME NEW k, NEW in, NEW f, NEW v
  PROVE  /\ Catalog!CreateAccepted(k, in) = CreateAccepted(k, in)
         /\ Catalog!PatchAccepted(k, in) = PatchAccepted(k, in)
         /\ Catalog!NewRow(k, in) = NewRow(k, in)
         /\ Catalog!Stored(k, f, v) = Stored(k, f, v)
BY DEF Catalog!CreateAccepted, CreateAccepted, Catalog!ContactAccepted, ContactAccepted,
       Catalog!DealAccepted, DealAccepted, Catalog!ActivityAccepted, ActivityAccepted,
       Catalog!PatchAccepted, PatchAccepted,
       Catalog!NewRow, NewRow, Catalog!Stored, Stored, Catalog!Mandatory, Mandatory,
       Catalog!IsBlank, IsBlank, Catalog!Given, Given, Catalog!NewStage, NewStage,
       Catalog!NewContact, NewContact, Catalog!NewDeal, NewDeal,
       Catalog!NewActivity, NewActivity, Catalog!ContactFields, ContactFields

-----------------------------------------------------------------------------
(* What a call says to the catalogue.                                       *)

LEMMA TextColumns ==
  /\ TextFields \cap {"contactId", "value", "expectedClose", "stage", "type"} = {}
  /\ ContactFields \subseteq TextFields /\ "title" \in TextFields /\ "note" \in TextFields
BY FieldAssumption DEF TextFields, ContactFields, DealFields, ActivityFields

LEMMA PlainText ==
  ASSUME NEW f \in TextFields, NEW v \in MockTexts
  PROVE  /\ Plain(f, v) \in Texts /\ Strip[Plain(f, v)] = Plain(f, v)
         /\ IsBlank(Plain(f, v)) <=> v = Null \/ IsBlank(v)
         /\ v # Null => Plain(f, v) = Strip[v]
         /\ Plain(f, Blank) = Blank
BY TextColumns, TextAssumption, MockAssumption DEF Plain, MockTexts, IsBlank

LEMMA PlainOther ==
  /\ \A v : Plain("value", v) = NumberOf(v)
  /\ \A v : Plain("expectedClose", v) = IF v = Blank THEN NoDate ELSE v
  /\ \A v : Plain("stage", v) = IF v = Null THEN Blank ELSE v
  /\ \A v : Plain("type", v) = IF v = Null THEN Blank ELSE v
BY TextColumns DEF Plain

(* The input of Asked(r, n, m).                                             *)
LEMMA AskedInput ==
  ASSUME NEW r, NEW n, NEW m
  PROVE  LET q == Asked(r, n, m).input
             in == r.input
         IN  /\ DOMAIN q = DOMAIN in
             /\ \A f \in DOMAIN in : q[f] = IF f = "contactId" THEN m ELSE Plain(f, in[f])
             /\ \A f, d : f # "contactId" =>
                  Given(q, f, d) = IF f \in DOMAIN in THEN Plain(f, in[f]) ELSE d
             /\ Given(q, "contactId", 0) = IF "contactId" \in DOMAIN in THEN m ELSE 0
BY DEF Asked, Given

(* A create that one of the two accepts is accepted by the other.           *)
LEMMA SameCreates ==
  ASSUME MockInv, NEW r \in Requests, NEW n
  PROVE  LET m == IndexOf("contact", ContactOf(r))
             q == Asked(r, n, m).input
         IN  CreateAllowed(r.kind, r.input) <=>
               /\ CreateAccepted(r.kind, q)
               /\ r.kind # "contact" => q["contactId"] \in DOMAIN rows["contact"]
<1> DEFINE k == r.kind
           in == r.input
           m == IndexOf("contact", ContactOf(r))
           q == Asked(r, n, m).input
           s == rows["contact"]
<1>1. k \in Kinds /\ IsCall(k, in)
  BY RequestFacts
<1>2. UniqueIds(s) /\ 0 \notin DOMAIN s
  BY ContactsUnique DEF UniqueIds
<1>3. m \in DOMAIN s <=> ContactOf(r) \in Ids("contact")
  BY <1>2, IndexOfNone DEF IndexOf, Ids
<1>4. /\ DOMAIN q = DOMAIN in
      /\ \A f \in DOMAIN in : q[f] = IF f = "contactId" THEN m ELSE Plain(f, in[f])
      /\ \A f, d : f # "contactId" =>
           Given(q, f, d) = IF f \in DOMAIN in THEN Plain(f, in[f]) ELSE d
      /\ Given(q, "contactId", 0) = IF "contactId" \in DOMAIN in THEN m ELSE 0
  BY AskedInput
<1>5. ContactOf(r) = Given(in, "contactId", 0)
  BY DEF ContactOf
<1> HIDE DEF q, m, s
<1>6. Belongs(in) <=> /\ Given(q, "contactId", 0) # 0
                      /\ q["contactId"] \in DOMAIN s
  <2>1. Belongs(in) => "contactId" \in DOMAIN in /\ m \in DOMAIN s
    BY <1>3, <1>5 DEF Belongs, Given
  <2>2. CASE "contactId" \in DOMAIN in
    <3>1. in["contactId"] # 0 \/ m \notin DOMAIN s
      <4>1. ASSUME in["contactId"] = 0 PROVE 0 \notin Ids("contact")
        <5>1. \A i \in DOMAIN rows["contact"] :
                rows["contact"][i].id = i \/ rows["contact"][i].id > FirstId
          BY DEF MockInv, Kinds
        <5>2. \A i \in DOMAIN rows["contact"] : i # 0 /\ rows["contact"][i].id \in Nat
          BY <1>2, EntryTyped DEF Kinds, s
        <5> QED BY <5>1, <5>2, Constants DEF Ids
      <4> QED BY <1>3, <1>5, <2>2, <4>1 DEF Given
    <3> QED BY <1>2, <1>3, <1>4, <1>5, <2>2, <3>1 DEF Belongs, Given
  <2> QED BY <1>4, <2>1, <2>2
<1>7. ASSUME NEW f \in TextFields, f \in DOMAIN in => in[f] \in MockTexts
      PROVE  Filled(in, f) <=> ~ IsBlank(Given(q, f, Blank))
  BY <1>4, <1>7, PlainText, TextColumns, TextAssumption, MockAssumption
     DEF Filled, Given, IsBlank, MockTexts
<1>8. CASE k = "contact"
  <2>1. \A f \in {"name", "company"} : f \in TextFields /\ (f \in DOMAIN in => in[f] \in MockTexts)
    BY <1>1, <1>8, CallTyped DEF TextFields, ContactFields
  <2> QED BY <1>7, <1>8, <2>1 DEF CreateAllowed, CreateAccepted, ContactAccepted, q, m
<1>9. CASE k = "deal"
  <2>1. Filled(in, "title") <=> ~ IsBlank(Given(q, "title", Blank))
    BY <1>1, <1>7, <1>9, CallTyped, TextColumns
  <2>2. NewStage(q) = StageOf(in)
    BY <1>4, PlainOther, MockAssumption DEF NewStage, StageOf, Given
  <2> QED BY <1>6, <1>9, <2>1, <2>2 DEF CreateAllowed, CreateAccepted, DealAccepted, q, m, s
<1>10. CASE k = "activity"
  <2>1. Filled(in, "note") <=> ~ IsBlank(Given(q, "note", Blank))
    BY <1>1, <1>7, <1>10, CallTyped, TextColumns
  <2>2. Given(in, "type", Blank) \in ActivityTypes <=> Given(q, "type", Blank) \in ActivityTypes
    BY <1>4, PlainOther, MockAssumption, FieldAssumption DEF Given
  <2> QED BY <1>6, <1>10, <2>1, <2>2 DEF CreateAllowed, CreateAccepted, ActivityAccepted, q, m, s
<1> QED BY <1>1, <1>8, <1>9, <1>10 DEF Kinds, q, m, s

(* So is an update, if it gives no null for a text that must be there.      *)
NoNullText(r) == \A f \in {"name", "company", "title"} \cap DOMAIN r.input : r.input[f] # Null

LEMMA SameUpdates ==
  ASSUME MockInv, NEW r \in Requests, r.verb = "update", NoNullText(r)
  PROVE  LET n == IndexOf(r.kind, r.id)
             m == IndexOf("contact", ContactOf(r))
             q == Asked(r, n, m).input
         IN  UpdateAllowed(r.kind, r.id, r.input) <=>
               /\ n \in DOMAIN rows[r.kind]
               /\ PatchAccepted(r.kind, q)
               /\ "contactId" \in DOMAIN q => q["contactId"] \in DOMAIN rows["contact"]
<1> DEFINE k == r.kind
           in == r.input
           n == IndexOf(k, r.id)
           m == IndexOf("contact", ContactOf(r))
           q == Asked(r, n, m).input
           s == rows["contact"]
<1>1. k \in {"contact", "deal"} /\ k \in Kinds /\ IsCall(k, in)
  BY RequestFacts DEF Kinds
<1>2. UniqueIds(s) /\ UniqueIds(rows[k])
  BY <1>1, ContactsUnique, EntryTyped DEF MockInv, UniqueIds
<1>3. /\ m \in DOMAIN s <=> ContactOf(r) \in Ids("contact")
      /\ n \in DOMAIN rows[k] <=> r.id \in Ids(k)
  BY <1>2, IndexOfNone DEF IndexOf, Ids
<1>4. /\ DOMAIN q = DOMAIN in
      /\ \A f \in DOMAIN in : q[f] = IF f = "contactId" THEN m ELSE Plain(f, in[f])
  BY AskedInput
<1>5. ContactOf(r) = Given(in, "contactId", 0)
  BY DEF ContactOf
<1> HIDE DEF q, m, n
<1>6. ASSUME "contactId" \in DOMAIN in
      PROVE  Belongs(in) <=> q["contactId"] \in DOMAIN s
  <2>1. 0 \notin Ids("contact")
    <3>1. \A i \in DOMAIN rows["contact"] :
            rows["contact"][i].id = i \/ rows["contact"][i].id > FirstId
      BY DEF MockInv, Kinds
    <3>2. \A i \in DOMAIN rows["contact"] : i # 0 /\ rows["contact"][i].id \in Nat
      BY <1>2, EntryTyped DEF Kinds, UniqueIds
    <3> QED BY <3>1, <3>2, Constants DEF Ids
  <2> QED BY <1>3, <1>4, <1>5, <1>6, <2>1 DEF Belongs, Given
<1>7. {"name", "company", "title"} \cap DOMAIN in = Mandatory[k] \cap DOMAIN in
  <2>1. DOMAIN in \subseteq FieldsOf[k]
    BY <1>1 DEF IsCall
  <2>2. "title" \notin ContactFields /\ "name" \notin DealFields /\ "company" \notin DealFields
    BY FieldAssumption DEF ContactFields, DealFields
  <2> QED BY <1>1, <2>1, <2>2, ByKind
<1>8. ASSUME NEW f \in Mandatory[k] \cap DOMAIN in
      PROVE  (in[f] = Null \/ ~ IsBlank(in[f])) <=> ~ IsBlank(q[f])
  <2>1. in[f] # Null
    BY <1>7 DEF NoNullText
  <2>2. f \in TextFields /\ f # "contactId" /\ in[f] \in MockTexts
    BY <1>1, CallTyped, ByKind, TextColumns DEF ContactFields
  <2> QED BY <1>4, <2>1, <2>2, PlainText
<1>9. "stage" \in DOMAIN in => (in["stage"] \in Stages <=> q["stage"] \in Stages)
  BY <1>4, PlainOther, MockAssumption, FieldAssumption
<1> QED BY <1>3, <1>4, <1>6, <1>7, <1>8, <1>9 DEF UpdateAllowed, PatchAccepted, q, m, n

(* The catalogue accepts a write as it now stands iff the mock does.        *)
Now(r) == Asked(r, IndexOf(r.kind, r.id), IndexOf("contact", ContactOf(r)))

LEMMA SameWrites ==
  ASSUME MockInv, NEW r \in Requests, r.verb \in {"create", "update"},
         r.verb = "update" => NoNullText(r)
  PROVE  Allowed(r) <=> Catalog!Accepts(Now(r))
<1> DEFINE q == Now(r)
<1>1. q.verb = r.verb /\ q.kind = r.kind /\ q.id = IndexOf(r.kind, r.id) /\ r.kind \in Kinds
  BY RequestFacts DEF Now, Asked
<1>2. \A k \in Kinds : DOMAIN Mapped[k] = DOMAIN rows[k]
  BY DEF Mapped, MappedOf
<1>3. "contact" \in Kinds
  BY DEF Kinds
<1>4. CASE r.verb = "create"
  <2>1. CreateAllowed(r.kind, r.input) <=>
          /\ CreateAccepted(r.kind, q.input)
          /\ r.kind # "contact" => q.input["contactId"] \in DOMAIN rows["contact"]
    BY SameCreates DEF Now
  <2>2. Allowed(r) <=> CreateAllowed(r.kind, r.input)
    BY <1>4 DEF Allowed
  <2> HIDE DEF q
  <2> QED BY <1>1, <1>2, <1>3, <1>4, <2>1, <2>2, SameRules DEF Catalog!Accepts, q
<1>5. CASE r.verb = "update"
  <2>1. UpdateAllowed(r.kind, r.id, r.input) <=>
          /\ q.id \in DOMAIN rows[r.kind]
          /\ PatchAccepted(r.kind, q.input)
          /\ "contactId" \in DOMAIN q.input => q.input["contactId"] \in DOMAIN rows["contact"]
    BY <1>1, <1>5, SameUpdates DEF Now
  <2>2. Allowed(r) <=> UpdateAllowed(r.kind, r.id, r.input)
    BY <1>5 DEF Allowed
  <2> HIDE DEF q
  <2> QED BY <1>1, <1>2, <1>3, <1>5, <2>1, <2>2, SameRules DEF Catalog!Accepts, q
<1> QED BY <1>4, <1>5

(* The catalogue makes the row of a new entry.                              *)
LEMMA RecordRead ==
  ASSUME MockInv, NEW r \in Requests, CreateAllowed(r.kind, r.input),
         NEW n, NEW s, s = rows["contact"]
  PROVE  Read(s, Record(r.kind, r.input))
           = NewRow(r.kind, Asked(r, n, IndexOf("contact", ContactOf(r))).input)
<1> DEFINE k == r.kind
           in == r.input
           m == IndexOf("contact", ContactOf(r))
           q == Asked(r, n, m).input
<1>1. k \in Kinds /\ IsCall(k, in)
  BY RequestFacts
<1>2. /\ DOMAIN q = DOMAIN in
      /\ \A f \in DOMAIN in : q[f] = IF f = "contactId" THEN m ELSE Plain(f, in[f])
      /\ \A f, d : f # "contactId" =>
           Given(q, f, d) = IF f \in DOMAIN in THEN Plain(f, in[f]) ELSE d
  BY AskedInput
<1>3. Belongs(in) => "contactId" \in DOMAIN in /\ m = Index(s, in["contactId"])
  BY BelongsToStored DEF ContactOf, Given, IndexOf
<1> HIDE DEF q, m
<1>4. CASE k = "contact"
  <2>1. ASSUME NEW f \in ContactFields
        PROVE  /\ f # "contactId"
               /\ Plain(f, Given(in, f, Blank)) = Strip[Given(q, f, Blank)]
    <3>1. f \in TextFields /\ f # "contactId"
      BY TextColumns
    <3>2. f \in DOMAIN in => in[f] \in MockTexts
      BY <1>1, <1>4, CallTyped
    <3> QED BY <1>2, <3>1, <3>2, PlainText, TextAssumption DEF Given, MockTexts
  <2>2. Record(k, in) = [f \in ContactFields |-> Given(in, f, Blank)]
    BY <1>4 DEF Record
  <2>3. NewRow(k, q) = [f \in ContactFields |-> Strip[Given(q, f, Blank)]]
    BY <1>4 DEF NewRow, NewContact
  <2> QED BY <2>1, <2>2, <2>3 DEF Read, q, m
<1>5. CASE k = "deal"
  <2>1. Belongs(in) /\ Filled(in, "title")
    BY <1>5 DEF CreateAllowed
  <2>2. "title" \in DOMAIN in /\ in["title"] \in MockTexts /\ in["title"] # Null
    BY <1>1, <1>5, <2>1, CallTyped, TextAssumption DEF Filled, Given, IsBlank
  <2>3. NewStage(q) = StageOf(in)
    BY <1>2, PlainOther, MockAssumption DEF NewStage, StageOf, Given
  <2>4. Plain("stage", StageOf(in)) = StageOf(in)
    BY <1>5, PlainOther, MockAssumption DEF CreateAllowed
  <2>5. /\ Given(q, "value", 0) = NumberOf(Given(in, "value", 0))
        /\ Plain("value", NumberOf(Given(in, "value", 0))) = NumberOf(Given(in, "value", 0))
    BY <1>2, PlainOther, NumberTyped, FieldAssumption DEF Given, NumberOf
  <2>6. Given(q, "expectedClose", NoDate) = Plain("expectedClose", Given(in, "expectedClose", Blank))
    BY <1>2, PlainOther DEF Given
  <2>7. q["title"] = Plain("title", in["title"]) /\ Strip[q["title"]] = Plain("title", in["title"])
    BY <1>2, <2>2, PlainText, TextColumns
  <2>8. q["contactId"] = m
    BY <1>2, <1>3, <2>1
  <2>9. NewRow(k, q) = [contactId |-> m, title |-> Strip[q["title"]], stage |-> StageOf(in),
                        value |-> Given(q, "value", 0),
                        expectedClose |-> Given(q, "expectedClose", NoDate)]
    BY <1>5, <2>3, <2>8 DEF NewRow, NewDeal
  <2>10. Record(k, in) = [contactId |-> in["contactId"], title |-> in["title"],
                          stage |-> StageOf(in), value |-> NumberOf(Given(in, "value", 0)),
                          expectedClose |-> Given(in, "expectedClose", Blank)]
    BY <1>5 DEF Record
  <2>11. Read(s, Record(k, in)) =
           [contactId |-> Index(s, in["contactId"]), title |-> Plain("title", in["title"]),
            stage |-> Plain("stage", StageOf(in)),
            value |-> Plain("value", NumberOf(Given(in, "value", 0))),
            expectedClose |-> Plain("expectedClose", Given(in, "expectedClose", Blank))]
    BY <2>10 DEF Read
  <2> QED BY <1>3, <2>1, <2>4, <2>5, <2>6, <2>7, <2>9, <2>11 DEF q, m
<1>6. CASE k = "activity"
  <2>1. Belongs(in) /\ Filled(in, "note") /\ Given(in, "type", Blank) \in ActivityTypes
    BY <1>6 DEF CreateAllowed
  <2>2. /\ "note" \in DOMAIN in /\ in["note"] \in Texts
        /\ "type" \in DOMAIN in /\ in["type"] \in ActivityTypes /\ in["type"] # Null
    BY <1>1, <1>6, <2>1, CallTyped, TextAssumption, FieldAssumption, MockAssumption
       DEF Filled, Given, IsBlank, MockTexts
  <2>3. /\ q["contactId"] = m /\ q["type"] = in["type"] /\ Plain("type", in["type"]) = in["type"]
        /\ Strip[q["note"]] = Plain("note", Strip[in["note"]])
    BY <1>2, <1>3, <2>1, <2>2, PlainText, PlainOther, TextColumns, TextAssumption, MockAssumption
       DEF MockTexts
  <2>4. NewRow(k, q) = [contactId |-> m, type |-> in["type"], note |-> Strip[q["note"]]]
    BY <1>6, <2>3 DEF NewRow, NewActivity
  <2>5. Record(k, in) = [contactId |-> in["contactId"], type |-> in["type"],
                         note |-> Strip[in["note"]]]
    BY <1>6 DEF Record
  <2>6. Read(s, Record(k, in)) =
          [contactId |-> Index(s, in["contactId"]), type |-> Plain("type", in["type"]),
           note |-> Plain("note", Strip[in["note"]])]
    BY <2>5 DEF Read
  <2> QED BY <1>3, <2>1, <2>3, <2>4, <2>6 DEF q, m
<1> QED BY <1>1, <1>4, <1>5, <1>6 DEF Kinds

(* The row under an id is at one of the places kept for it.                 *)
LEMMA InPlace ==
  ASSUME MockInv, NEW k \in Kinds, NEW id \in Nat, IndexOf(k, id) \in DOMAIN rows[k]
  PROVE  IndexOf(k, id) \in Places(k, id)
<1> DEFINE s == rows[k]
           i == IndexOf(k, id)
           a == Len(Seed[k])
<1>1. UniqueIds(s)
  BY EntryTyped DEF MockInv, UniqueIds
<1>2. s[i].id = id
  <2>1. id \in {s[j].id : j \in DOMAIN s}
    BY <1>1, IndexOfNone DEF IndexOf
  <2>2. PICK j \in DOMAIN s : s[j].id = id
    BY <2>1
  <2>3. Index(s, s[j].id) = j
    BY <1>1, IndexOfEntry DEF UniqueIds
  <2> QED BY <2>2, <2>3 DEF IndexOf
<1>3. /\ IF i \in DOMAIN Seed[k] THEN id = i ELSE id > FirstId
      /\ a <= Len(s) /\ Len(s) + FirstId <= a + counter
      /\ counter \in Nat /\ counter <= FirstId + MaxCreates
  BY <1>2, Constants DEF MockInv
<1>4. /\ i \in 1..Len(s) /\ Len(s) \in Nat /\ a \in Nat /\ DOMAIN Seed[k] = 1..a
      /\ a <= FirstId /\ FirstId \in Nat /\ MaxCreates \in Nat
  BY <1>1, Constants DEF UniqueIds
<1> HIDE DEF s, i, a
<1>5. IF id \in 1..a \cup {0} THEN i = id ELSE i \in a + 1..a + MaxCreates
  <2>1. CASE i \in 1..a
    BY <1>3, <1>4, <2>1
  <2>2. CASE i \notin 1..a
    <3>1. id > FirstId /\ i > a /\ Len(s) <= a + MaxCreates
      BY <1>3, <1>4, <2>2
    <3> QED BY <1>4, <3>1
  <2> QED BY <2>1, <2>2
<1> QED BY <1>4, <1>5 DEF Places, i, a

(* A write the mock carries out is among the requests of the catalogue.     *)
LEMMA NowIsRequest ==
  ASSUME MockInv, NEW r \in Requests, r.verb \in {"create", "update"}, Allowed(r)
  PROVE  LET n == IF r.verb = "update" THEN IndexOf(r.kind, r.id) ELSE r.id
             m == IndexOf("contact", ContactOf(r))
         IN  /\ Asked(r, n, m) \in MappedRequests
             /\ r.verb = "update" => n \in DOMAIN rows[r.kind]
<1> DEFINE k == r.kind
           in == r.input
           n == IF r.verb = "update" THEN IndexOf(k, r.id) ELSE r.id
           c == ContactOf(r)
           m == IndexOf("contact", c)
<1>1. k \in Kinds /\ "contact" \in Kinds /\ r.id \in Nat /\ IsCall(k, in)
      /\ (r.verb = "update" => k # "activity")
  BY RequestFacts DEF Kinds
<1>2. \A l \in Kinds : UniqueIds(rows[l])
  BY EntryTyped DEF MockInv, UniqueIds
<1>3. r.verb = "update" => IndexOf(k, r.id) \in DOMAIN rows[k]
  BY <1>1, <1>2, IndexOfNone DEF Allowed, UpdateAllowed, IndexOf, Ids
<1>4. "contactId" \in DOMAIN in => c \in Ids("contact") /\ c \in Nat
  <2> SUFFICES ASSUME "contactId" \in DOMAIN in
               PROVE  c \in Ids("contact") /\ c \in Nat
    OBVIOUS
  <2>1. in["contactId"] \in Nat /\ c = in["contactId"] /\ k # "contact"
    <3>1. "contactId" \notin ContactFields
      BY TextColumns
    <3>2. k # "contact"
      BY <1>1, <3>1, CallTyped
    <3> QED BY <1>1, <3>2, CallTyped DEF ContactOf, Given, Kinds
  <2>2. Belongs(in)
    BY <1>1, <2>1 DEF Allowed, CreateAllowed, UpdateAllowed, Kinds
  <2> QED BY <2>1, <2>2, BelongsToStored
<1>5. m \in Places("contact", c)
  <2>1. CASE "contactId" \in DOMAIN in
    <3>1. m \in DOMAIN rows["contact"]
      BY <1>1, <1>2, <1>4, <2>1, IndexOfNone DEF IndexOf, Ids
    <3> QED BY <1>1, <1>4, <2>1, <3>1, InPlace
  <2>2. CASE "contactId" \notin DOMAIN in
    <3>1. c = 0
      BY <2>2 DEF ContactOf, Given
    <3>2. m = 0
      <4>1. 0 \notin Ids("contact")
        <5>1. \A i \in DOMAIN rows["contact"] :
                rows["contact"][i].id = i \/ rows["contact"][i].id > FirstId
          BY <1>1 DEF MockInv
        <5>2. \A i \in DOMAIN rows["contact"] : i # 0 /\ rows["contact"][i].id \in Nat
          BY <1>1, <1>2, EntryTyped DEF UniqueIds
        <5> QED BY <5>1, <5>2, Constants DEF Ids
      <4>2. {i \in 1..Len(rows["contact"]) : rows["contact"][i].id = 0} = {}
        BY <1>1, <1>2, <4>1 DEF Ids, UniqueIds
      <4> QED BY <3>1, <4>2 DEF IndexOf, Index, SelectInSeq
    <3> QED BY <3>1, <3>2 DEF Places
  <2> QED BY <2>1, <2>2
<1>6. n \in IF r.verb = "update" THEN Places(k, r.id) ELSE {r.id}
  BY <1>1, <1>3, InPlace
<1> HIDE DEF n, m
<1>7. Asked(r, n, m) \in MappedRequests
  BY <1>5, <1>6 DEF MappedRequests
<1> QED BY <1>3, <1>7 DEF n, m

Placed(M, k, id, row) ==
  [M EXCEPT ![k] = [i \in DOMAIN M[k] \cup {id} |-> IF i = id THEN row ELSE M[k][i]]]

(* The catalogue's table after one row was added or changed.                *)
LEMMA MappedWith ==
  ASSUME NEW R, NEW T, NEW k \in Kinds, NEW id, NEW row,
         DOMAIN T[k] = DOMAIN R[k] \cup {id},
         Read(T["contact"], T[k][id].row) = row,
         \A i \in DOMAIN R[k] \ {id} :
           Read(T["contact"], T[k][i].row) = Read(R["contact"], R[k][i].row),
         \A l \in Kinds \ {k} : /\ DOMAIN T[l] = DOMAIN R[l]
                                /\ \A i \in DOMAIN R[l] :
                                     Read(T["contact"], T[l][i].row)
                                       = Read(R["contact"], R[l][i].row)
  PROVE  MappedOf(T) = Placed(MappedOf(R), k, id, row)
<1> DEFINE here(S, l) == [i \in DOMAIN S[l] |-> Read(S["contact"], S[l][i].row)]
           new == [i \in DOMAIN MappedOf(R)[k] \cup {id} |->
                     IF i = id THEN row ELSE MappedOf(R)[k][i]]
<1>1. /\ MappedOf(R) = [l \in Kinds |-> here(R, l)]
      /\ MappedOf(T) = [l \in Kinds |-> here(T, l)]
  BY DEF MappedOf
<1>2. here(T, k) = new
  BY <1>1
<1>3. \A l \in Kinds \ {k} : here(T, l) = here(R, l)
  OBVIOUS
<1> HIDE DEF here, new
<1>4. MappedOf(T) = [MappedOf(R) EXCEPT ![k] = new]
  BY <1>1, <1>2, <1>3
<1> QED BY <1>4 DEF new, Placed

(* A new row is the catalogue's.                                            *)
LEMMA CreateMaps ==
  ASSUME MockInv, NEW r \in Requests, r.verb = "create",
         CreateAllowed(r.kind, r.input), counter < FirstId + MaxCreates, Create(r),
         queue' \in Seq(Requests)
  PROVE  Catalog!Next
<1> DEFINE k == r.kind
           s == rows["contact"]
           t == rows'["contact"]
           row == Record(k, r.input)
           new == [id |-> counter + 1, row |-> row, tags |-> Normalised(r.tags)]
           n == Len(rows[k]) + 1
<1>1. /\ MockInv' /\ Len(rows[k]) \in Nat /\ rows' = [rows EXCEPT ![k] = Append(@, new)]
      /\ k \in Kinds /\ IsCall(k, r.input) /\ DOMAIN rows = Kinds
  BY CreateInv, RequestFacts DEF MockInv
<1>2. new.row = row /\ row \in MockRow(k) /\ (k # "contact" => row.contactId \in Ids("contact"))
  BY <1>1, RecordTyped
<1> HIDE DEF new, row
<1>3. /\ DOMAIN rows[k] = 1..Len(rows[k])
      /\ \A l \in Kinds \ {k} : rows'[l] = rows[l]
      /\ DOMAIN rows'[k] = DOMAIN rows[k] \cup {n} /\ rows'[k][n] = new
      /\ \A i \in DOMAIN rows[k] : rows'[k][i] = rows[k][i]
      /\ n \notin DOMAIN rows[k]
  <2>1. rows[k] \in Seq(Entry(k)) /\ DOMAIN rows[k] = 1..Len(rows[k])
    BY <1>1, EntryTyped DEF MockInv
  <2>2. rows'[k] = Append(rows[k], new)
    BY <1>1
  <2>3. /\ rows'[k][n] = new /\ Len(rows'[k]) = n
        /\ \A i \in 1..Len(rows[k]) : rows'[k][i] = rows[k][i]
    BY <2>1, <2>2, AppendProperties
  <2>4. DOMAIN rows'[k] = 1..n
    BY <1>1, <2>3, EntryTyped
  <2>5. 1..n = 1..Len(rows[k]) \cup {n} /\ n \notin 1..Len(rows[k])
    BY <1>1
  <2> QED BY <1>1, <2>1, <2>3, <2>4, <2>5
<1>4. UniqueIds(s) /\ UniqueIds(t) /\ Extends(t, s)
  <2>1. UniqueIds(s) /\ UniqueIds(t)
    BY <1>1, ContactsUnique
  <2>2. ASSUME NEW i \in DOMAIN s PROVE i \in DOMAIN t /\ t[i].id = s[i].id
    BY <1>3 DEF Kinds
  <2> QED BY <2>1, <2>2 DEF Extends
<1>5. Ids("contact") = {s[i].id : i \in DOMAIN s}
  BY DEF Ids
<1> HIDE DEF s, t, n
<1>6. ASSUME NEW l \in Kinds, NEW i \in DOMAIN rows[l]
      PROVE  Read(t, rows[l][i].row) = Read(s, rows[l][i].row)
  <2>1. rows[l][i].row \in MockRow(l)
    BY EntryTyped
  <2>2. l # "contact" => rows[l][i].row.contactId \in Ids("contact")
    BY DEF MockInv, Kinds
  <2> QED BY <1>4, <1>5, <2>1, <2>2, ReadStable
<1> DEFINE m == IndexOf("contact", ContactOf(r))
           q == Asked(r, r.id, m)
           w == q.input
<1>7. Allowed(r)
  BY DEF Allowed
<1>8. q \in MappedRequests /\ q.verb = "create" /\ q.kind = k
  BY <1>7, NowIsRequest DEF Asked
<1>9. Catalog!Accepts(q)
  <2>1. /\ CreateAccepted(k, w)
        /\ k # "contact" => w["contactId"] \in DOMAIN rows["contact"]
    BY SameCreates
  <2>2. DOMAIN Mapped["contact"] = DOMAIN rows["contact"]
    BY DEF Mapped, MappedOf, Kinds
  <2> HIDE DEF q
  <2> QED BY <1>8, <2>1, <2>2, SameRules DEF Catalog!Accepts
<1>10. Read(s, row) = NewRow(k, w)
  BY RecordRead DEF row, s
<1> HIDE DEF q, w
<1>11. Read(t, row) = NewRow(k, w)
  <2>1. Read(t, row) = Read(s, row)
    BY <1>1, <1>2, <1>4, <1>5, ReadStable
  <2> QED BY <1>10, <2>1
<1> HIDE DEF k
<1>12. MappedOf(rows') = Placed(MappedOf(rows), k, n, NewRow(k, w))
  <2>1. Read(t, rows'[k][n].row) = NewRow(k, w)
    BY <1>2, <1>3, <1>11
  <2>2. \A i \in DOMAIN rows[k] \ {n} :
          Read(t, rows'[k][i].row) = Read(s, rows[k][i].row)
    BY <1>1, <1>3, <1>6
  <2>3. \A l \in Kinds \ {k} :
          /\ DOMAIN rows'[l] = DOMAIN rows[l]
          /\ \A i \in DOMAIN rows[l] : Read(t, rows'[l][i].row) = Read(s, rows[l][i].row)
    BY <1>3, <1>6
  <2> QED
    <3>1. k \in Kinds /\ DOMAIN rows'[k] = DOMAIN rows[k] \cup {n}
      BY <1>1, <1>3
    <3> QED BY <2>1, <2>2, <2>3, <3>1, MappedWith DEF s, t
<1>13. Mapped' = Catalog!With(k, n, NewRow(k, w))
  BY <1>12 DEF Mapped, Placed, Catalog!With
<1>14. Catalog!NextNumber(k) = n
  <2>2. Mapped[k] = [i \in 1..Len(rows[k]) |-> Read(rows["contact"], rows[k][i].row)]
    BY <1>1, <1>3 DEF Mapped, MappedOf
  <2>3. Len(Mapped[k]) = Len(rows[k])
    BY <1>1, <2>2
  <2> QED BY <2>3 DEF Catalog!NextNumber, n
<1>15. Catalog!Add(q)
  <2>1. Catalog!NewRow(k, w) = NewRow(k, w)
    BY SameRules
  <2> QED BY <1>8, <1>9, <1>13, <1>14, <2>1 DEF Catalog!Add, w
<1> QED BY <1>8, <1>15 DEF Catalog!Next

(* A changed row is the catalogue's.                                        *)
LEMMA UpdateMaps ==
  ASSUME MockInv, NEW r \in Requests, r.verb = "update", NoNullText(r),
         UpdateAllowed(r.kind, r.id, r.input), Update(r), counter' = counter,
         queue' \in Seq(Requests)
  PROVE  Catalog!Next
<1> DEFINE k == r.kind
           i == IndexOf(k, r.id)
<1>1. PICK new \in Entry(k) :
        /\ k \in {"contact", "deal"} /\ i \in DOMAIN rows[k] /\ rows[k][i].id = r.id
        /\ rows' = [rows EXCEPT ![k][i] = new]
        /\ new.id = r.id /\ new.row = Merged(rows[k][i].row, r.input)
  BY UpdateEffect
<1> DEFINE in == r.input
           old == rows[k][i].row
           s == rows["contact"]
           t == rows'["contact"]
<1>2. /\ MockInv' /\ k \in Kinds /\ DOMAIN rows = Kinds /\ IsCall(k, in)
      /\ old \in MockRow(k) /\ Merged(old, in) \in MockRow(k)
      /\ k # "contact" => Merged(old, in).contactId \in Ids("contact")
  <2>1. MockInv'
    BY UpdateInv
  <2>2. k \in Kinds /\ DOMAIN rows = Kinds /\ IsCall(k, in)
    BY RequestFacts DEF MockInv
  <2>3. old \in MockRow(k)
    BY <1>1, <2>2, EntryTyped
  <2>4. /\ Merged(old, in) \in MockRow(k)
        /\ k = "deal" => Merged(old, in).contactId \in Ids("contact")
    BY <1>1, <2>2, MergedTyped
  <2> QED BY <1>1, <2>1, <2>2, <2>3, <2>4
<1> HIDE DEF i, old
<1>3. /\ \A l \in Kinds \ {k} : rows'[l] = rows[l]
      /\ DOMAIN rows'[k] = DOMAIN rows[k] /\ rows'[k][i] = new
      /\ \A j \in DOMAIN rows[k] \ {i} : rows'[k][j] = rows[k][j]
  BY <1>1, <1>2
<1>4. UniqueIds(s) /\ UniqueIds(t) /\ Extends(t, s)
  <2>1. UniqueIds(s) /\ UniqueIds(t)
    BY <1>2, ContactsUnique
  <2>2. ASSUME NEW j \in DOMAIN s PROVE j \in DOMAIN t /\ t[j].id = s[j].id
    BY <1>1, <1>3 DEF Kinds
  <2> QED BY <2>1, <2>2 DEF Extends
<1>5. Ids("contact") = {s[j].id : j \in DOMAIN s}
  BY DEF Ids
<1> HIDE DEF s, t
<1>6. ASSUME NEW l \in Kinds, NEW j \in DOMAIN rows[l]
      PROVE  Read(t, rows[l][j].row) = Read(s, rows[l][j].row)
  <2>1. rows[l][j].row \in MockRow(l)
    BY EntryTyped
  <2>2. l # "contact" => rows[l][j].row.contactId \in Ids("contact")
    BY DEF MockInv, Kinds
  <2> QED BY <1>4, <1>5, <2>1, <2>2, ReadStable
<1> DEFINE m == IndexOf("contact", ContactOf(r))
           q == Asked(r, i, m)
           w == q.input
           M == [f \in DOMAIN Read(s, old) |->
                   IF f \in DOMAIN in THEN Stored(k, f, w[f]) ELSE Read(s, old)[f]]
<1>7. Allowed(r) /\ i = IndexOf(k, r.id)
  BY DEF Allowed, i
<1>8. q \in MappedRequests /\ q.verb = "update" /\ q.kind = k /\ q.id = i
  BY <1>7, NowIsRequest DEF Asked
<1>9. Catalog!Accepts(q)
  BY <1>7, SameWrites DEF Now
<1>10. /\ DOMAIN w = DOMAIN in
       /\ \A f \in DOMAIN in : w[f] = IF f = "contactId" THEN m ELSE Plain(f, in[f])
  BY AskedInput
<1>11. "contactId" \in DOMAIN in => m = Index(s, in["contactId"])
  BY DEF ContactOf, Given, IndexOf, s
<1> HIDE DEF q, w, m
<1>12. ASSUME NEW f \in DOMAIN in, f # "contactId"
       PROVE  Stored(k, f, Plain(f, in[f])) = Plain(f, in[f])
  <2>1. CASE f \in Mandatory[k]
    <3>1. f \in TextFields /\ in[f] \in MockTexts
      BY <1>1, <1>2, <2>1, CallTyped, ByKind, TextColumns DEF ContactFields
    <3> QED BY <2>1, <3>1, PlainText DEF Stored
  <2>2. CASE f \notin Mandatory[k]
    BY <2>2 DEF Stored
  <2> QED BY <2>1, <2>2
<1>13. \A f \in DOMAIN in : f # "contactId" =>
         Plain(f, IF f = "value" THEN NumberOf(in[f]) ELSE in[f]) = Plain(f, in[f])
  BY PlainOther, NumberTyped
<1>14. Read(t, Merged(old, in)) = M
  <2>1. Read(t, Merged(old, in)) = Read(s, Merged(old, in))
    BY <1>2, <1>4, <1>5, ReadStable
  <2>2. "contactId" \notin Mandatory[k]
    BY <1>1, ByKind
  <2>3. DOMAIN Merged(old, in) = DOMAIN old /\ DOMAIN Read(s, old) = DOMAIN old
    BY DEF Merged, Read
  <2>4. ASSUME NEW f \in DOMAIN old
        PROVE  Read(s, Merged(old, in))[f] = M[f]
    <3>1. CASE f \notin DOMAIN in
      BY <2>3, <3>1 DEF Merged, Read
    <3>2. CASE f \in DOMAIN in /\ f = "contactId"
      BY <1>10, <1>11, <2>2, <2>3, <3>2 DEF Merged, Read, Stored
    <3>3. CASE f \in DOMAIN in /\ f # "contactId"
      <4>1. Read(s, Merged(old, in))[f] = Plain(f, in[f])
        BY <1>13, <2>3, <3>3 DEF Merged, Read
      <4> QED BY <1>10, <1>12, <2>3, <3>3, <4>1
    <3> QED BY <3>1, <3>2, <3>3
  <2>5. /\ DOMAIN Read(s, Merged(old, in)) = DOMAIN old
        /\ Read(s, Merged(old, in))
             = [f \in DOMAIN old |-> Read(s, Merged(old, in))[f]]
    BY <2>3 DEF Read
  <2>6. M = [f \in DOMAIN old |-> M[f]]
    BY <2>3
  <2> HIDE DEF M
  <2> QED BY <2>1, <2>4, <2>5, <2>6
<1> HIDE DEF M, k, in
<1>15. MappedOf(rows') = Placed(MappedOf(rows), k, i, M)
  <2>1. Read(t, rows'[k][i].row) = M
    BY <1>1, <1>3, <1>14 DEF old, in
  <2>2. \A j \in DOMAIN rows[k] \ {i} :
          Read(t, rows'[k][j].row) = Read(s, rows[k][j].row)
    BY <1>2, <1>3, <1>6
  <2>3. \A l \in Kinds \ {k} :
          /\ DOMAIN rows'[l] = DOMAIN rows[l]
          /\ \A j \in DOMAIN rows[l] : Read(t, rows'[l][j].row) = Read(s, rows[l][j].row)
    BY <1>3, <1>6
  <2>4. k \in Kinds /\ DOMAIN rows'[k] = DOMAIN rows[k] \cup {i}
    BY <1>1, <1>2, <1>3
  <2> QED BY <2>1, <2>2, <2>3, <2>4, MappedWith DEF s, t
<1>16. Mapped' = Catalog!With(k, i, M)
  BY <1>15 DEF Mapped, Placed, Catalog!With
<1>17. DOMAIN Mapped[k] = DOMAIN rows[k] /\ Mapped[k][i] = Read(s, old)
  BY <1>1, <1>2 DEF Mapped, MappedOf, s, old
<1>18. M = [f \in DOMAIN Mapped[k][i] |->
              IF f \in DOMAIN w THEN Catalog!Stored(k, f, w[f]) ELSE Mapped[k][i][f]]
  <2>1. \A f : Catalog!Stored(k, f, w[f]) = Stored(k, f, w[f])
    BY SameRules
  <2> QED BY <1>10, <1>17, <2>1 DEF M
<1>19. Catalog!Edit(q)
  <2>1. DOMAIN w \in SUBSET DOMAIN w
    OBVIOUS
  <2> QED BY <1>8, <1>9, <1>16, <1>18, <2>1 DEF Catalog!Edit, w
<1> QED BY <1>8, <1>19 DEF Catalog!Next

-----------------------------------------------------------------------------
(* The mock the page is tested against refuses the calls that the API       *)
(* refuses, and no others, whatever was called before - for callers that    *)
(* keep to what both can read (PlainCallers: without it the two differ, as  *)
(* on the new-deal form of the page with its amount left empty).            *)
THEOREM MockAnswersAlike ==
  ASSUME PlainCallers
  PROVE  Spec => []SameVerdicts
<1>1. MockInv => SameVerdicts
  <2> SUFFICES ASSUME MockInv, NEW r \in Requests PROVE Allowed(r) <=> ApiAllows(r)
    BY HeadTailProperties DEF SameVerdicts, MockInv
  <2>1. r.verb \in {"create", "update", "get", "list"} /\ r.id \in Nat
    BY RequestFacts
  <2>2. Parsed(r.input) /\ (r.verb = "update" => NoNullText(r))
    BY DEF PlainCallers, NoNullText
  <2>3. CASE r.verb \in {"create", "update"}
    <3>1. ApiAllows(r) <=> Catalog!Accepts(Now(r))
      BY <2>2, <2>3 DEF ApiAllows, Now
    <3> QED BY <2>2, <2>3, <3>1, SameWrites
  <2>4. CASE r.verb = "get"
    BY <2>4 DEF Allowed, ApiAllows
  <2>5. CASE r.verb = "list"
    <3>1. r.kind = "activity" => r.id \in {0} \cup DOMAIN Seed["contact"]
      BY <2>5 DEF PlainCallers
    <3>2. DOMAIN Seed["contact"] \subseteq Ids("contact") /\ 0 \notin Ids("contact")
      <4>1. /\ DOMAIN Seed["contact"] \subseteq DOMAIN rows["contact"]
            /\ 0 \notin DOMAIN rows["contact"]
        BY Constants, EntryTyped DEF MockInv, Kinds
      <4>2. \A i \in DOMAIN rows["contact"] :
              /\ IF i \in DOMAIN Seed["contact"] THEN rows["contact"][i].id = i
                 ELSE rows["contact"][i].id > FirstId
              /\ rows["contact"][i].id \in Nat
        BY EntryTyped DEF MockInv, Kinds
      <4> QED BY <4>1, <4>2, Constants DEF Ids
    <3>3. Allowed(r) <=> (r.kind = "activity" => r.id # 0)
      BY <2>5 DEF Allowed
    <3>4. ApiAllows(r) <=> (r.kind = "activity" => r.id \in Ids("contact"))
      BY <2>5 DEF ApiAllows
    <3>5. 0 \notin DOMAIN Seed["contact"]
      BY Constants DEF Kinds
    <3> QED BY <3>1, <3>2, <3>3, <3>4, <3>5
  <2> QED BY <2>1, <2>3, <2>4, <2>5
<1> QED BY <1>1, MockInvariant, PTL

(* What the mock stores is what the API stores, row for row, up to the      *)
(* white space around texts and to null: a new row has its fields, a patch  *)
(* changes the row it names and only the fields it gives                    *)
(* (createMockService against backend/app/store.py).                        *)
THEOREM MockImplementsCatalog ==
  ASSUME PlainCallers
  PROVE  Spec => ImplementsCatalog
<1>1. Init => Catalog!Init
  <2> SUFFICES ASSUME Init PROVE Mapped = Seed
    BY DEF Catalog!Init
  <2>1. MockInv
    BY InitMock
  <2> DEFINE s == rows["contact"]
  <2>2. ASSUME NEW k \in Kinds
        PROVE  Mapped[k] = Seed[k]
    <3>1. DOMAIN rows[k] = DOMAIN Seed[k] /\ DOMAIN Seed[k] = 1..Len(Seed[k])
      BY Constants DEF Init
    <3>2. ASSUME NEW i \in DOMAIN Seed[k] PROVE Read(s, Seed[k][i]) = Seed[k][i]
      <4> DEFINE row == Seed[k][i]
      <4>1. row \in Rows[k] /\ row \in MockRow(k)
        BY <3>1, Constants, SeedRows
      <4>2. "contactId" \in DOMAIN row => Index(s, row["contactId"]) = row["contactId"]
        <5> SUFFICES ASSUME "contactId" \in DOMAIN row
                     PROVE  Index(s, row["contactId"]) = row["contactId"]
          OBVIOUS
        <5>1. k \in {"deal", "activity"}
          BY <4>1, RowColumns DEF Kinds
        <5>2. row["contactId"] \in DOMAIN Seed["contact"]
          BY <3>1, <5>1, MockAssumption
        <5>3. \A j \in DOMAIN s : s[j].id = j
          BY DEF Init, Kinds
        <5>4. DOMAIN s = DOMAIN Seed["contact"]
          BY DEF Init, Kinds
        <5>5. DOMAIN s = 1..Len(s) /\ Len(s) \in Nat
          BY <2>1, EntryTyped DEF Kinds
        <5> HIDE DEF s, row
        <5> QED BY <5>2, <5>3, <5>4, <5>5, IndexOfEntry
      <4>3. row = [f \in DOMAIN row |-> row[f]] /\ DOMAIN row = FieldsOf[k]
        BY <4>1, RowColumns
      <4>7. ASSUME NEW f \in DOMAIN row, f # "contactId"
            PROVE  Plain(f, row[f]) = row[f]
        <5>1. CASE f \in TextFields
          <6>1. Strip[row[f]] = row[f]
            BY <3>1, <4>3, <5>1, MockAssumption
          <6>2. row[f] # Null
            <7>1. CASE k = "contact"
              BY <4>1, <4>3, <7>1, ByKind, MockAssumption DEF ContactRows
            <7>2. CASE k = "deal"
              BY <4>1, <4>3, <5>1, <7>2, ByKind, TextColumns, MockAssumption
                 DEF DealRows, DealFields
            <7>3. CASE k = "activity"
              BY <4>1, <4>3, <5>1, <7>3, ByKind, TextColumns, MockAssumption
                 DEF ActivityRows, ActivityFields
            <7> QED BY <7>1, <7>2, <7>3 DEF Kinds
          <6> QED BY <5>1, <6>1, <6>2, TextColumns DEF Plain
        <5>2. CASE f \notin TextFields
          <6>1. CASE k = "contact"
            BY <4>3, <5>2, <6>1, ByKind, TextColumns
          <6>2. CASE k = "deal"
            <7>1. row \in DealRows /\ f \in {"stage", "value", "expectedClose"}
              BY <4>1, <4>3, <4>7, <5>2, <6>2, ByKind, TextColumns DEF DealFields
            <7>2. /\ row["stage"] # Null /\ row["value"] \in Amounts
                  /\ row["expectedClose"] = Blank => row["expectedClose"] = NoDate
              BY <7>1, MockAssumption DEF DealRows
            <7> HIDE DEF row
            <7> QED BY <7>1, <7>2, PlainOther DEF NumberOf
          <6>3. CASE k = "activity"
            <7>1. row \in ActivityRows /\ f = "type"
              BY <4>1, <4>3, <4>7, <5>2, <6>3, ByKind, TextColumns DEF ActivityFields
            <7>2. row["type"] # Null
              BY <7>1, MockAssumption DEF ActivityRows
            <7> HIDE DEF row
            <7> QED BY <7>1, <7>2, PlainOther
          <6> QED BY <6>1, <6>2, <6>3 DEF Kinds
        <5> QED BY <5>1, <5>2
      <4> HIDE DEF row, s
      <4>4. \A f \in DOMAIN row : Read(s, row)[f] = row[f]
        BY <4>2, <4>7 DEF Read
      <4>5. DOMAIN Read(s, row) = DOMAIN row
            /\ Read(s, row) = [f \in DOMAIN row |-> Read(s, row)[f]]
        BY DEF Read
      <4>6. Read(s, row) = row
        BY <4>3, <4>4, <4>5
      <4> QED BY <4>6 DEF row
    <3>3. \A i \in DOMAIN Seed[k] : rows[k][i].row = Seed[k][i]
      BY DEF Init
    <3>4. Mapped[k] = [i \in DOMAIN Seed[k] |-> Seed[k][i]]
      <4>1. Mapped[k] = [i \in DOMAIN rows[k] |-> Read(s, rows[k][i].row)]
        BY DEF Mapped, MappedOf
      <4> HIDE DEF s
      <4> QED BY <3>1, <3>2, <3>3, <4>1
    <3>5. Seed[k] = [i \in DOMAIN Seed[k] |-> Seed[k][i]]
      BY Constants
    <3> QED BY <3>4, <3>5
  <2>3. Mapped = [k \in Kinds |-> Mapped[k]]
    BY DEF Mapped, MappedOf
  <2>4. Seed = [k \in Kinds |-> Seed[k]]
    BY MockAssumption
  <2> QED BY <2>2, <2>3, <2>4
<1>2. MockInv /\ [Next]_vars => [Catalog!Next]_Mapped
  <2> SUFFICES ASSUME MockInv, [Next]_vars PROVE Catalog!Next \/ Mapped' = Mapped
    OBVIOUS
  <2>1. rows' = rows => Mapped' = Mapped
    BY DEF Mapped
  <2>2. CASE Next
    <3>1. \A r \in Requests : r.verb = "update" => NoNullText(r)
      BY DEF PlainCallers, NoNullText
    <3> QED BY <2>1, <2>2, <3>1, NextSteps, CreateMaps, UpdateMaps
  <2>3. CASE UNCHANGED vars
    BY <2>1, <2>3 DEF vars
  <2> QED BY <2>2, <2>3
<1> QED BY <1>1, <1>2, MockInvariant, PTL DEF Spec, ImplementsCatalog, Catalog!Spec
=============================================================================
