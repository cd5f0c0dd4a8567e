------------------------------ MODULE CrmMock ------------------------------
(***************************************************************************)
(* createMockService (_frontend/crm-service.js): the in-memory service the  *)
(* page's own test suite runs against in place of the backend.  A call      *)
(* waits for the latency, which is the same for all of them, and is then    *)
(* carried out in one turn of the event loop: calls end in the order they   *)
(* were made.  Ids of all kinds come from one counter that starts at FirstId, *)
(* far above those of the data the service starts with.                     *)
(*                                                                          *)
(* Fields and stages are those of CrmData, but the mock stores what it is    *)
(* given: null stays null, text keeps its white space, and "" is a date like *)
(* any other.  A number and a text that spells it are one member of Amounts; *)
(* JavaScript's trim and Python's strip are both Strip.  Tags, a list or a   *)
(* string with commas, are the set of their parts; null is no tag.           *)
(***************************************************************************)
EXTENDS CrmData, Sequences, FiniteSets, SequencesExt

CONSTANTS
  Seed,         \* the rows of options.data or seedData(), by kind
  SeedTags,     \* the tags of its contacts
  Requests,     \* the calls made: [verb, kind, id, input, tags]
  Null,         \* null, where it is not the empty text (a null date is NoDate)
  NoNumber,     \* a value that is no number: "", "abc"
  FirstId,      \* counter (1000)
  MaxCreates,   \* bound: rows created
  MaxQueue      \* bound: calls waiting

Absent == {"absent"}   \* tags not supplied

TextFields == ContactFields \cup {"title", "note"}

Tidy == {t \in Texts : Strip[t] = t /\ t # Blank}

(* What a caller may put in a field, besides what it should (Blank: a text   *)
(* that is no date).                                                        *)
CallField(f) ==
  InputField(f) \cup CASE f = "contactId"     -> {}
                       [] f = "value"         -> {Null, NoNumber}
                       [] f = "expectedClose" -> {Blank}
                       [] OTHER               -> {Null}

ASSUME MockAssumption ==
  /\ MaxQueue \in Nat /\ MaxCreates \in Nat /\ FirstId \in Nat
  /\ Null \notin Texts /\ Null \notin Stages /\ Null \notin ActivityTypes
  /\ Null \notin Amounts
  /\ NoNumber \notin Amounts /\ Blank \notin Dates
  /\ Seed = [k \in Kinds |-> Seed[k]]
  /\ \A k \in Kinds : /\ Seed[k] \in Seq(Rows[k]) /\ Len(Seed[k]) <= FirstId
                      /\ \A i \in DOMAIN Seed[k] : \A f \in TextFields \cap FieldsOf[k] :
                           Strip[Seed[k][i][f]] = Seed[k][i][f]
  /\ \A k \in {"deal", "activity"} : \A i \in DOMAIN Seed[k] :
       Seed[k][i].contactId \in DOMAIN Seed["contact"]
  /\ SeedTags \in [DOMAIN Seed["contact"] -> SUBSET Tidy]

ASSUME CallAssumption ==
  \A r \in Requests :
    /\ r = [verb |-> r.verb, kind |-> r.kind, id |-> r.id, input |-> r.input, tags |-> r.tags]
    /\ r.verb \in {"create", "update", "get", "list"} /\ r.kind \in Kinds /\ r.id \in Nat
    /\ DOMAIN r.input \subseteq FieldsOf[r.kind]
    /\ r.input = [f \in DOMAIN r.input |-> r.input[f]]
    /\ \A f \in DOMAIN r.input : r.input[f] \in CallField(f)
    /\ r.tags \subseteq Texts \/ r.tags = Absent
    /\ r.verb \in {"update", "get"} => r.kind # "activity"

VARIABLES
  rows,      \* rows[k]: [id, row, tags], in the order they were added
  counter,   \* the last id given
  queue      \* calls that wait

vars == <<rows, counter, queue>>

Init ==
  /\ rows = [k \in Kinds |-> [i \in DOMAIN Seed[k] |->
               [id |-> i, row |-> Seed[k][i],
                tags |-> IF k = "contact" THEN SeedTags[i] ELSE {}]]]
  /\ counter = FirstId /\ queue = << >>

Ids(k)       == {rows[k][i].id : i \in DOMAIN rows[k]}
Index(s, id)   == SelectInSeq(s, LAMBDA x : x.id = id)
IndexOf(k, id) == Index(rows[k], id)

(* Mutant of Normalised: only a string of tags is trimmed (as the backend   *)
(* does).                                                                   *)
Normalised_Raw(tags) == IF tags = Absent THEN {} ELSE tags \ {Blank}

(* normaliseTags.                                                           *)
Normalised(tags) == IF tags = Absent THEN {} ELSE {Strip[t] : t \in tags} \ {Blank}

-----------------------------------------------------------------------------
(* Which calls are refused.                                                 *)

(* Mutant of Filled: the text is not trimmed.                               *)
Filled_Untrimmed(in, f) == Given(in, f, Blank) \notin {Blank, Null}

(* !String(x || "").trim() is false.                                        *)
Filled(in, f) ==
  LET t == Given(in, f, Blank) IN t # Null /\ ~ IsBlank(t)

Belongs(in) == Given(in, "contactId", 0) # 0 /\ in["contactId"] \in Ids("contact")

StageOf(in) == IF Given(in, "stage", Blank) \in {Blank, Null} THEN LeadStage ELSE in["stage"]

CreateAllowed(k, in) ==
  CASE k = "contact"  -> Filled(in, "name") /\ Filled(in, "company")
    [] k = "deal"     -> Belongs(in) /\ Filled(in, "title") /\ StageOf(in) \in Stages
    [] k = "activity" -> Belongs(in) /\ Given(in, "type", Blank) \in ActivityTypes
                           /\ Filled(in, "note")

(* String(null).trim() is "null", which is not empty.                       *)
UpdateAllowed(k, id, in) ==
  /\ id \in Ids(k)
  /\ \A f \in {"name", "company", "title"} \cap DOMAIN in :
       in[f] = Null \/ ~ IsBlank(in[f])
  /\ "stage" \in DOMAIN in => in["stage"] \in Stages
  /\ "contactId" \in DOMAIN in => Belongs(in)

Allowed(r) ==
  CASE r.verb = "create" -> CreateAllowed(r.kind, r.input)
    [] r.verb = "update" -> UpdateAllowed(r.kind, r.id, r.input)
    [] r.verb = "get"    -> r.id \in Ids(r.kind)
    [] r.verb = "list"   -> r.kind = "activity" => r.id # 0

-----------------------------------------------------------------------------
(* What the others do.                                                      *)

(* Number(v) || 0.                                                          *)
NumberOf(v) == IF v \in Amounts THEN v ELSE 0

Record(k, in) ==
  CASE k = "contact" -> [f \in ContactFields |-> Given(in, f, Blank)]
    [] k = "deal" -> [contactId |-> in["contactId"], title |-> in["title"],
                      stage |-> StageOf(in), value |-> NumberOf(Given(in, "value", 0)),
                      expectedClose |-> Given(in, "expectedClose", Blank)]
    [] k = "activity" -> [contactId |-> in["contactId"], type |-> in["type"],
                          note |-> Strip[in["note"]]]

(* Mutant of NewId: numbers of their own, not those of the counter.         *)
NewId_Count(k) == Len(rows[k])

NewId(k) == counter + 1

Create(r) ==
  LET new == [id |-> NewId(r.kind), row |-> Record(r.kind, r.input), tags |-> Normalised(r.tags)]
  IN  /\ counter' = counter + 1
      /\ rows' = [rows EXCEPT ![r.kind] = Append(@, new)]

(* Mutant of Merged: fields that are not supplied fall back to defaults.    *)
Merged_Reset(old, in) ==
  [f \in DOMAIN old |-> IF f \in OptionalFields \ DOMAIN in THEN Blank
                        ELSE IF f \notin DOMAIN in THEN old[f]
                        ELSE IF f = "value" THEN NumberOf(in[f])
                        ELSE in[f]]

(* Object.assign(row, pick(patch, FIELDS)), the value as a number.          *)
Merged(old, in) ==
  [f \in DOMAIN old |-> IF f \notin DOMAIN in THEN old[f]
                        ELSE IF f = "value" THEN NumberOf(in[f])
                        ELSE in[f]]

(* updateContact and updateDeal; moveDeal(id, stage) is the latter.         *)
Update(r) ==
  LET i   == IndexOf(r.kind, r.id)
      old == rows[r.kind][i]
      new == [old EXCEPT !.row = Merged(@, r.input),
                         !.tags = IF r.tags = Absent THEN @ ELSE Normalised(r.tags)]
  IN  /\ rows' = [rows EXCEPT ![r.kind][i] = new]
      /\ UNCHANGED counter

(* listContacts with tags, listDeals and listActivities of one contact      *)
(* (0: of all); search, stage and the order of the rows are left out.       *)
Listed(k, id, tags) ==
  {x \in Range(rows[k]) :
     IF k = "contact" THEN Normalised(tags) \subseteq x.tags
     ELSE id \in {0, x.row.contactId}}

(* A method is called: await wait().                                        *)
Call(r) ==
  /\ Len(queue) < MaxQueue
  /\ queue' = Append(queue, r)
  /\ UNCHANGED <<rows, counter>>

(* The oldest call goes on; refused calls and reads change nothing.         *)
Resume ==
  /\ queue # << >> /\ queue' = Tail(queue)
  /\ LET r == Head(queue)
     IN  \/ (~Allowed(r) \/ r.verb \in {"get", "list"}) /\ UNCHANGED <<rows, counter>>
         \/ Allowed(r) /\ r.verb = "create" /\ counter < FirstId + MaxCreates /\ Create(r)
         \/ Allowed(r) /\ r.verb = "update" /\ Update(r)

Next == Resume \/ \E r \in Requests : Call(r)

Spec == Init /\ [][Next]_vars

-----------------------------------------------------------------------------
(* Ids differ within a kind, and every deal and activity belongs to a       *)
(* contact that is there - the deals listed "carry the contact name"        *)
(* (crm-tests.js) without the `|| {}' of listDeals ever being used.         *)
MockConsistent ==
  /\ \A k \in Kinds : Cardinality(Ids(k)) = Len(rows[k])
  /\ \A k \in {"deal", "activity"} : \A x \in Range(rows[k]) :
       x.row.contactId \in Ids("contact")

(* A contact is found under each of its tags, with or without white space   *)
(* around it, both when it was saved and when it is looked for.             *)
TagsFindable ==
  \A c \in Range(rows["contact"]) : \A t \in c.tags :
    \A u \in {v \in Texts : Strip[v] = Strip[t]} : c \in Listed("contact", 0, {u})

-----------------------------------------------------------------------------
(* The mock beside the API.  Its ids are read as positions, its texts up to *)
(* the white space around them, null and "" as the nothing that the backend *)
(* stores for them.                                                         *)
Plain(f, v) ==
  IF f = "expectedClose"  THEN IF v = Blank THEN NoDate ELSE v
  ELSE IF f = "value"     THEN NumberOf(v)
  ELSE IF v = Null        THEN Blank
  ELSE IF f \in TextFields THEN Strip[v]
  ELSE v

Read(contacts, row) ==
  [f \in DOMAIN row |-> IF f = "contactId" THEN Index(contacts, row[f]) ELSE Plain(f, row[f])]

MappedOf(R) == [k \in Kinds |-> [i \in DOMAIN R[k] |-> Read(R["contact"], R[k][i].row)]]

Mapped == MappedOf(rows)

(* A call as a request of the catalogue: about row n, with contact m as the *)
(* one its input names.                                                     *)
Asked(r, n, m) ==
  [verb |-> r.verb, kind |-> r.kind, id |-> n, tags |-> r.tags,
   input |-> [f \in DOMAIN r.input |-> IF f = "contactId" THEN m ELSE Plain(f, r.input[f])]]

(* Where the row with an id may stand: the first rows are at their ids, the *)
(* others behind them.                                                      *)
Places(k, id) ==
  IF id \in DOMAIN Seed[k] \cup {0} THEN {id}
  ELSE Len(Seed[k]) + 1..Len(Seed[k]) + MaxCreates

ContactOf(r) == Given(r.input, "contactId", 0)

MappedRequests ==
  UNION {{Asked(r, n, m) : n \in IF r.verb = "update" THEN Places(r.kind, r.id) ELSE {r.id},
                           m \in Places("contact", ContactOf(r))} :
           r \in {q \in Requests : q.verb \in {"create", "update"}}}

Catalog == INSTANCE CrmCatalog WITH table <- Mapped, Requests <- MappedRequests

(* The API's models can read the input: otherwise it answers 422.           *)
Parsed(in) ==
  /\ "value" \in DOMAIN in => in["value"] # NoNumber
  /\ "expectedClose" \in DOMAIN in => in["expectedClose"] # Blank

(* What the API would answer if it held the mock's rows: the call as it is, *)
(* with what is now at the ids it names.                                    *)
ApiAllows(r) ==
  LET now == Asked(r, IndexOf(r.kind, r.id), IndexOf("contact", ContactOf(r)))
  IN  CASE r.verb \in {"create", "update"} -> Parsed(r.input) /\ Catalog!Accepts(now)
        [] r.verb = "get"  -> r.id \in Ids(r.kind)
        [] r.verb = "list" -> r.kind = "activity" => r.id \in Ids("contact")

(* Callers for whom the two are meant to be alike: they send amounts and    *)
(* dates the API can read, no null for a text it needs, and ask for the     *)
(* activities of contacts they know.                                        *)
PlainCallers ==
  \A r \in Requests :
    /\ Parsed(r.input)
    /\ r.verb = "update" =>
         \A f \in {"name", "company", "title"} \cap DOMAIN r.input : r.input[f] # Null
    /\ r.verb = "list" /\ r.kind = "activity" => r.id \in {0} \cup DOMAIN Seed["contact"]

(* Whatever was called before, the mock refuses the call that goes on if    *)
(* the API would, and no other: "the same operations, request/response      *)
(* shapes and validation errors" (openapi.yaml).                            *)
SameVerdicts == queue # << >> => (Allowed(Head(queue)) <=> ApiAllows(Head(queue)))

(* What it does with the calls it accepts is what the API promises,         *)
(* CrmCatalog: rows appear, change and stay as they do there.               *)
ImplementsCatalog == Catalog!Spec
=============================================================================
