--------------------------- MODULE CrmStoreProofs ---------------------------
(***************************************************************************)
(* Proofs about CrmStore, for any workers, requests, texts and seed rows.   *)
(*                                                                          *)
(* Every step but COMMIT changes only the session of one worker, so the     *)
(* proof has two parts: LocalStep, applied to each such action, and the     *)
(* COMMIT, which is the one place where a row lock matters.                 *)
(***************************************************************************)
EXTENDS CrmStore, CrmDataProofs, SequenceTheorems

-----------------------------------------------------------------------------
(* Requests and sessions, unpacked.                                         *)
LEMMA RequestFacts ==
  ASSUME NEW r \in Requests
  PROVE  /\ r.verb \in {"create", "update", "get", "list"}
         /\ r.kind \in Kinds /\ r.id \in Nat
         /\ IsInput(r.kind, r.input)
         /\ r.verb \in {"update", "get"} => r.kind # "activity"
         /\ r.verb = "list" => r.kind # "contact"
         /\ r # NoRequest
BY RequestAssumption DEF RequestType

(* A contact id in an input is a number.                                    *)
LEMMA ContactIdNat ==
  ASSUME NEW k \in Kinds, NEW in, IsInput(k, in), "contactId" \in DOMAIN in
  PROVE  in["contactId"] \in Nat
BY DEF IsInput, InputField

LEMMA NoTxFacts ==
  /\ NoTx \in TxType
  /\ SessionOK(NoTx)
  /\ NoTx.pc = "idle" /\ NoTx.locks = {} /\ NoTx.todo = {} /\ NoTx.req = NoRequest
<1>1. NoTx \in TxType
  BY DEF NoTx, TxType, Steps
<1>2. SessionOK(NoTx)
  BY DEF NoTx, SessionOK
<1> QED BY <1>1, <1>2 DEF NoTx

(* The committed rows are well formed.                                      *)
LEMMA StoredWellFormed ==
  ASSUME IndInv, NEW k \in Kinds, NEW i \in DOMAIN table[k]
  PROVE  WellFormed(k, table[k][i]) /\ i \in Nat
BY DEF IndInv, TypeOK, MandatoryFilled, WellFormed

(* A well-formed row is one a session can hold.                             *)
LEMMA WellFormedRow ==
  ASSUME NEW k \in Kinds, NEW row, WellFormed(k, row)
  PROVE  /\ row \in {NoRow} \cup RowTypes
         /\ DOMAIN row = FieldsOf[k] /\ FieldsOf[k] \subseteq FieldNames
         /\ k # "contact" => row.contactId \in Nat
<1>1. row \in Rows[k]
  BY DEF WellFormed
<1>2. CASE k = "contact"
  BY <1>1, <1>2, ByKind DEF RowTypes, ContactRows, FieldNames
<1>3. CASE k = "deal"
  BY <1>1, <1>3, ByKind DEF RowTypes, DealRows, DealFields, FieldNames
<1>4. CASE k = "activity"
  BY <1>1, <1>4, ByKind DEF RowTypes, ActivityRows, ActivityFields, FieldNames
<1> QED BY <1>2, <1>3, <1>4 DEF Kinds

-----------------------------------------------------------------------------
(* A step that changes one worker's session and no committed data preserves *)
(* the invariant when it leaves that session in order and takes no lock     *)
(* that another transaction holds.                                          *)
LEMMA LocalStep ==
  ASSUME IndInv, NEW w \in Workers, NEW t,
         tx' = [tx EXCEPT ![w] = t], UNCHANGED <<table, counter>>,
         t \in TxType, SessionOK(t),
         \A v \in Workers \ {w} : t.locks \cap tx[v].locks = {}
  PROVE  IndInv'
<1>1. tx \in [Workers -> TxType]
  BY DEF IndInv, TypeOK
<1>2. tx' \in [Workers -> TxType]
  BY <1>1
<1>3. TypeOK'
  BY <1>2 DEF IndInv, TypeOK
<1>4. IdsContiguous' /\ RefIntegrity' /\ MandatoryFilled'
  BY DEF IndInv, IdsContiguous, RefIntegrity, MandatoryFilled
<1>5. \A v \in Workers : SessionOK(tx'[v])
  BY <1>1 DEF IndInv
<1>6. \A v \in Workers : SessionOK(tx[v])'
  BY <1>5 DEF SessionOK, ContactGiven
<1>7. LocksExclusive'
  BY <1>1 DEF IndInv, LocksExclusive
<1> QED BY <1>3, <1>4, <1>6, <1>7 DEF IndInv

LEMMA Session ==
  ASSUME IndInv, NEW w \in Workers
  PROVE  /\ tx[w] \in TxType /\ SessionOK(tx[w])
         /\ tx[w].pc # "idle" => tx[w].req \in Requests
         /\ tx \in [Workers -> TxType]
BY DEF IndInv, TypeOK, SessionOK

(* The common case: the session keeps its locks or drops them.              *)
LEMMA QuietStep ==
  ASSUME IndInv, NEW w \in Workers, NEW t,
         tx' = [tx EXCEPT ![w] = t], UNCHANGED <<table, counter>>,
         t \in TxType, SessionOK(t), t.locks \subseteq tx[w].locks
  PROVE  IndInv'
<1>1. \A v \in Workers \ {w} : t.locks \cap tx[v].locks = {}
  BY DEF IndInv, LocksExclusive
<1> QED BY <1>1, LocalStep

(* An error reply, a finished read, and a session that is gone.             *)
LEMMA RefuseInv ==
  ASSUME IndInv, NEW w \in Workers, tx[w].pc # "idle",
         NEW status \in {"invalid", "missing", "error"}, Refuse(w, status),
         UNCHANGED <<table, counter>>
  PROVE  IndInv'
<1> DEFINE t == [tx[w] EXCEPT !.pc = "reply", !.status = status,
                              !.row = NoRow, !.todo = {}, !.locks = {}]
<1>1. tx' = [tx EXCEPT ![w] = t]
  BY Session DEF Refuse
<1>2. t \in TxType
  BY Session DEF TxType, Steps
<1>3. SessionOK(t)
  BY Session DEF SessionOK, TxType
<1>4. t.locks \subseteq tx[w].locks
  BY Session DEF TxType
<1> QED BY <1>1, <1>2, <1>3, <1>4, QuietStep

LEMMA AnswerInv ==
  ASSUME IndInv, NEW w \in Workers, tx[w].pc # "idle", Answer(w),
         UNCHANGED <<table, counter>>
  PROVE  IndInv'
<1> DEFINE t == [tx[w] EXCEPT !.pc = "reply", !.status = "ok",
                              !.todo = {}, !.locks = {}]
<1>1. tx' = [tx EXCEPT ![w] = t]
  BY Session DEF Answer
<1>2. t \in TxType
  BY Session DEF TxType, Steps
<1>3. SessionOK(t)
  BY Session DEF SessionOK, TxType
<1>4. t.locks \subseteq tx[w].locks
  BY Session DEF TxType
<1> QED BY <1>1, <1>2, <1>3, <1>4, QuietStep

LEMMA ResetInv ==
  ASSUME IndInv, NEW w \in Workers, tx' = [tx EXCEPT ![w] = NoTx],
         UNCHANGED <<table, counter>>
  PROVE  IndInv'
BY NoTxFacts, QuietStep

LEMMA ReplyInv ==
  ASSUME IndInv, NEW w \in Workers, Reply(w)
  PROVE  IndInv' /\ tx' = [tx EXCEPT ![w] = NoTx]
<1>1. tx[w].locks = {}
  BY Session DEF Reply, SessionOK
<1>2. [NoTx EXCEPT !.locks = tx[w].locks] = NoTx
  BY <1>1 DEF NoTx
<1> QED BY <1>2, ResetInv DEF Reply

(* The assignments of an update to a row it has loaded.                     *)
LEMMA AssignInv ==
  ASSUME IndInv, NEW w \in Workers, tx[w].pc \in {"find", "load"},
         tx[w].req.verb = "update", tx[w].id = tx[w].req.id,
         tx[w].id \in DOMAIN table[Kind(w)],
         NEW row, WellFormed(Kind(w), row),
         "contactId" \in DOMAIN Input(w) => ContactGiven(tx[w]),
         ("contactId" \notin DOMAIN Input(w) /\ Kind(w) = "deal") =>
            row.contactId \in DOMAIN table["contact"],
         Assign(w, row), UNCHANGED <<table, counter>>
  PROVE  IndInv'
<1> DEFINE k == tx[w].req.kind
           in == tx[w].req.input
           new == Patched(k, row, in)
           t == [tx[w] EXCEPT !.pc = "flush", !.row = new, !.dirty = Dirty(row, new)]
<1>1. tx[w] \in TxType /\ tx[w].req \in Requests
  BY Session
<1>2. k \in {"contact", "deal"} /\ IsInput(k, in)
  BY <1>1, RequestFacts DEF Kinds
<1>3. CASE ~ PatchAccepted(k, in)
  BY <1>3, RefuseInv DEF Assign, Kind, Input
<1>4. CASE PatchAccepted(k, in)
  <2>1. tx' = [tx EXCEPT ![w] = t]
    BY <1>4, Session DEF Assign, Kind, Input
  <2>2. WellFormed(k, new)
    BY <1>2, <1>4, PatchedWellFormed DEF Kind
  <2>3. k = "deal" => new.contactId =
          IF "contactId" \in DOMAIN in THEN in["contactId"] ELSE row.contactId
    BY <1>2, <1>4, PatchedWellFormed DEF Kind
  <2>4. DOMAIN row = FieldsOf[k] /\ FieldsOf[k] \subseteq FieldNames
    BY <1>2, WellFormedRow DEF Kind, Kinds
  <2>5. Dirty(row, new) \subseteq FieldNames
    BY <2>4 DEF Dirty
  <2>6. \A f \in Dirty(row, new) : f \in DOMAIN in /\ new[f] = Stored(k, f, in[f])
    BY DEF Dirty, Patched
  <2>7. t \in TxType
    BY <1>1, <1>2, <2>2, <2>5, WellFormedRow DEF TxType, Steps, Kinds
  <2>8. /\ t.pc = "flush" /\ t.req = tx[w].req /\ t.id = tx[w].id /\ t.row = new
        /\ t.dirty = Dirty(row, new) /\ t.locks = {} /\ t.todo = {}
    BY <1>1, Session DEF TxType, SessionOK
  <2>9. SessionOK(t)
    BY <1>1, <1>4, <2>2, <2>3, <2>6, <2>8 DEF SessionOK, Kind, Input, ContactGiven
  <2> QED BY <2>1, <2>7, <2>8, <2>9, QuietStep
<1> QED BY <1>3, <1>4

-----------------------------------------------------------------------------
(* Every action but COMMIT preserves the invariant.                         *)
LEMMA ReceiveInv ==
  ASSUME IndInv, NEW w \in Workers, NEW r \in Requests, Receive(w, r)
  PROVE  IndInv'
<1>1. tx[w] = NoTx
  BY Session DEF Receive, SessionOK
<1>2. CASE r.verb = "create" /\ ~ CreateAccepted(r.kind, r.input)
  <2> DEFINE t == [tx[w] EXCEPT !.req = r, !.pc = "reply", !.status = "invalid"]
  <2>1. tx' = [tx EXCEPT ![w] = t]
    BY <1>2, Session DEF Receive
  <2>2. t \in TxType
    BY Session DEF TxType, Steps
  <2>3. SessionOK(t) /\ t.locks = {}
    BY <1>1 DEF SessionOK, NoTx
  <2> QED BY <2>1, <2>2, <2>3, QuietStep DEF Receive
<1>3. CASE ~ (r.verb = "create" /\ ~ CreateAccepted(r.kind, r.input))
  <2> DEFINE t == [tx[w] EXCEPT !.req = r, !.pc = FirstStatement(r), !.id = r.id]
  <2>1. tx' = [tx EXCEPT ![w] = t]
    BY <1>3, Session DEF Receive
  <2>2. t \in TxType
    <3>1. FirstStatement(r) \in {"number", "find", "load"} /\ r.id \in Nat
      BY RequestFacts DEF FirstStatement
    <3> QED BY <3>1, Session DEF TxType, Steps
  <2>3. /\ t.pc = FirstStatement(r) /\ t.req = r /\ t.id = r.id
        /\ t.locks = {} /\ t.todo = {}
    BY <1>1 DEF NoTx
  <2>4. SessionOK(t)
    BY <1>3, <2>3, RequestFacts DEF SessionOK, FirstStatement
  <2> QED BY <2>1, <2>2, <2>3, <2>4, QuietStep DEF Receive
<1> QED BY <1>2, <1>3

LEMMA FindContactInv ==
  ASSUME IndInv, NEW w \in Workers, FindContact(w)
  PROVE  IndInv'
<1>1. CASE ~ Exists("contact", Input(w)["contactId"])
  BY <1>1, RefuseInv DEF FindContact
<1>2. CASE Exists("contact", Input(w)["contactId"])
  <2> DEFINE t == [tx[w] EXCEPT !.pc = "number"]
  <2>1. tx' = [tx EXCEPT ![w] = t]
    BY <1>2, Session DEF FindContact
  <2>2. t \in TxType
    BY Session DEF TxType, Steps
  <2>3. /\ t.pc = "number" /\ t.req = tx[w].req /\ t.locks = tx[w].locks
        /\ t.todo = tx[w].todo
    BY Session DEF TxType
  <2>4. SessionOK(t)
    BY <1>2, <2>3, Session DEF SessionOK, FindContact, Exists, ContactGiven, Input
  <2> QED BY <2>1, <2>2, <2>3, <2>4, QuietStep DEF FindContact
<1> QED BY <1>1, <1>2

LEMMA FindNewContactInv ==
  ASSUME IndInv, NEW w \in Workers, FindNewContact(w)
  PROVE  IndInv'
<1>1. CASE ~ Exists("contact", Input(w)["contactId"])
  BY <1>1, RefuseInv DEF FindNewContact
<1>2. CASE Exists("contact", Input(w)["contactId"])
  <2>1. Assign(w, tx[w].row)
    BY <1>2 DEF FindNewContact
  <2>2. /\ tx[w].id = tx[w].req.id /\ tx[w].id \in DOMAIN table[Kind(w)]
        /\ WellFormed(Kind(w), tx[w].row) /\ "contactId" \in DOMAIN Input(w)
    BY Session DEF FindNewContact, SessionOK, Kind, Input
  <2>3. ContactGiven(tx[w])
    BY <1>2 DEF Exists, ContactGiven, Input
  <2> QED BY <2>1, <2>2, <2>3, AssignInv DEF FindNewContact
<1> QED BY <1>1, <1>2

LEMMA ListActivitiesInv ==
  ASSUME IndInv, NEW w \in Workers, ListActivities(w)
  PROVE  IndInv'
BY AnswerInv, RefuseInv DEF ListActivities

LEMMA GetRowInv ==
  ASSUME IndInv, NEW w \in Workers, GetRow(w)
  PROVE  IndInv'
<1> DEFINE row == table[Kind(w)][tx[w].id]
<1>1. tx[w].req \in Requests /\ Kind(w) \in {"contact", "deal"}
  BY Session, RequestFacts DEF GetRow, Kind, Kinds
<1>2. CASE ~ Exists(Kind(w), tx[w].id)
  BY <1>2, RefuseInv DEF GetRow
<1>3. CASE Exists(Kind(w), tx[w].id)
  <2>1. WellFormed(Kind(w), row)
    BY <1>1, <1>3, StoredWellFormed DEF Exists, Kinds
  <2>2. row \in {NoRow} \cup RowTypes
    BY <1>1, <2>1, WellFormedRow DEF Kinds
  <2>3. CASE Kind(w) = "contact"
    <3> DEFINE t == [tx[w] EXCEPT !.pc = "reply", !.status = "ok", !.row = row]
    <3>1. tx' = [tx EXCEPT ![w] = t]
      BY <1>3, <2>3, Session DEF GetRow
    <3>2. t \in TxType
      BY <2>2, Session DEF TxType, Steps
    <3>3. /\ t.pc = "reply" /\ t.req = tx[w].req /\ t.locks = tx[w].locks
          /\ t.todo = tx[w].todo
      BY Session DEF TxType
    <3>4. SessionOK(t)
      BY <1>1, <3>3, Session DEF SessionOK, GetRow
    <3> QED BY <3>1, <3>2, <3>3, <3>4, QuietStep DEF GetRow
  <2>4. CASE Kind(w) = "deal"
    <3> DEFINE t == [tx[w] EXCEPT !.pc = "enrich", !.row = row, !.todo = {row.contactId}]
    <3>1. tx' = [tx EXCEPT ![w] = t]
      BY <1>3, <2>4, Session DEF GetRow
    <3>2. row.contactId \in Nat /\ row.contactId \in DOMAIN table["contact"]
      BY <1>3, <2>1, <2>4, WellFormedRow DEF IndInv, RefIntegrity, Exists, Kinds
    <3>3. t \in TxType
      BY <2>2, <3>2, Session DEF TxType, Steps
    <3>4. /\ t.pc = "enrich" /\ t.req = tx[w].req /\ t.locks = tx[w].locks
          /\ t.todo = {row.contactId}
      BY Session DEF TxType
    <3>5. SessionOK(t)
      BY <1>1, <3>2, <3>4, Session DEF SessionOK, GetRow
    <3> QED BY <3>1, <3>3, <3>4, <3>5, QuietStep DEF GetRow
  <2> QED BY <1>1, <2>3, <2>4
<1> QED BY <1>2, <1>3

LEMMA LoadRowInv ==
  ASSUME IndInv, NEW w \in Workers, LoadRow(w)
  PROVE  IndInv'
<1> DEFINE row == table[Kind(w)][tx[w].id]
<1>1. tx[w].req \in Requests /\ Kind(w) \in {"contact", "deal"} /\ tx[w].id = tx[w].req.id
  BY Session, RequestFacts DEF LoadRow, Kind, Kinds, SessionOK
<1>2. CASE ~ Exists(Kind(w), tx[w].id)
  BY <1>2, RefuseInv DEF LoadRow
<1>3. CASE Exists(Kind(w), tx[w].id)
  <2>1. WellFormed(Kind(w), row)
    BY <1>1, <1>3, StoredWellFormed DEF Exists, Kinds
  <2>2. Kind(w) = "deal" => row.contactId \in DOMAIN table["contact"]
    BY <1>3 DEF IndInv, RefIntegrity, Exists
  <2>3. CASE "contactId" \notin DOMAIN Input(w)
    BY <1>1, <1>3, <2>1, <2>2, <2>3, AssignInv DEF LoadRow, Exists
  <2>4. CASE "contactId" \in DOMAIN Input(w) /\ Input(w)["contactId"] = 0
    BY <1>3, <2>4, RefuseInv DEF LoadRow
  <2>5. CASE "contactId" \in DOMAIN Input(w) /\ Input(w)["contactId"] # 0
    <3> DEFINE t == [tx[w] EXCEPT !.pc = "find", !.row = row]
    <3>1. tx' = [tx EXCEPT ![w] = t]
      BY <1>3, <2>5, Session DEF LoadRow
    <3>2. t \in TxType
      <4>1. row \in {NoRow} \cup RowTypes
        BY <1>1, <2>1, WellFormedRow DEF Kinds
      <4> QED BY <4>1, Session DEF TxType, Steps
    <3>3. /\ t.pc = "find" /\ t.req = tx[w].req /\ t.locks = tx[w].locks
          /\ t.todo = tx[w].todo /\ t.id = tx[w].id /\ t.row = row
      BY Session DEF TxType
    <3>4. Kind(w) = "deal"
      <4>1. Kind(w) # "contact"
        BY <1>1, <2>5, RequestFacts, ContactInputText, FieldAssumption
           DEF Kind, Input, ContactFields, DealFields
      <4> QED BY <1>1, <4>1
    <3>5. SessionOK(t)
      BY <1>1, <1>3, <2>1, <2>5, <3>3, <3>4, Session
         DEF SessionOK, LoadRow, Exists, Kind, Input
    <3> QED BY <3>1, <3>2, <3>3, <3>5, QuietStep DEF LoadRow
  <2> QED BY <2>3, <2>4, <2>5
<1> QED BY <1>2, <1>3

LEMMA ListDealsInv ==
  ASSUME IndInv, NEW w \in Workers, ListDeals(w)
  PROVE  IndInv'
<1>1. CASE Answer(w) /\ UNCHANGED <<table, counter>>
  BY <1>1, AnswerInv DEF ListDeals
<1>2. ASSUME NEW owners \in SUBSET {table["deal"][d].contactId : d \in DOMAIN table["deal"]},
             tx' = [tx EXCEPT ![w].pc = "enrich", ![w].todo = owners]
      PROVE  IndInv'
  <2> DEFINE t == [tx[w] EXCEPT !.pc = "enrich", !.todo = owners]
  <2>1. tx' = [tx EXCEPT ![w] = t]
    BY <1>2, Session DEF ListDeals
  <2>2. owners \subseteq DOMAIN table["contact"] /\ DOMAIN table["contact"] \subseteq Nat
    BY DEF IndInv, RefIntegrity, TypeOK, Kinds
  <2>3. t \in TxType
    BY <2>2, Session DEF TxType, Steps
  <2>4. t.pc = "enrich" /\ t.req = tx[w].req /\ t.locks = tx[w].locks /\ t.todo = owners
    BY Session DEF TxType
  <2>5. SessionOK(t)
    BY <2>2, <2>4, Session DEF SessionOK, ListDeals
  <2> QED BY <2>1, <2>3, <2>4, <2>5, QuietStep DEF ListDeals
<1>3. PICK found \in SUBSET DOMAIN table["deal"] :
        LET owners == {table["deal"][d].contactId : d \in found}
        IN  IF owners = {} THEN Answer(w)
            ELSE tx' = [tx EXCEPT ![w].pc = "enrich", ![w].todo = owners]
  BY DEF ListDeals
<1> DEFINE owners == {table["deal"][d].contactId : d \in found}
<1>4. owners \in SUBSET {table["deal"][d].contactId : d \in DOMAIN table["deal"]}
  OBVIOUS
<1> HIDE DEF owners
<1> QED BY <1>1, <1>2, <1>3, <1>4 DEF ListDeals, owners

LEMMA EnrichDealInv ==
  ASSUME IndInv, NEW w \in Workers, EnrichDeal(w)
  PROVE  IndInv'
<1>1. PICK c \in tx[w].todo :
        IF tx[w].todo # {c} THEN tx' = [tx EXCEPT ![w].todo = @ \ {c}]
        ELSE IF tx[w].req.verb = "update"
        THEN tx' = [tx EXCEPT ![w].todo = {}, ![w].pc = "commit"]
        ELSE Answer(w)
  BY DEF EnrichDeal
<1>2. CASE tx[w].todo # {c}
  <2> DEFINE t == [tx[w] EXCEPT !.todo = @ \ {c}]
  <2>1. tx' = [tx EXCEPT ![w] = t]
    BY <1>1, <1>2, Session
  <2>2. t \in TxType
    BY Session DEF TxType
  <2>3. /\ t.pc = "enrich" /\ t.req = tx[w].req /\ t.locks = tx[w].locks
        /\ t.todo = tx[w].todo \ {c} /\ t.id = tx[w].id /\ t.row = tx[w].row
        /\ t.dirty = tx[w].dirty
    BY Session DEF TxType, EnrichDeal
  <2>4. SessionOK(t)
    BY <2>3, Session DEF SessionOK, EnrichDeal, ContactGiven
  <2> QED BY <2>1, <2>2, <2>3, <2>4, QuietStep DEF EnrichDeal
<1>3. CASE tx[w].todo = {c} /\ tx[w].req.verb = "update"
  <2> DEFINE t == [tx[w] EXCEPT !.todo = {}, !.pc = "commit"]
  <2>1. tx' = [tx EXCEPT ![w] = t]
    BY <1>1, <1>3, Session
  <2>2. t \in TxType
    BY Session DEF TxType, Steps
  <2>3. /\ t.pc = "commit" /\ t.req = tx[w].req /\ t.locks = tx[w].locks
        /\ t.todo = {} /\ t.id = tx[w].id /\ t.row = tx[w].row
        /\ t.dirty = tx[w].dirty
    BY Session DEF TxType
  <2>4. SessionOK(t)
    BY <1>3, <2>3, Session DEF SessionOK, EnrichDeal, ContactGiven
  <2> QED BY <2>1, <2>2, <2>3, <2>4, QuietStep DEF EnrichDeal
<1>4. CASE tx[w].todo = {c} /\ tx[w].req.verb # "update"
  BY <1>1, <1>4, AnswerInv DEF EnrichDeal
<1> QED BY <1>2, <1>3, <1>4

LEMMA NextIdInv ==
  ASSUME IndInv, NEW w \in Workers, NextId(w)
  PROVE  IndInv'
<1> DEFINE k   == tx[w].req.kind
           new == NewRow(k, tx[w].req.input)
           t   == [tx[w] EXCEPT !.pc = "flush", !.id = counter[k] + 1, !.row = new,
                                !.locks = {CounterLock(k)}]
<1>1. /\ tx[w].req \in Requests /\ k \in Kinds /\ IsInput(k, tx[w].req.input)
      /\ tx[w].req.verb = "create" /\ CreateAccepted(k, tx[w].req.input)
      /\ tx[w].todo = {}
  BY Session, RequestFacts DEF NextId, SessionOK
<1>2. tx' = [tx EXCEPT ![w] = t]
  BY Session DEF NextId, Kind, Input
<1>3. new \in {NoRow} \cup RowTypes
  BY <1>1, NewRowWellFormed, WellFormedRow
<1>4. counter[k] + 1 \in Nat /\ CounterLock(k) \in Kinds \X Nat
  BY <1>1 DEF IndInv, TypeOK, CounterLock
<1>5. t \in TxType
  BY <1>3, <1>4, Session DEF TxType, Steps
<1>6. /\ t.pc = "flush" /\ t.req = tx[w].req /\ t.id = counter[k] + 1 /\ t.row = new
      /\ t.locks = {CounterLock(k)} /\ t.todo = tx[w].todo
  BY Session DEF TxType
<1>7. SessionOK(t)
  BY <1>1, <1>6, Session DEF SessionOK, NextId, ContactGiven
<1>8. \A v \in Workers \ {w} : t.locks \cap tx[v].locks = {}
  BY <1>6 DEF NextId, Free, Kind
<1> QED BY <1>2, <1>5, <1>7, <1>8, LocalStep DEF NextId

LEMMA FlushInsertInv ==
  ASSUME IndInv, NEW w \in Workers, FlushInsert(w)
  PROVE  IndInv'
<1> DEFINE t == [tx[w] EXCEPT !.pc = "commit"]
<1>1. tx' = [tx EXCEPT ![w] = t]
  BY Session DEF FlushInsert
<1>2. t \in TxType
  BY Session DEF TxType, Steps
<1>3. /\ t.pc = "commit" /\ t.req = tx[w].req /\ t.locks = tx[w].locks
      /\ t.todo = tx[w].todo /\ t.id = tx[w].id /\ t.row = tx[w].row
  BY Session DEF TxType
<1>4. SessionOK(t)
  BY <1>3, Session DEF SessionOK, FlushInsert, ContactGiven
<1> QED BY <1>1, <1>2, <1>3, <1>4, QuietStep DEF FlushInsert

LEMMA FlushUpdateInv ==
  ASSUME IndInv, NEW w \in Workers, FlushUpdate(w)
  PROVE  IndInv'
<1> DEFINE k == tx[w].req.kind
           locks == IF tx[w].dirty = {} THEN {} ELSE {<<k, tx[w].id>>}
           pc == IF k = "deal" THEN "enrich" ELSE "commit"
           todo == IF k = "deal" THEN {tx[w].row.contactId} ELSE {}
           t == [tx[w] EXCEPT !.locks = locks, !.pc = pc, !.todo = todo]
<1>1. /\ tx[w].req \in Requests /\ k \in Kinds /\ WellFormed(k, tx[w].row)
      /\ k = "deal" => tx[w].row.contactId \in DOMAIN table["contact"]
  BY Session, RequestFacts DEF FlushUpdate, SessionOK
<1>2. tx' = [tx EXCEPT ![w] = t]
  BY Session DEF FlushUpdate, Kind
<1>3. /\ locks \subseteq Kinds \X Nat /\ todo \subseteq Nat
      /\ todo \subseteq DOMAIN table["contact"]
      /\ locks \subseteq {<<k, tx[w].id>>} /\ pc \in {"enrich", "commit"}
  BY <1>1, WellFormedRow, Session DEF TxType
<1>4. \A v \in Workers \ {w} : locks \cap tx[v].locks = {}
  BY DEF FlushUpdate, Free, Kind
<1> HIDE DEF locks, pc, todo
<1>5. t \in TxType
  BY <1>3, Session DEF TxType, Steps
<1>6. /\ t.pc = pc /\ t.req = tx[w].req /\ t.locks = locks
      /\ t.todo = todo /\ t.id = tx[w].id /\ t.row = tx[w].row
      /\ t.dirty = tx[w].dirty
  BY Session DEF TxType
<1> HIDE DEF t
<1>7. SessionOK(t)
  <2>1. tx[w].req.verb = "update" /\ tx[w].pc = "flush"
    BY DEF FlushUpdate
  <2>2. SessionOK(tx[w])
    BY Session
  <2> QED BY <1>1, <1>3, <1>6, <2>1, <2>2 DEF SessionOK, ContactGiven
<1>8. UNCHANGED <<table, counter>> /\ t.locks = locks
  BY <1>6 DEF FlushUpdate
<1> QED BY <1>2, <1>4, <1>5, <1>7, <1>8, LocalStep

-----------------------------------------------------------------------------
(* COMMIT of a create and of an update: the row each leaves behind.         *)
LEMMA CommitCreateRow ==
  ASSUME IndInv, NEW w \in Workers, Commit(w), tx[w].req.verb = "create"
  PROVE  /\ tx[w].id = counter[Kind(w)] + 1 /\ tx[w].locks = {CounterLock(Kind(w))}
         /\ Committed(w) = NewRow(Kind(w), Input(w))
         /\ CreateAccepted(Kind(w), Input(w))
         /\ WellFormed(Kind(w), Committed(w))
         /\ Kind(w) # "contact" => /\ Input(w)["contactId"] \in DOMAIN table["contact"]
                                   /\ Committed(w).contactId \in DOMAIN table["contact"]
<1>1. tx[w].req \in Requests /\ SessionOK(tx[w]) /\ tx[w].pc = "commit"
  BY Session DEF Commit
<1>2. /\ tx[w].id = counter[Kind(w)] + 1 /\ tx[w].locks = {CounterLock(Kind(w))}
      /\ tx[w].row = NewRow(Kind(w), Input(w)) /\ CreateAccepted(Kind(w), Input(w))
      /\ Kind(w) # "contact" => Input(w)["contactId"] \in DOMAIN table["contact"]
  BY <1>1 DEF SessionOK, ContactGiven, Kind, Input
<1>3. Committed(w) = NewRow(Kind(w), Input(w))
  BY <1>2 DEF Committed
<1> QED BY <1>1, <1>2, <1>3, RequestFacts, NewRowWellFormed DEF Kind, Input

LEMMA CommitUpdateRow ==
  ASSUME IndInv, NEW w \in Workers, Commit(w), tx[w].req.verb # "create"
  PROVE  /\ tx[w].req.verb = "update"
         /\ tx[w].id = tx[w].req.id /\ tx[w].id \in DOMAIN table[Kind(w)]
         /\ WellFormed(Kind(w), Committed(w))
         /\ Kind(w) \in {"contact", "deal"}
         /\ Kind(w) # "contact" => Committed(w).contactId \in DOMAIN table["contact"]
         /\ PatchAccepted(Kind(w), Input(w))
         /\ "contactId" \in DOMAIN Input(w) =>
              Input(w)["contactId"] \in DOMAIN table["contact"]
         /\ tx[w].dirty \subseteq DOMAIN Input(w)
         /\ DOMAIN Committed(w) = DOMAIN table[Kind(w)][tx[w].id]
         /\ \A f \in DOMAIN Committed(w) :
              Committed(w)[f] = IF f \in tx[w].dirty
                                  THEN Stored(Kind(w), f, Input(w)[f])
                                  ELSE table[Kind(w)][tx[w].id][f]
<1> DEFINE k == Kind(w)
           old == table[k][tx[w].id]
<1>1. tx[w].req \in Requests /\ SessionOK(tx[w]) /\ tx[w].pc = "commit"
  BY Session DEF Commit
<1>2. tx[w].req.verb = "update"
  BY <1>1 DEF SessionOK
<1>3. k \in {"contact", "deal"}
  BY <1>1, <1>2, RequestFacts DEF Kind, Kinds
<1>4. /\ tx[w].id = tx[w].req.id /\ tx[w].id \in DOMAIN table[k]
      /\ WellFormed(k, tx[w].row) /\ PatchAccepted(k, Input(w))
      /\ "contactId" \in DOMAIN Input(w) =>
           Input(w)["contactId"] \in DOMAIN table["contact"]
      /\ k = "deal" => tx[w].row.contactId \in DOMAIN table["contact"]
      /\ \A f \in tx[w].dirty : /\ f \in DOMAIN Input(w)
                                /\ tx[w].row[f] = Stored(k, f, Input(w)[f])
  BY <1>1, <1>2 DEF SessionOK, ContactGiven, Kind, Input
<1>5. Committed(w) = [f \in DOMAIN tx[w].row |->
                        IF f \in tx[w].dirty THEN tx[w].row[f] ELSE old[f]]
  BY <1>2 DEF Committed
<1>6. WellFormed(k, old)
  BY <1>3, <1>4, StoredWellFormed DEF Kinds
<1>7. WellFormed(k, Committed(w))
  <2>1. k \in Kinds
    BY <1>3 DEF Kinds
  <2>2. WellFormed(k, tx[w].row)
    BY <1>4
  <2>3. WellFormed(k, [f \in DOMAIN tx[w].row |->
                        IF f \in tx[w].dirty THEN tx[w].row[f] ELSE old[f]])
    BY <1>6, <2>1, <2>2, MixWellFormed
  <2> QED BY <1>5, <2>3
<1>8. DOMAIN tx[w].row = DOMAIN old
  BY <1>3, <1>4, <1>6, WellFormedRow DEF Kinds
<1>9. k = "deal" => Committed(w).contactId \in DOMAIN table["contact"]
  <2>1. k = "deal" => "contactId" \in DOMAIN tx[w].row
    BY <1>4, WellFormedRow, ByKind DEF Kinds, DealFields
  <2>2. k = "deal" => old.contactId \in DOMAIN table["contact"]
    BY <1>4 DEF IndInv, RefIntegrity
  <2> QED BY <1>4, <1>5, <2>1, <2>2
<1>10. \A f \in DOMAIN Committed(w) :
         Committed(w)[f] = IF f \in tx[w].dirty
                             THEN Stored(k, f, Input(w)[f]) ELSE old[f]
  BY <1>4, <1>5
<1>11. DOMAIN Committed(w) = DOMAIN old
  BY <1>5, <1>8
<1>12. tx[w].dirty \subseteq DOMAIN Input(w)
  BY <1>4
<1> QED BY <1>2, <1>3, <1>4, <1>7, <1>9, <1>10, <1>11, <1>12

(* COMMIT of either kind: how the tables and counters change.               *)
LEMMA CommitTables ==
  ASSUME IndInv, NEW w \in Workers, Commit(w)
  PROVE  /\ Kind(w) \in Kinds /\ tx[w].id \in Nat
         /\ DOMAIN table' = Kinds
         /\ DOMAIN table'[Kind(w)] = DOMAIN table[Kind(w)] \cup {tx[w].id}
         /\ table'[Kind(w)][tx[w].id] = Committed(w)
         /\ \A i \in DOMAIN table[Kind(w)] \ {tx[w].id} :
              table'[Kind(w)][i] = table[Kind(w)][i]
         /\ \A j \in Kinds \ {Kind(w)} : table'[j] = table[j]
         /\ \A j \in Kinds : DOMAIN table[j] \subseteq DOMAIN table'[j]
         /\ table'[Kind(w)] = [i \in DOMAIN table'[Kind(w)] |-> table'[Kind(w)][i]]
<1>1. DOMAIN table = Kinds
  BY DEF IndInv, TypeOK
<1>2. Kind(w) \in Kinds /\ tx[w].id \in Nat
  BY Session, RequestFacts DEF Commit, Kind, TxType
<1>3. table' = [table EXCEPT ![Kind(w)] =
                 [i \in DOMAIN table[Kind(w)] \cup {tx[w].id} |->
                    IF i = tx[w].id THEN Committed(w) ELSE table[Kind(w)][i]]]
  BY DEF Commit
<1> QED BY <1>1, <1>2, <1>3

(* COMMIT preserves the invariant.  Another session of the same kind cannot *)
(* be relying on the counter that a create advances: its lock would clash.  *)
LEMMA CommitInv ==
  ASSUME IndInv, NEW w \in Workers, Commit(w)
  PROVE  IndInv'
<1> DEFINE k == Kind(w)
           new == Committed(w)
           t == [tx[w] EXCEPT !.pc = "reply", !.status = "ok", !.todo = {}, !.locks = {}]
<1>1. tx' = [tx EXCEPT ![w] = t]
  BY Session DEF Commit, Answer
<1>2. t \in TxType /\ t.pc = "reply" /\ t.req = tx[w].req /\ t.locks = {} /\ t.todo = {}
  BY Session DEF TxType, Steps
<1>3. /\ tx \in [Workers -> TxType] /\ tx' \in [Workers -> TxType] /\ tx'[w] = t
      /\ \A v \in Workers \ {w} : tx'[v] = tx[v]
  BY <1>1, <1>2, Session
<1> HIDE DEF t
<1>4. WellFormed(k, new) /\ (k # "contact" => new.contactId \in DOMAIN table["contact"])
  BY CommitCreateRow, CommitUpdateRow
<1> HIDE DEF new
<1>5. /\ k \in Kinds /\ tx[w].id \in Nat /\ DOMAIN table' = Kinds
      /\ DOMAIN table'[k] = DOMAIN table[k] \cup {tx[w].id}
      /\ table'[k][tx[w].id] = new
      /\ \A i \in DOMAIN table[k] \ {tx[w].id} : table'[k][i] = table[k][i]
      /\ \A j \in Kinds \ {k} : table'[j] = table[j]
      /\ \A j \in Kinds : DOMAIN table[j] \subseteq DOMAIN table'[j]
      /\ table'[k] = [i \in DOMAIN table'[k] |-> table'[k][i]]
  BY CommitTables DEF new
<1>6. /\ tx[w].req.verb = "create" =>
           /\ tx[w].id = counter[k] + 1 /\ tx[w].locks = {CounterLock(k)}
           /\ counter' = [counter EXCEPT ![k] = tx[w].id]
      /\ tx[w].req.verb # "create" => tx[w].id \in DOMAIN table[k] /\ counter' = counter
  BY CommitCreateRow, CommitUpdateRow DEF Commit
<1> HIDE DEF k
<1>7. \A j \in Kinds : \A i \in DOMAIN table'[j] : WellFormed(j, table'[j][i]) /\ i \in Nat
  <2> TAKE j \in Kinds
  <2> TAKE i \in DOMAIN table'[j]
  <2>1. CASE j = k /\ i = tx[w].id
    BY <1>4, <1>5, <2>1
  <2>2. CASE ~ (j = k /\ i = tx[w].id)
    <3>1. i \in DOMAIN table[j] /\ table'[j][i] = table[j][i]
      BY <1>5, <2>2
    <3> QED BY <3>1, StoredWellFormed
  <2> QED BY <2>1, <2>2
<1>8. counter' \in [Kinds -> Nat]
  BY <1>5, <1>6 DEF IndInv, TypeOK
<1>9. TypeOK'
  <2>1. \A j \in Kinds : table'[j] = [i \in DOMAIN table'[j] |-> table'[j][i]]
    BY <1>5 DEF IndInv, TypeOK
  <2>2. \A j \in Kinds : /\ table'[j] \in [DOMAIN table'[j] -> Rows[j]]
                         /\ DOMAIN table'[j] \subseteq Nat
    BY <1>7, <2>1 DEF WellFormed
  <2> QED BY <1>3, <1>5, <1>8, <2>2 DEF TypeOK
<1>10. MandatoryFilled'
  BY <1>7 DEF MandatoryFilled, WellFormed, IsBlank
<1>11. IdsContiguous'
  <2> SUFFICES ASSUME NEW j \in Kinds
               PROVE  DOMAIN table'[j] = 1..counter'[j]
    BY DEF IdsContiguous
  <2>1. DOMAIN table[j] = 1..counter[j] /\ counter[j] \in Nat
    BY DEF IndInv, IdsContiguous, TypeOK
  <2>2. CASE j = k /\ tx[w].req.verb = "create"
    <3>1. counter'[j] = counter[j] + 1 /\ DOMAIN table'[j] = 1..counter[j] \cup {counter[j] + 1}
      BY <1>5, <1>6, <2>1, <2>2 DEF IndInv, TypeOK
    <3> QED BY <2>1, <3>1
  <2>3. CASE ~ (j = k /\ tx[w].req.verb = "create")
    <3>1. counter'[j] = counter[j] /\ DOMAIN table'[j] = DOMAIN table[j]
      BY <1>5, <1>6, <2>3 DEF IndInv, TypeOK
    <3> QED BY <2>1, <3>1
  <2> QED BY <2>2, <2>3
<1>12. RefIntegrity'
  <2> SUFFICES ASSUME NEW j \in {"deal", "activity"}, NEW i \in DOMAIN table'[j]
               PROVE  table'[j][i].contactId \in DOMAIN table'["contact"]
    BY DEF RefIntegrity
  <2>1. DOMAIN table["contact"] \subseteq DOMAIN table'["contact"] /\ j \in Kinds
    BY <1>5 DEF Kinds
  <2>2. CASE j = k /\ i = tx[w].id
    BY <1>4, <1>5, <2>1, <2>2
  <2>3. CASE ~ (j = k /\ i = tx[w].id)
    <3>1. i \in DOMAIN table[j] /\ table'[j][i] = table[j][i]
      BY <1>5, <2>1, <2>3
    <3> QED BY <2>1, <3>1 DEF IndInv, RefIntegrity
  <2> QED BY <2>2, <2>3
<1>13. ASSUME NEW v \in Workers
       PROVE  SessionOK(tx[v])'
  <2>1. CASE v = w
    <3>1. tx[w].req \in Requests
      BY Session DEF Commit
    <3> QED BY <1>2, <1>3, <2>1, <3>1 DEF SessionOK
  <2>2. CASE v # w
    <3>1. tx'[v] = tx[v] /\ SessionOK(tx[v])
      BY <1>3, <2>2, Session
    <3>2. \A j \in Kinds : DOMAIN table[j] \subseteq DOMAIN table'[j]
      BY <1>5
    <3>3. tx[v].pc # "idle" => tx[v].req.kind \in Kinds
      BY Session, RequestFacts
    <3>4. tx[v].pc \in {"flush", "commit"} /\ tx[v].req.verb = "create" =>
            counter'[tx[v].req.kind] = counter[tx[v].req.kind]
      <4> SUFFICES ASSUME tx[v].pc \in {"flush", "commit"}, tx[v].req.verb = "create",
                          tx[w].req.verb = "create", tx[v].req.kind = k
                   PROVE  FALSE
        BY <1>5, <1>6, <3>3 DEF IndInv, TypeOK
      <4>1. tx[v].locks = {CounterLock(k)} /\ tx[w].locks = {CounterLock(k)}
        BY <1>6, <3>1 DEF SessionOK
      <4> QED BY <2>2, <4>1 DEF IndInv, LocksExclusive
    <3>5. "contact" \in Kinds
      BY DEF Kinds
    <3> QED BY <3>1, <3>2, <3>3, <3>4, <3>5 DEF SessionOK, ContactGiven
  <2> QED BY <2>1, <2>2
<1>14. LocksExclusive'
  BY <1>2, <1>3 DEF IndInv, LocksExclusive
<1> QED BY <1>9, <1>10, <1>11, <1>12, <1>13, <1>14 DEF IndInv

-----------------------------------------------------------------------------
(* The seeded database satisfies the invariant.                             *)
LEMMA InitInv == Init => IndInv
<1> SUFFICES ASSUME Init PROVE IndInv
  OBVIOUS
<1>1. /\ DOMAIN table = Kinds /\ tx = [w \in Workers |-> NoTx]
      /\ counter = [k \in Kinds |-> Len(Seed[k])]
      /\ \A k \in Kinds : table[k] = Seed[k] /\ table[k] \in Seq(Rows[k])
  BY SeedAssumption DEF Init
<1>2. \A k \in Kinds : /\ DOMAIN table[k] = 1..Len(table[k]) /\ Len(table[k]) \in Nat
                       /\ \A i \in DOMAIN table[k] : table[k][i] \in Rows[k] /\ i \in Nat
  BY <1>1
<1>3. TypeOK
  BY <1>1, <1>2, NoTxFacts DEF TypeOK
<1>4. IdsContiguous
  BY <1>1, <1>2 DEF IdsContiguous
<1>5. RefIntegrity
  BY <1>1, SeedAssumption DEF RefIntegrity, Kinds
<1>6. MandatoryFilled
  BY <1>1, SeedAssumption DEF MandatoryFilled
<1>7. \A w \in Workers : SessionOK(tx[w])
  BY <1>1, NoTxFacts
<1>8. LocksExclusive
  BY <1>1, NoTxFacts DEF LocksExclusive
<1> QED BY <1>3, <1>4, <1>5, <1>6, <1>7, <1>8 DEF IndInv

(* Every step preserves it.                                                 *)
LEMMA NextInv == IndInv /\ [Next]_vars => IndInv'
<1> SUFFICES ASSUME IndInv, [Next]_vars PROVE IndInv'
  OBVIOUS
<1>1. CASE UNCHANGED vars
  BY <1>1 DEF vars, IndInv, TypeOK, IdsContiguous, RefIntegrity, MandatoryFilled,
              SessionOK, ContactGiven, LocksExclusive
<1>2. ASSUME NEW w \in Workers, NEW r \in Requests, Receive(w, r) PROVE IndInv'
  BY <1>2, ReceiveInv
<1>3. ASSUME NEW w \in Workers, Statement(w) PROVE IndInv'
  <2>1. CASE FindContact(w)     BY <2>1, FindContactInv
  <2>2. CASE ListActivities(w)  BY <2>2, ListActivitiesInv
  <2>3. CASE GetRow(w)          BY <2>3, GetRowInv
  <2>4. CASE LoadRow(w)         BY <2>4, LoadRowInv
  <2>5. CASE ListDeals(w)       BY <2>5, ListDealsInv
  <2>6. CASE EnrichDeal(w)      BY <2>6, EnrichDealInv
  <2>7. CASE NextId(w)          BY <2>7, NextIdInv
  <2>8. CASE FlushInsert(w)     BY <2>8, FlushInsertInv
  <2>9. CASE FlushUpdate(w)     BY <2>9, FlushUpdateInv
  <2>10. CASE Commit(w)         BY <2>10, CommitInv
  <2>11. CASE Reply(w)          BY <2>11, ReplyInv
  <2>12. CASE FindNewContact(w) BY <2>12, FindNewContactInv
  <2> QED BY <1>3, <2>1, <2>2, <2>3, <2>4, <2>5, <2>6, <2>7, <2>8, <2>9, <2>10, <2>11, <2>12
          DEF Statement
<1>4. ASSUME NEW w \in Workers, Crash(w) PROVE IndInv'
  BY <1>4, ResetInv DEF Crash
<1>5. ASSUME NEW w \in Workers, Abort(w) PROVE IndInv'
  BY <1>5, RefuseInv DEF Abort
<1> QED BY <1>1, <1>2, <1>3, <1>4, <1>5 DEF Next

(* The inductive invariant holds throughout.                                *)
THEOREM InvariantHolds == Spec => []IndInv
BY InitInv, NextInv, PTL DEF Spec

(* Type correctness of the store (db_models.py), for every instance.        *)
THEOREM TypeCorrect == Spec => []TypeOK
<1>1. IndInv => TypeOK
  BY DEF IndInv
<1> QED BY <1>1, InvariantHolds, PTL

(* _next_id: ids are exactly 1..counter, whatever is refused or rolled back. *)
THEOREM IdsAreContiguous == Spec => []IdsContiguous
<1>1. IndInv => IdsContiguous
  BY DEF IndInv
<1> QED BY <1>1, InvariantHolds, PTL

(* _next_id: no INSERT meets a taken primary key, for any number of          *)
(* concurrent creates.                                                      *)
THEOREM NoIdCollision == Spec => []PendingIdsFresh
<1>1. IndInv => PendingIdsFresh
  <2> SUFFICES ASSUME IndInv, NEW w \in Workers, Inserting(w)
               PROVE  /\ tx[w].id \notin DOMAIN table[Kind(w)]
                      /\ \A v \in Workers \ {w} :
                           Inserting(v) /\ Kind(v) = Kind(w) => tx[v].id # tx[w].id
    BY DEF PendingIdsFresh
  <2>1. \A v \in Workers : Inserting(v) =>
          /\ tx[v].id = counter[Kind(v)] + 1 /\ tx[v].locks = {CounterLock(Kind(v))}
          /\ Kind(v) \in Kinds
    BY Session, RequestFacts DEF Inserting, SessionOK, Kind
  <2>2. tx[w].id \notin DOMAIN table[Kind(w)]
    <3>1. DOMAIN table[Kind(w)] = 1..counter[Kind(w)] /\ counter[Kind(w)] \in Nat
      BY <2>1 DEF IndInv, IdsContiguous, TypeOK
    <3> QED BY <2>1, <3>1
  <2>3. ASSUME NEW v \in Workers \ {w}, Inserting(v), Kind(v) = Kind(w) PROVE FALSE
    BY <2>1, <2>3 DEF IndInv, LocksExclusive
  <2> QED BY <2>2, <2>3
<1> QED BY <1>1, InvariantHolds, PTL

(* Every deal and activity belongs to a stored contact, with no foreign key. *)
THEOREM ReferencesHold == Spec => []RefIntegrity
<1>1. IndInv => RefIntegrity
  BY DEF IndInv
<1> QED BY <1>1, InvariantHolds, PTL

(* Mandatory texts are never blank, however edits interleave.               *)
THEOREM MandatoryHolds == Spec => []MandatoryFilled
<1>1. IndInv => MandatoryFilled
  BY DEF IndInv
<1> QED BY <1>1, InvariantHolds, PTL

(* _enrich_deal always finds the contact it looks up.                       *)
THEOREM EnrichmentTotal == Spec => []EnrichFindsContact
<1>1. IndInv => EnrichFindsContact
  BY DEF IndInv, SessionOK, EnrichFindsContact
<1> QED BY <1>1, InvariantHolds, PTL

-----------------------------------------------------------------------------
(* Any step but a COMMIT leaves the data alone, touches one session, and    *)
(* makes no create that session's answer.                                   *)
LEMMA QuietStatement ==
  ASSUME IndInv, NEW w \in Workers, ~ Commit(w),
         \/ \E r \in Requests : Receive(w, r)
         \/ Statement(w)
         \/ Abort(w)
         \/ Crash(w)
  PROVE  /\ UNCHANGED <<table, counter>>
         /\ \A v \in Workers \ {w} : tx'[v] = tx[v]
         /\ ~ AckedCreate(w)'
<1>1. tx[w] \in TxType /\ SessionOK(tx[w]) /\ tx \in [Workers -> TxType]
  BY Session
<1>2. \A t : tx' = [tx EXCEPT ![w] = t] => tx'[w] = t /\ \A v \in Workers \ {w} : tx'[v] = tx[v]
  BY <1>1
<1>3. ASSUME NEW r \in Requests, Receive(w, r)
      PROVE  /\ UNCHANGED <<table, counter>>
             /\ \A v \in Workers \ {w} : tx'[v] = tx[v]
             /\ ~ AckedCreate(w)'
  <2>1. tx'[w].pc = "reply" => tx'[w].status = "invalid"
    BY <1>1, <1>3 DEF Receive, FirstStatement, TxType
  <2> QED BY <1>1, <1>3, <2>1 DEF Receive, AckedCreate
<1>4. ASSUME NEW s \in {"invalid", "missing", "error"}, Refuse(w, s)
      PROVE  ~ AckedCreate(w)' /\ \A v \in Workers \ {w} : tx'[v] = tx[v]
  BY <1>1, <1>4 DEF Refuse, AckedCreate, TxType
<1>5. ASSUME Answer(w), tx[w].req.verb # "create"
      PROVE  ~ AckedCreate(w)' /\ \A v \in Workers \ {w} : tx'[v] = tx[v]
  BY <1>1, <1>5 DEF Answer, AckedCreate, TxType
<1>6. ASSUME NEW row, Assign(w, row)
      PROVE  ~ AckedCreate(w)' /\ \A v \in Workers \ {w} : tx'[v] = tx[v]
  BY <1>1, <1>4, <1>6 DEF Assign, AckedCreate, TxType
<1>7. CASE FindContact(w)
  BY <1>1, <1>4, <1>7 DEF FindContact, AckedCreate, TxType
<1>8. CASE FindNewContact(w)
  BY <1>4, <1>6, <1>8 DEF FindNewContact
<1>9. CASE ListActivities(w)
  BY <1>4, <1>5, <1>9 DEF ListActivities
<1>10. CASE GetRow(w)
  <2>1. tx[w].req.verb = "get"
    BY <1>10 DEF GetRow
  <2>2. tx'[w].req = tx[w].req /\ \A v \in Workers \ {w} : tx'[v] = tx[v]
    BY <1>1, <1>10 DEF GetRow, Refuse, TxType
  <2> QED BY <1>10, <2>1, <2>2 DEF GetRow, AckedCreate
<1>11. CASE LoadRow(w)
  <2>1. tx[w].pc = "load" /\ UNCHANGED <<table, counter>>
    BY <1>11 DEF LoadRow
  <2>2. CASE tx' = [tx EXCEPT ![w].pc = "find", ![w].row = table[Kind(w)][tx[w].id]]
    BY <1>1, <2>1, <2>2 DEF AckedCreate, TxType
  <2>3. CASE Refuse(w, "missing") \/ Refuse(w, "invalid")
    BY <1>4, <2>1, <2>3
  <2>4. CASE Assign(w, table[Kind(w)][tx[w].id])
    BY <1>6, <2>1, <2>4
  <2> QED BY <1>11, <2>2, <2>3, <2>4 DEF LoadRow
<1>12. CASE ListDeals(w)
  <2>1. CASE Answer(w)
    BY <1>5, <1>12, <2>1 DEF ListDeals
  <2>2. CASE \E owners : tx' = [tx EXCEPT ![w].pc = "enrich", ![w].todo = owners]
    BY <1>1, <1>12, <2>2 DEF ListDeals, AckedCreate, TxType
  <2> QED BY <1>12, <2>1, <2>2 DEF ListDeals
<1>13. CASE EnrichDeal(w)
  <2>1. tx[w].req.verb # "create" /\ tx[w].pc = "enrich"
    BY <1>1, <1>13 DEF EnrichDeal, SessionOK
  <2> QED BY <1>1, <1>5, <1>13, <2>1 DEF EnrichDeal, AckedCreate, TxType
<1>14. CASE NextId(w) \/ FlushInsert(w) \/ FlushUpdate(w)
  <2>1. CASE NextId(w)
    BY <1>1, <2>1 DEF NextId, AckedCreate, TxType
  <2>2. CASE FlushInsert(w)
    BY <1>1, <2>2 DEF FlushInsert, AckedCreate, TxType
  <2>3. CASE FlushUpdate(w)
    <3>1. /\ \A v \in Workers \ {w} : tx'[v] = tx[v]
          /\ tx'[w].req = tx[w].req /\ UNCHANGED <<table, counter>>
      BY <1>1, <2>3 DEF FlushUpdate, TxType
    <3>2. tx[w].req.verb = "update"
      BY <2>3 DEF FlushUpdate
    <3> QED BY <3>1, <3>2 DEF AckedCreate
  <2> QED BY <1>14, <2>1, <2>2, <2>3
<1>15. CASE Reply(w) \/ Crash(w)
  BY <1>1, <1>15, NoTxFacts, ReplyInv DEF Reply, Crash, AckedCreate
<1>16. CASE Abort(w)
  BY <1>4, <1>16 DEF Abort
<1> QED
  BY <1>3, <1>7, <1>8, <1>9, <1>10, <1>11, <1>12, <1>13, <1>14, <1>15, <1>16
  DEF Statement

(* A step keeps what earlier answers promised; a COMMIT adds one that is     *)
(* true, under a number that no stored row, so no earlier answer, has.       *)
LEMMA AckStep == IndInv /\ AckedCreatesStored /\ [Next]_vars => AckedCreatesStored'
<1> SUFFICES ASSUME IndInv, AckedCreatesStored, [Next]_vars PROVE AckedCreatesStored'
  OBVIOUS
<1>1. CASE UNCHANGED vars
  BY <1>1 DEF vars, AckedCreatesStored, AckedCreate, Kind
<1>2. CASE Next
  <2>1. PICK w \in Workers : \/ \E r \in Requests : Receive(w, r)
                             \/ Statement(w)
                             \/ Abort(w)
                             \/ Crash(w)
    BY <1>2 DEF Next
  <2>2. CASE ~ Commit(w)
    <3>1. /\ UNCHANGED <<table, counter>>
          /\ \A v \in Workers \ {w} : tx'[v] = tx[v]
          /\ ~ AckedCreate(w)'
      BY <2>1, <2>2, QuietStatement
    <3> QED BY <3>1 DEF AckedCreatesStored, AckedCreate, Kind
  <2>3. CASE Commit(w)
    <3> DEFINE k == Kind(w)
               n == tx[w].id
    <3>1. /\ k \in Kinds /\ n \in Nat
          /\ n \in DOMAIN table'[k] /\ table'[k][n] = Committed(w)
          /\ \A i \in DOMAIN table[k] \ {n} : table'[k][i] = table[k][i]
          /\ \A j \in Kinds \ {k} : table'[j] = table[j]
          /\ \A j \in Kinds : DOMAIN table[j] \subseteq DOMAIN table'[j]
      BY <2>3, CommitTables
    <3>2. tx'[w] = [tx[w] EXCEPT !.pc = "reply", !.status = "ok", !.todo = {}, !.locks = {}]
          /\ \A v \in Workers \ {w} : tx'[v] = tx[v]
      BY <2>3, Session DEF Commit, Answer
    <3>3. tx'[w].id = n /\ tx'[w].row = tx[w].row /\ tx'[w].req = tx[w].req
      BY <3>2, Session DEF TxType
    <3>4. /\ tx[w].req.verb = "create" =>
               n \notin DOMAIN table[k] /\ Committed(w) = tx[w].row
          /\ k = "activity" => tx[w].req.verb = "create"
      <4>1. tx[w].req.verb = "create" => n = counter[k] + 1
        BY <2>3, CommitCreateRow
      <4>2. DOMAIN table[k] = 1..counter[k] /\ counter[k] \in Nat
        BY <3>1 DEF IndInv, IdsContiguous, TypeOK
      <4>3. tx[w].req.verb = "create" => Committed(w) = tx[w].row
        BY DEF Committed
      <4>4. tx[w].req.verb # "create" => k # "activity"
        BY <2>3, CommitUpdateRow
      <4> QED BY <4>1, <4>2, <4>3, <4>4
    <3>5. ASSUME NEW v \in Workers \ {w}, AckedCreate(v)'
          PROVE  /\ AckedCreate(v) /\ Kind(v)' = Kind(v) /\ tx'[v].id = tx[v].id
                 /\ Kind(v) \in Kinds
                 /\ tx[v].id \in DOMAIN table[Kind(v)]
                 /\ tx'[v].id \in DOMAIN table'[Kind(v)]
                 /\ Kind(v) = "activity" => table'["activity"][tx'[v].id] = tx'[v].row
      <4>1. AckedCreate(v) /\ Kind(v)' = Kind(v) /\ tx'[v] = tx[v]
        BY <3>2, <3>5 DEF AckedCreate, Kind
      <4>2. Kind(v) \in Kinds
        BY <4>1, Session, RequestFacts DEF AckedCreate, Kind
      <4>3. /\ tx[v].id \in DOMAIN table[Kind(v)]
            /\ Kind(v) = "activity" => table["activity"][tx[v].id] = tx[v].row
        BY <4>1 DEF AckedCreatesStored
      <4>4. Kind(v) = "activity" => table'["activity"][tx[v].id] = tx[v].row
        BY <3>1, <3>4, <4>2, <4>3
      <4> QED BY <3>1, <4>1, <4>2, <4>3, <4>4
    <3>6. Kind(w)' = k
      BY <3>3 DEF Kind
    <3>7. AckedCreate(w)' => tx[w].req.verb = "create"
      BY <3>3 DEF AckedCreate
    <3>8. ASSUME NEW v \in Workers \ {w}, AckedCreate(v)', AckedCreate(w)', Kind(v)' = k
          PROVE  tx'[v].id # tx'[w].id
      BY <3>3, <3>4, <3>5, <3>7, <3>8
    <3>9. ASSUME NEW v \in Workers, AckedCreate(v)'
          PROVE  /\ tx'[v].id \in DOMAIN table'[Kind(v)']
                 /\ Kind(v)' = "activity" => table'["activity"][tx'[v].id] = tx'[v].row
      <4>1. CASE v = w
        BY <3>1, <3>3, <3>4, <3>6, <3>7, <3>9, <4>1
      <4>2. CASE v # w
        BY <3>5, <3>9, <4>2
      <4> QED BY <4>1, <4>2
    <3>10. ASSUME NEW v \in Workers, NEW u \in Workers \ {v},
                  AckedCreate(v)', AckedCreate(u)', Kind(u)' = Kind(v)'
           PROVE  tx'[u].id # tx'[v].id
      <4>1. CASE v = w
        BY <3>6, <3>8, <3>10, <4>1
      <4>2. CASE u = w
        BY <3>6, <3>8, <3>10, <4>2
      <4>3. CASE v # w /\ u # w
        <5>1. /\ AckedCreate(v) /\ AckedCreate(u) /\ Kind(u) = Kind(v)
              /\ tx'[v].id = tx[v].id /\ tx'[u].id = tx[u].id
          BY <3>5, <3>10, <4>3
        <5> QED BY <5>1 DEF AckedCreatesStored
      <4> QED BY <4>1, <4>2, <4>3
    <3> QED BY <3>9, <3>10 DEF AckedCreatesStored
  <2> QED BY <2>2, <2>3
<1> QED BY <1>1, <1>2

(* A create answered 201 is stored under the number it was answered with.   *)
THEOREM AckedCreatesAreStored == Spec => []AckedCreatesStored
<1>1. Init => AckedCreatesStored
  BY NoTxFacts DEF Init, AckedCreatesStored, AckedCreate
<1>2. IndInv /\ AckedCreatesStored /\ [Next]_vars => AckedCreatesStored'
  BY AckStep
<1> QED BY <1>1, <1>2, InvariantHolds, PTL DEF Spec

-----------------------------------------------------------------------------
(* Only a COMMIT changes the tables.                                        *)
LEMMA OnlyCommitWrites ==
  ASSUME [Next]_vars
  PROVE  UNCHANGED table \/ \E w \in Workers : Commit(w)
BY DEF Next, vars, Receive, Statement, FindContact, FindNewContact, ListActivities, GetRow, LoadRow,
       ListDeals, EnrichDeal, NextId, FlushInsert, FlushUpdate, Abort, Reply, Crash

(* A stored field changes only by a PATCH of its row that supplied it:       *)
(* update_contact and update_deal never write back a value they read.       *)
THEOREM PatchesAreMinimal == Spec => PatchesOnlySupplied
<1> DEFINE Allowed ==
      \A k \in Kinds : \A i \in DOMAIN table[k] : \A f \in DOMAIN table[k][i] :
        table'[k][i][f] # table[k][i][f] =>
          \E w \in Workers : /\ tx[w].req # NoRequest
                             /\ tx[w].req.verb = "update"
                             /\ Kind(w) = k /\ tx[w].req.id = i
                             /\ f \in DOMAIN Input(w)
                             /\ table'[k][i][f] = Stored(k, f, Input(w)[f])
<1>1. IndInv /\ [Next]_vars => [Allowed]_vars
  <2> SUFFICES ASSUME IndInv, [Next]_vars, NEW k \in Kinds, NEW i \in DOMAIN table[k],
                      NEW f \in DOMAIN table[k][i],
                      table'[k][i][f] # table[k][i][f]
               PROVE  \E w \in Workers : /\ tx[w].req # NoRequest
                                         /\ tx[w].req.verb = "update"
                                         /\ Kind(w) = k /\ tx[w].req.id = i
                                         /\ f \in DOMAIN Input(w)
                                         /\ table'[k][i][f] = Stored(k, f, Input(w)[f])
    BY DEF Allowed
  <2>1. PICK w \in Workers : Commit(w)
    BY OnlyCommitWrites
  <2>2. k = Kind(w) /\ i = tx[w].id
    <3>1. /\ \A j \in Kinds \ {Kind(w)} : table'[j] = table[j]
          /\ \A d \in DOMAIN table[Kind(w)] \ {tx[w].id} :
               table'[Kind(w)][d] = table[Kind(w)][d]
      BY <2>1, CommitTables
    <3>2. k = Kind(w)
      BY <3>1
    <3> QED BY <3>1, <3>2
  <2>3. table'[k][i] = Committed(w)
    BY <2>1, <2>2, CommitTables
  <2>4. tx[w].req.verb # "create"
    <3> SUFFICES ASSUME tx[w].req.verb = "create" PROVE FALSE
      OBVIOUS
    <3>1. i = counter[k] + 1
      BY <2>1, <2>2, CommitCreateRow
    <3> QED BY <3>1 DEF IndInv, IdsContiguous, TypeOK
  <2>5. /\ tx[w].req.verb = "update" /\ tx[w].id = tx[w].req.id
        /\ tx[w].dirty \subseteq DOMAIN Input(w)
        /\ Committed(w)[f] = IF f \in tx[w].dirty THEN Stored(k, f, Input(w)[f])
                                                  ELSE table[k][i][f]
    BY <2>1, <2>2, <2>4, CommitUpdateRow
  <2>6. tx[w].req # NoRequest
    BY <2>1, Session, RequestFacts DEF Commit
  <2>7. f \in tx[w].dirty /\ table'[k][i][f] = Stored(k, f, Input(w)[f])
    BY <2>3, <2>5
  <2> QED BY <2>2, <2>5, <2>6, <2>7
<1> QED BY <1>1, InvariantHolds, PTL DEF Spec, PatchesOnlySupplied

-----------------------------------------------------------------------------
(* The catalogue's copies of the pure operators are the store's.            *)
LEMMA SameRules ==
  ASSUME NEW k, NEW in, NEW f, NEW v
  PROVE  /\ Catalog!CreateAccepted(k, in) = CreateAccepted(k, in)
         /\ Catalog!PatchAccepted(k, in) = PatchAccepted(k, in)
         /\ Catalog!NewRow(k, in) = NewRow(k, in)
         /\ Catalog!Stored(k, f, v) = Stored(k, f, v)
BY DEF Catalog!CreateAccepted, CreateAccepted, Catalog!ContactAccepted, ContactAccepted,
       Catalog!DealAccepted, DealAccepted, Catalog!ActivityAccepted, ActivityAccepted,
       Catalog!PatchAccepted, PatchAccepted,
       Catalog!NewRow, NewRow, Catalog!Stored, Stored, Catalog!Mandatory, Mandatory,
       Catalog!IsBlank, IsBlank, Catalog!Given, Given, Catalog!NewStage, NewStage,
       Catalog!NewContact, NewContact, Catalog!NewDeal, NewDeal,
       Catalog!NewActivity, NewActivity, Catalog!ContactFields, ContactFields

(* The store implements the catalogue: a COMMIT is one atomic request, and   *)
(* every other step changes nothing a client can read.                      *)
THEOREM StoreImplementsCatalog == Spec => ImplementsCatalog
<1>1. Init => Catalog!Init
  BY DEF Init, Catalog!Init
<1>2. IndInv /\ [Next]_vars => [Catalog!Next]_table
  <2> SUFFICES ASSUME IndInv, [Next]_vars, table' # table
               PROVE  Catalog!Next
    OBVIOUS
  <2>1. PICK w \in Workers : Commit(w)
    BY OnlyCommitWrites
  <2> DEFINE k == Kind(w)
             r == tx[w].req
  <2>2. r \in Requests /\ k = r.kind /\ k \in Kinds /\ Input(w) = r.input
    BY <2>1, Session, RequestFacts DEF Commit, Kind, Input
  <2>3. table' = Catalog!With(k, tx[w].id, Committed(w))
    BY <2>1 DEF Commit, Catalog!With
  <2>4. CASE r.verb = "create"
    <3>1. /\ tx[w].id = counter[k] + 1 /\ Committed(w) = NewRow(k, r.input)
          /\ CreateAccepted(k, r.input)
          /\ k # "contact" => r.input["contactId"] \in DOMAIN table["contact"]
      BY <2>1, <2>2, <2>4, CommitCreateRow
    <3>2. Catalog!NextNumber(k) = counter[k] + 1
      <4>1. DOMAIN table[k] = 1..counter[k] /\ counter[k] \in Nat
        BY <2>2 DEF IndInv, IdsContiguous, TypeOK
      <4>2. table[k] \in Seq(Rows[k])
        BY <2>2, <4>1, SeqDef DEF IndInv, TypeOK
      <4> QED BY <4>1, <4>2 DEF Catalog!NextNumber
    <3>3. Catalog!Add(r)
      BY <2>2, <2>3, <2>4, <3>1, <3>2, SameRules DEF Catalog!Add, Catalog!Accepts
    <3> QED BY <2>2, <3>3 DEF Catalog!Next
  <2>5. CASE r.verb # "create"
    <3>1. /\ r.verb = "update" /\ tx[w].id = r.id /\ r.id \in DOMAIN table[k]
          /\ PatchAccepted(k, r.input)
          /\ "contactId" \in DOMAIN r.input =>
               r.input["contactId"] \in DOMAIN table["contact"]
          /\ tx[w].dirty \in SUBSET DOMAIN r.input
          /\ DOMAIN Committed(w) = DOMAIN table[k][r.id]
          /\ \A f \in DOMAIN Committed(w) :
               Committed(w)[f] = IF f \in tx[w].dirty
                                   THEN Stored(k, f, r.input[f])
                                   ELSE table[k][r.id][f]
      BY <2>1, <2>2, <2>5, CommitUpdateRow
    <3>2. Committed(w) = [f \in DOMAIN table[k][r.id] |->
                            IF f \in tx[w].dirty THEN Stored(k, f, r.input[f])
                                                  ELSE table[k][r.id][f]]
      <4>1. Committed(w) = [f \in DOMAIN Committed(w) |-> Committed(w)[f]]
        BY <2>5, <3>1 DEF Committed
      <4> QED BY <3>1, <4>1
    <3>3. Catalog!Edit(r)
      <4>1. \A f : Catalog!Stored(k, f, r.input[f]) = Stored(k, f, r.input[f])
        BY SameRules
      <4>2. Committed(w) = [f \in DOMAIN table[k][r.id] |->
                              IF f \in tx[w].dirty THEN Catalog!Stored(k, f, r.input[f])
                                                    ELSE table[k][r.id][f]]
        BY <3>2, <4>1
      <4>3. table' = Catalog!With(k, r.id, Committed(w))
        BY <2>3, <3>1
      <4>4. Catalog!PatchAccepted(k, r.input)
        BY <3>1, SameRules
      <4> QED BY <2>2, <3>1, <4>2, <4>3, <4>4 DEF Catalog!Edit, Catalog!Accepts
    <3> QED BY <2>2, <3>3 DEF Catalog!Next
  <2> QED BY <2>4, <2>5
<1> QED BY <1>1, <1>2, InvariantHolds, PTL DEF Spec, ImplementsCatalog, Catalog!Spec
=============================================================================
