------------------------------ MODULE CrmStore ------------------------------
(***************************************************************************)
(* backend/app/store.py under concurrency.  Every worker (a request thread  *)
(* of some app instance) runs one store method at a time, in a session of   *)
(* its own (database.session_scope), against one Postgres database at its   *)
(* default isolation level, READ COMMITTED.  One action is one statement    *)
(* sent to the database, with the Python that runs before the next one.     *)
(*                                                                          *)
(* A statement sees what is committed when it runs.  UPDATE locks its row   *)
(* until the transaction ends and writes only the columns it names, so a    *)
(* transaction's writes are kept in tx[w] and applied at its COMMIT.        *)
(*                                                                          *)
(* The primary and foreign keys of db_models.py are left out on purpose:    *)
(* PendingIdsFresh and RefIntegrity below show the code never relies on them.     *)
(***************************************************************************)
EXTENDS CrmData, FiniteSets, Sequences

CONSTANTS
  Workers,     \* request threads of all instances
  Requests,    \* the requests clients send
  Seed,        \* the rows present at the start
  MaxId,       \* bound: creates of a kind stop when its ids reach MaxId
  NoRequest,   \* no request in progress
  NoRow        \* no row loaded

RequestType(r) ==
  /\ r.verb \in {"create", "update", "get", "list"}
  /\ r.kind \in Kinds
  /\ r.id \in Nat
  /\ r = [verb |-> r.verb, kind |-> r.kind, id |-> r.id, input |-> r.input]
  /\ IsInput(r.kind, r.input)
  /\ r.verb \in {"update", "get"} => r.kind # "activity"
  /\ r.verb = "list" => r.kind # "contact"

ASSUME RequestAssumption ==
  /\ \A r \in Requests : RequestType(r)
  /\ NoRequest \notin Requests

(* Seeding goes through create_*, so the ids of each kind are 1..n.         *)
ASSUME SeedAssumption ==
  /\ DOMAIN Seed = Kinds
  /\ Seed = [k \in Kinds |-> Seed[k]]
  /\ \A k \in Kinds : Seed[k] \in Seq(Rows[k])
  /\ \A k \in {"deal", "activity"} : \A i \in DOMAIN Seed[k] :
       Seed[k][i].contactId \in DOMAIN Seed["contact"]
  /\ \A k \in Kinds : \A i \in DOMAIN Seed[k] : \A f \in Mandatory[k] :
       ~ IsBlank(Seed[k][i][f])

ASSUME BoundAssumption == MaxId \in Nat

VARIABLES
  table,     \* table[k]: committed rows of kind k, by id
  counter,   \* counter[k]: committed value of the id_counters row of kind k
  tx         \* tx[w]: the request and transaction worker w is running

vars == <<table, counter, tx>>

(* tx[w].pc names what w does next:                                         *)
(*   idle    nothing                     flush   the INSERT or UPDATE       *)
(*   find    SELECT the named contact    enrich  SELECT a deal's contact    *)
(*   load    SELECT the row(s) asked for commit  COMMIT                     *)
(*   number  UPDATE id_counters          reply   send the response          *)
Steps == {"idle", "find", "load", "number", "flush", "enrich", "commit", "reply"}

NoTx == [pc     |-> "idle",
         req    |-> NoRequest,
         id     |-> 0,           \* id of the row being written
         row    |-> NoRow,       \* the session's copy of that row
         dirty  |-> {},          \* its changed columns
         todo   |-> {},          \* contacts still to SELECT for the reply
         locks  |-> {},          \* rows locked until the transaction ends
         status |-> "none"]      \* of the reply: ok, or 400, 404, 500:
                                \* invalid, missing, error

(* Locks: <<k, id>> is a row of table k, <<k, 0>> the id_counters row of k. *)
CounterLock(k) == <<k, 0>>

Free(l, w) == \A v \in Workers \ {w} : l \notin tx[v].locks

Kind(w)  == tx[w].req.kind
Input(w) == tx[w].req.input

(* Mutant of Refuse: session_scope has no rollback() and no close(), and    *)
(* the connection keeps its transaction open.                               *)
Refuse_NoRollback(w, status) ==
  tx' = [tx EXCEPT ![w].pc = "reply", ![w].status = status,
                   ![w].row = NoRow, ![w].todo = {}]

(* An exception leaves session_scope: ROLLBACK, then an error reply.        *)
Refuse(w, status) ==
  tx' = [tx EXCEPT ![w].pc = "reply", ![w].status = status,
                   ![w].row = NoRow, ![w].todo = {}, ![w].locks = {}]

(* The session is closed with nothing left to write: the reply is ready.    *)
Answer(w) == tx' = [tx EXCEPT ![w].pc = "reply", ![w].status = "ok",
                              ![w].todo = {}, ![w].locks = {}]

Init ==
  /\ table = Seed
  /\ counter = [k \in Kinds |-> Len(Seed[k])]
  /\ tx = [w \in Workers |-> NoTx]

-----------------------------------------------------------------------------
(* A request reaches a worker.                                              *)

Creating(k) == {w \in Workers : /\ tx[w].req # NoRequest
                                /\ tx[w].req.verb = "create"
                                /\ Kind(w) = k}

(* Bound, not code: no create of a kind whose ids may run past MaxId.       *)
Room(k) == counter[k] + Cardinality(Creating(k)) < MaxId

(* The first statement of each store method.                                *)
FirstStatement(r) ==
  IF r.verb = "create" /\ r.kind = "contact"        THEN "number"
  ELSE IF r.verb = "create"                         THEN "find"
  ELSE IF r.verb = "list" /\ r.kind = "activity"    THEN "find"
  ELSE "load"

(* create_* check their input before they open a session; the other methods *)
(* go straight to the database.                                             *)
Receive(w, r) ==
  /\ tx[w].pc = "idle"
  /\ r.verb = "create" => Room(r.kind)
  /\ tx' = IF r.verb = "create" /\ ~ CreateAccepted(r.kind, r.input)
             THEN [tx EXCEPT ![w].req = r, ![w].pc = "reply", ![w].status = "invalid"]
             ELSE [tx EXCEPT ![w].req = r, ![w].pc = FirstStatement(r), ![w].id = r.id]
  /\ UNCHANGED <<table, counter>>

-----------------------------------------------------------------------------
(* Reads.                                                                   *)

Exists(k, id) == id \in DOMAIN table[k]

(* The tail of update_contact and update_deal before the flush: validate,   *)
(* then assign the supplied columns of the loaded row.                      *)
Assign(w, row) ==
  IF PatchAccepted(Kind(w), Input(w))
    THEN LET new == Patched(Kind(w), row, Input(w))
         IN  tx' = [tx EXCEPT ![w].pc = "flush", ![w].row = new,
                              ![w].dirty = Dirty(row, new)]
    ELSE Refuse(w, "invalid")

(* Mutant of FindContact: the contact is not looked up.                     *)
FindContact_Trusting(w) ==
  /\ tx[w].pc = "find" /\ tx[w].req.verb = "create"
  /\ tx' = [tx EXCEPT ![w].pc = "number"]
  /\ UNCHANGED <<table, counter>>

(* session.get(ContactORM, data.contactId) in create_deal and               *)
(* create_activity: a missing contact is a 400.                             *)
FindContact(w) ==
  /\ tx[w].pc = "find" /\ tx[w].req.verb = "create"
  /\ IF Exists("contact", Input(w)["contactId"])
       THEN tx' = [tx EXCEPT ![w].pc = "number"]
       ELSE Refuse(w, "invalid")
  /\ UNCHANGED <<table, counter>>

(* The same in update_deal, for the contact the deal moves to.              *)
FindNewContact(w) ==
  /\ tx[w].pc = "find" /\ tx[w].req.verb = "update"
  /\ IF Exists("contact", Input(w)["contactId"])
       THEN Assign(w, tx[w].row)
       ELSE Refuse(w, "invalid")
  /\ UNCHANGED <<table, counter>>

(* list_activities: a missing contact is a 404; otherwise the activities    *)
(* selected next are the reply.                                             *)
ListActivities(w) ==
  /\ tx[w].pc = "find" /\ tx[w].req.verb = "list"
  /\ IF Exists("contact", tx[w].id) THEN Answer(w) ELSE Refuse(w, "missing")
  /\ UNCHANGED <<table, counter>>

(* get_contact and get_deal: the row by id, or a 404.                       *)
GetRow(w) ==
  /\ tx[w].pc = "load" /\ tx[w].req.verb = "get"
  /\ LET row == table[Kind(w)][tx[w].id] IN
     IF ~ Exists(Kind(w), tx[w].id) THEN Refuse(w, "missing")
     ELSE IF Kind(w) = "contact"
     THEN tx' = [tx EXCEPT ![w].pc = "reply", ![w].status = "ok", ![w].row = row]
     ELSE tx' = [tx EXCEPT ![w].pc = "enrich", ![w].row = row,
                           ![w].todo = {row.contactId}]
  /\ UNCHANGED <<table, counter>>

(* Mutant of LoadRow: update_deal assigns a new contactId unchecked.        *)
LoadRow_NoLookup(w) ==
  /\ tx[w].pc = "load" /\ tx[w].req.verb = "update"
  /\ IF ~ Exists(Kind(w), tx[w].id) THEN Refuse(w, "missing")
     ELSE Assign(w, table[Kind(w)][tx[w].id])
  /\ UNCHANGED <<table, counter>>

(* update_contact and update_deal: the row by id, or a 404; a supplied      *)
(* contactId is looked up before anything is assigned.                      *)
LoadRow(w) ==
  /\ tx[w].pc = "load" /\ tx[w].req.verb = "update"
  /\ LET row == table[Kind(w)][tx[w].id] IN
     IF ~ Exists(Kind(w), tx[w].id)             THEN Refuse(w, "missing")
     ELSE IF "contactId" \notin DOMAIN Input(w) THEN Assign(w, row)
     ELSE IF Input(w)["contactId"] = 0          THEN Refuse(w, "invalid")
     ELSE tx' = [tx EXCEPT ![w].pc = "find", ![w].row = row]
  /\ UNCHANGED <<table, counter>>

(* list_deals: one SELECT of the deals that the filters let through, then   *)
(* one per contact of theirs (the session has the rows it has read before). *)
ListDeals(w) ==
  /\ tx[w].pc = "load" /\ tx[w].req.verb = "list"
  /\ \E found \in SUBSET DOMAIN table["deal"] :
       LET owners == {table["deal"][d].contactId : d \in found}
       IN  IF owners = {} THEN Answer(w)
           ELSE tx' = [tx EXCEPT ![w].pc = "enrich", ![w].todo = owners]
  /\ UNCHANGED <<table, counter>>

(* _enrich_deal: SELECT a contact whose name and company the reply shows.   *)
(* After the last one a read is done; an update has still to commit.        *)
EnrichDeal(w) ==
  /\ tx[w].pc = "enrich"
  /\ \E c \in tx[w].todo :
       IF tx[w].todo # {c} THEN tx' = [tx EXCEPT ![w].todo = @ \ {c}]
       ELSE IF tx[w].req.verb = "update"
       THEN tx' = [tx EXCEPT ![w].todo = {}, ![w].pc = "commit"]
       ELSE Answer(w)
  /\ UNCHANGED <<table, counter>>

-----------------------------------------------------------------------------
(* Writes.                                                                  *)

(* Mutant of NextId: SELECT max(id) + 1, with no lock.                      *)
NextId_NoLock(w) ==
  /\ tx[w].pc = "number"
  /\ tx' = [tx EXCEPT ![w].pc  = "flush",
                      ![w].id  = counter[Kind(w)] + 1,
                      ![w].row = NewRow(Kind(w), Input(w))]
  /\ UNCHANGED <<table, counter>>

(* Mutant of NextId: the number is taken in a transaction of its own, as    *)
(* from a database sequence.                                                *)
NextId_OwnTransaction(w) ==
  /\ tx[w].pc = "number"
  /\ tx' = [tx EXCEPT ![w].pc  = "flush",
                      ![w].id  = counter[Kind(w)] + 1,
                      ![w].row = NewRow(Kind(w), Input(w))]
  /\ counter' = [counter EXCEPT ![Kind(w)] = @ + 1]
  /\ UNCHANGED table

(* _next_id: UPDATE id_counters ... RETURNING value.  It waits for the row, *)
(* and the new value is visible to others only after COMMIT.                *)
NextId(w) ==
  /\ tx[w].pc = "number"
  /\ Free(CounterLock(Kind(w)), w)
  /\ tx' = [tx EXCEPT ![w].pc    = "flush",
                      ![w].id    = counter[Kind(w)] + 1,
                      ![w].row   = NewRow(Kind(w), Input(w)),
                      ![w].locks = {CounterLock(Kind(w))}]
  /\ UNCHANGED <<table, counter>>

(* Mutant of FlushInsert: the method returns without a COMMIT.              *)
FlushInsert_NoCommit(w) ==
  /\ tx[w].pc = "flush" /\ tx[w].req.verb = "create"
  /\ Answer(w)
  /\ UNCHANGED <<table, counter>>

(* session.flush() in create_*: the INSERT.  create_deal enriches its reply *)
(* with the contact it already holds.                                       *)
FlushInsert(w) ==
  /\ tx[w].pc = "flush" /\ tx[w].req.verb = "create"
  /\ tx' = [tx EXCEPT ![w].pc = "commit"]
  /\ UNCHANGED <<table, counter>>

(* session.flush() in update_*: an UPDATE of the dirty columns, which waits *)
(* for the row; no statement at all when no column is dirty.  update_deal   *)
(* then enriches its reply.                                                 *)
FlushUpdate(w) ==
  /\ tx[w].pc = "flush" /\ tx[w].req.verb = "update"
  /\ tx[w].dirty # {} => Free(<<Kind(w), tx[w].id>>, w)
  /\ tx' = [tx EXCEPT
        ![w].locks = IF tx[w].dirty = {} THEN {} ELSE {<<Kind(w), tx[w].id>>},
        ![w].pc    = IF Kind(w) = "deal" THEN "enrich" ELSE "commit",
        ![w].todo  = IF Kind(w) = "deal" THEN {tx[w].row.contactId} ELSE {}]
  /\ UNCHANGED <<table, counter>>

(* What COMMIT leaves under the id: the inserted row, or the stored row     *)
(* with the columns the UPDATE named.                                       *)
Committed(w) ==
  IF tx[w].req.verb = "create" THEN tx[w].row
  ELSE [f \in DOMAIN tx[w].row |->
          IF f \in tx[w].dirty THEN tx[w].row[f] ELSE table[Kind(w)][tx[w].id][f]]

Commit(w) ==
  /\ tx[w].pc = "commit"
  /\ table' = [table EXCEPT ![Kind(w)] =
                 [i \in DOMAIN table[Kind(w)] \cup {tx[w].id} |->
                    IF i = tx[w].id THEN Committed(w) ELSE table[Kind(w)][i]]]
  /\ counter' = IF tx[w].req.verb = "create"
                  THEN [counter EXCEPT ![Kind(w)] = tx[w].id] ELSE counter
  /\ Answer(w)

-----------------------------------------------------------------------------
(* How a request ends.                                                      *)

(* Any statement may raise (the database is gone, a COMMIT is refused, no   *)
(* id counter): a 500 that no handler of main.py turns into an answer.      *)
Abort(w) ==
  /\ tx[w].pc \notin {"idle", "reply"}
  /\ Refuse(w, "error")
  /\ UNCHANGED <<table, counter>>

(* The response is sent.  The session ended before: no lock is released.    *)
Reply(w) ==
  /\ tx[w].pc = "reply"
  /\ tx' = [tx EXCEPT ![w] = [NoTx EXCEPT !.locks = tx[w].locks]]
  /\ UNCHANGED <<table, counter>>

(* The instance dies, and Postgres rolls back what it had not committed.    *)
Crash(w) ==
  /\ tx[w].pc # "idle"
  /\ tx' = [tx EXCEPT ![w] = NoTx]
  /\ UNCHANGED <<table, counter>>

Statement(w) ==
  \/ FindContact(w) \/ FindNewContact(w) \/ ListActivities(w)
  \/ GetRow(w) \/ LoadRow(w) \/ ListDeals(w) \/ EnrichDeal(w)
  \/ NextId(w) \/ FlushInsert(w) \/ FlushUpdate(w) \/ Commit(w) \/ Reply(w)

Next == \E w \in Workers :
          \/ \E r \in Requests : Receive(w, r)
          \/ Statement(w)
          \/ Abort(w)
          \/ Crash(w)

Spec == Init /\ [][Next]_vars

(* Every thread keeps running its method; Postgres queues the transactions  *)
(* that wait for a row lock and serves each in turn, hence SF on the two    *)
(* steps that wait.  Nothing makes a client send a request.                 *)
Fairness ==
  \A w \in Workers : /\ WF_vars(Statement(w))
                     /\ SF_vars(NextId(w))
                     /\ SF_vars(FlushUpdate(w))

LiveSpec == Spec /\ Fairness

-----------------------------------------------------------------------------
(* Type invariant.                                                          *)
RowTypes   == ContactRows \cup DealRows \cup ActivityRows
FieldNames == ContactFields \cup DealFields \cup ActivityFields

TxType == [pc     : Steps,
           req    : {NoRequest} \cup Requests,
           id     : Nat,
           row    : {NoRow} \cup RowTypes,
           dirty  : SUBSET FieldNames,
           todo   : SUBSET Nat,
           locks  : SUBSET (Kinds \X Nat),
           status : {"none", "ok", "invalid", "missing", "error"}]

(* Every committed row has the columns and the types of its table, and every *)
(* session is in a state the code can leave it in (db_models.py).            *)
TypeOK ==
  /\ counter \in [Kinds -> Nat]
  /\ tx \in [Workers -> TxType]
  /\ DOMAIN table = Kinds
  /\ \A k \in Kinds : table[k] \in [DOMAIN table[k] -> Rows[k]] /\ DOMAIN table[k] \subseteq Nat

-----------------------------------------------------------------------------
(* Safety.                                                                  *)

Inserting(w) == /\ tx[w].req # NoRequest
                /\ tx[w].req.verb = "create"
                /\ tx[w].pc \in {"flush", "commit"}

(* The ids of a kind are exactly 1..n, where n is the value of its counter:  *)
(* no number is used twice, and none is lost to a create that was refused,   *)
(* rolled back or died half-way (_next_id runs in the row's transaction).    *)
IdsContiguous == \A k \in Kinds : DOMAIN table[k] = 1..counter[k]

(* No INSERT can meet a primary key that is taken: the number a create holds *)
(* belongs to no stored row and to no other create under way (_next_id keeps *)
(* the counter's row locked until the transaction ends).                     *)
PendingIdsFresh ==
  \A w \in Workers : Inserting(w) =>
    /\ tx[w].id \notin DOMAIN table[Kind(w)]
    /\ \A v \in Workers \ {w} :
         Inserting(v) /\ Kind(v) = Kind(w) => tx[v].id # tx[w].id

(* A create answered 201 is in the database under the id it was answered     *)
(* with, and no two such answers carry the same id (session_scope commits    *)
(* before the method returns).                                               *)
AckedCreate(w) == /\ tx[w].pc = "reply" /\ tx[w].status = "ok"
                  /\ tx[w].req.verb = "create"

AckedCreatesStored ==
  \A w \in Workers : AckedCreate(w) =>
    /\ tx[w].id \in DOMAIN table[Kind(w)]
    /\ Kind(w) = "activity" => table["activity"][tx[w].id] = tx[w].row
    /\ \A v \in Workers \ {w} :
         AckedCreate(v) /\ Kind(v) = Kind(w) => tx[v].id # tx[w].id

(* Every stored deal and activity belongs to a stored contact, whatever was  *)
(* committed between the check of its contactId and its own commit, and      *)
(* without the help of a foreign key (SQLite enforces none here).            *)
RefIntegrity ==
  \A k \in {"deal", "activity"} : \A i \in DOMAIN table[k] :
    table[k][i].contactId \in DOMAIN table["contact"]

(* No stored contact has a blank name or company, no deal a blank title, no  *)
(* activity a blank note (the input checks of creates and updates),          *)
(* however creates and partial edits interleave.                             *)
MandatoryFilled ==
  \A k \in Kinds : \A i \in DOMAIN table[k] : \A f \in Mandatory[k] :
    ~ IsBlank(table[k][i][f])

(* _enrich_deal always finds the contact it looks up, so no deal is answered *)
(* with a null contactName, although the contact is read by a later          *)
(* statement than the deal.                                                  *)
EnrichFindsContact ==
  \A w \in Workers : tx[w].todo \subseteq DOMAIN table["contact"]

(* A stored field changes only by a PATCH of that very row that supplied     *)
(* that field, and takes the supplied value: an edit never writes back a     *)
(* value it loaded before somebody else changed it, and a stage move, or any *)
(* create, leaves every other field of every row alone.                      *)
PatchesOnlySupplied ==
  [][\A k \in Kinds : \A i \in DOMAIN table[k] : \A f \in DOMAIN table[k][i] :
       table'[k][i][f] # table[k][i][f] =>
         \E w \in Workers : /\ tx[w].req # NoRequest
                            /\ tx[w].req.verb = "update"
                            /\ Kind(w) = k /\ tx[w].req.id = i
                            /\ f \in DOMAIN Input(w)
                            /\ table'[k][i][f] = Stored(k, f, Input(w)[f])]_vars

-----------------------------------------------------------------------------
(* Why the invariants above hold: what a session can rely on at each step,   *)
(* and that no two transactions hold the same row.                           *)

ContactGiven(t) == t.req.input["contactId"] \in DOMAIN table["contact"]

SessionOK(t) ==
  /\ t.pc = "idle" => t = NoTx
  /\ t.pc # "idle" => t.req \in Requests
  /\ t.pc \in {"find", "load", "number", "reply"} => t.locks = {} /\ t.todo = {}
  /\ t.pc = "number" => t.req.verb = "create"
  /\ t.pc \in {"flush", "commit"} => t.req.verb \in {"create", "update"}
  /\ t.pc = "load" => t.id = t.req.id
  /\ t.pc = "enrich" => t.req.verb # "create"
  /\ t.todo \subseteq DOMAIN table["contact"]
  /\ t.pc \in {"find", "number", "flush", "commit"} /\ t.req.verb = "create" =>
       CreateAccepted(t.req.kind, t.req.input)
  /\ t.pc \in {"number", "flush", "commit"} /\ t.req.verb = "create" =>
       (t.req.kind # "contact" => ContactGiven(t))
  /\ t.pc = "find" /\ t.req.verb = "create" => t.req.kind # "contact"
  /\ t.pc \in {"flush", "commit"} /\ t.req.verb = "create" =>
       /\ t.locks = {CounterLock(t.req.kind)} /\ t.todo = {}
       /\ t.id = counter[t.req.kind] + 1
       /\ t.row = NewRow(t.req.kind, t.req.input)
  /\ t.pc \in {"find", "flush", "enrich", "commit"} /\ t.req.verb = "update" =>
       /\ t.id = t.req.id /\ t.id \in DOMAIN table[t.req.kind]
       /\ WellFormed(t.req.kind, t.row)
  /\ t.pc = "find" /\ t.req.verb = "update" =>
       t.req.kind = "deal" /\ "contactId" \in DOMAIN t.req.input
  /\ t.pc \in {"flush", "enrich", "commit"} /\ t.req.verb = "update" =>
       /\ PatchAccepted(t.req.kind, t.req.input)
       /\ "contactId" \in DOMAIN t.req.input => ContactGiven(t)
       /\ t.req.kind = "deal" => t.row.contactId \in DOMAIN table["contact"]
       /\ t.locks \subseteq {<<t.req.kind, t.id>>}
       /\ \A f \in t.dirty : /\ f \in DOMAIN t.req.input
                             /\ t.row[f] = Stored(t.req.kind, f, t.req.input[f])

LocksExclusive ==
  \A w \in Workers : \A v \in Workers \ {w} : tx[v].locks \cap tx[w].locks = {}

(* The inductive invariant: the committed data are sound, every session is   *)
(* where its method can be, and row locks exclude each other (_next_id's     *)
(* UPDATE, session.flush and the COMMIT that ends them).                     *)
IndInv ==
  /\ TypeOK
  /\ IdsContiguous /\ RefIntegrity /\ MandatoryFilled
  /\ \A w \in Workers : SessionOK(tx[w])
  /\ LocksExclusive

(* The store implements the one-step-per-request catalogue.                  *)
Catalog == INSTANCE CrmCatalog
             WITH table <- table, Seed <- Seed, Requests <- Requests

ImplementsCatalog == Catalog!Spec

(* Every request that reaches a worker is answered, unless its instance dies *)
(* first: nothing waits for a lock forever, whatever other transactions      *)
(* failed while they held it (session_scope).                                *)
EveryRequestEnds ==
  \A w \in Workers : tx[w].pc # "idle" ~> tx[w].pc = "idle"

(* openapi.yaml promises "The updated contact" (or deal) as the answer to a  *)
(* PATCH.  The code answers with the session's copy, which another edit of   *)
(* the same row may have overtaken: expected to FAIL.                        *)
PatchReplyIsStoredRow ==
  [][\A w \in Workers :
       tx[w].pc = "commit" /\ tx'[w].pc = "reply" /\ tx[w].req.verb = "update"
         => table'[Kind(w)][tx[w].id] = tx'[w].row]_vars
=============================================================================
