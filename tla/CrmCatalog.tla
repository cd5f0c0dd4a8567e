----------------------------- MODULE CrmCatalog -----------------------------
(***************************************************************************)
(* What the CRM API promises about its data, one atomic step per accepted   *)
(* request (backend/app/store.py with openapi.yaml).  Contacts, deals and   *)
(* activities are only ever added or edited; ids of a kind are 1, 2, 3...   *)
(* in the order in which the rows become visible.                           *)
(***************************************************************************)
EXTENDS CrmData, Sequences

CONSTANTS
  Seed,       \* the rows the service starts with
  Requests    \* the requests clients send

VARIABLE table   \* table[k]: the stored rows of kind k, by id

(* The rows of a kind are a sequence; an id is a position in it.            *)
NextNumber(k) == Len(table[k]) + 1

(* The table of kind k with row stored under id.                            *)
With(k, id, row) ==
  [table EXCEPT ![k] = [i \in DOMAIN table[k] \cup {id} |->
                          IF i = id THEN row ELSE table[k][i]]]

Init == table = Seed

(* Which writes are answered with a row, and not with an error: the input   *)
(* is valid, a row that is edited exists, and so does a contact it is given. *)
Accepts(r) ==
  \/ /\ r.verb = "create"
     /\ CreateAccepted(r.kind, r.input)
     /\ r.kind # "contact" => r.input["contactId"] \in DOMAIN table["contact"]
  \/ /\ r.verb = "update"
     /\ r.id \in DOMAIN table[r.kind]
     /\ PatchAccepted(r.kind, r.input)
     /\ "contactId" \in DOMAIN r.input => r.input["contactId"] \in DOMAIN table["contact"]

(* POST: a valid row appears under the next number.                         *)
Add(r) ==
  /\ r.verb = "create" /\ Accepts(r)
  /\ table' = With(r.kind, NextNumber(r.kind), NewRow(r.kind, r.input))

(* PATCH: some of the supplied fields take their supplied values, and no    *)
(* other field changes.  (All of them, unless another request is editing    *)
(* the same row: see CrmStore.)                                             *)
Edit(r) ==
  /\ r.verb = "update" /\ Accepts(r)
  /\ \E F \in SUBSET DOMAIN r.input :
       table' = With(r.kind, r.id,
                     [f \in DOMAIN table[r.kind][r.id] |->
                        IF f \in F THEN Stored(r.kind, f, r.input[f])
                                   ELSE table[r.kind][r.id][f]])

Next == \E r \in Requests : Add(r) \/ Edit(r)

Spec == Init /\ [][Next]_table
=============================================================================
