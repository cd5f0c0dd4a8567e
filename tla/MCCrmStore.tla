----------------------------- MODULE MCCrmStore -----------------------------
(***************************************************************************)
(* Small instances of CrmStore for TLC.  Each request set brings one hazard *)
(* into reach; the .cfg files pick one, the workers and the id bound.       *)
(***************************************************************************)
EXTENDS CrmStore, TLC

MCTexts  == {"", " ", "a", " a", "b"}
MCStrip  == [t \in MCTexts |-> CASE t = " " -> "" [] t = " a" -> "a" [] OTHER -> t]
MCStages == {"Lead", "Won"}
MCTypes  == {"call"}
MCFields == {"email"}

Nothing == [f \in {} |-> ""]   \* the input of a read

Create(k, in)     == [verb |-> "create", kind |-> k, id |-> 0, input |-> in]
Update(k, id, in) == [verb |-> "update", kind |-> k, id |-> id, input |-> in]
Get(k, id)        == [verb |-> "get",    kind |-> k, id |-> id, input |-> Nothing]
List(k, id)       == [verb |-> "list",   kind |-> k, id |-> id, input |-> Nothing]

Person(n) == [name |-> n, company |-> "b", email |-> ""]
Deal(c, t) == [contactId |-> c, title |-> t, stage |-> "Lead", value |-> 0,
               expectedClose |-> "none"]

-----------------------------------------------------------------------------
EmptySeed == [k \in Kinds |-> << >>]

OneContact == [EmptySeed EXCEPT !["contact"] = <<Person("a")>>]

(* Creates of every kind, refused ones among them; contact 2 does not exist  *)
(* until one of them has created it.  Partial edits that overlap on the same *)
(* contact and the same deal.                                                *)
StoreRequests ==
  { Create("contact", [name |-> " a", company |-> "b"]),
    Create("deal", [contactId |-> 2, title |-> "a"]),
    Create("deal", [contactId |-> 1, title |-> "a", stage |-> "b"]),
    Create("activity", [contactId |-> 1, type |-> "call", note |-> " a"]),
    Update("contact", 1, [name |-> " a", email |-> " a"]),
    Update("contact", 1, [name |-> "b"]),
    Update("contact", 1, [name |-> " "]),
    Update("deal", 1, [stage |-> "Won"]),
    Update("deal", 1, [contactId |-> 2, title |-> "b"]),
    Update("deal", 1, [contactId |-> 0]),
    Get("deal", 1), List("deal", 0), List("activity", 2) }

(* Everything that waits for a lock.                                         *)
LockingRequests ==
  { Create("contact", [name |-> "a", company |-> "b"]),
    Update("contact", 1, [name |-> "b"]) }

(* Two edits of different fields of one contact.                             *)
TwoPatches == { Update("contact", 1, [name |-> "b"]),
                Update("contact", 1, [email |-> "a"]) }
=============================================================================
