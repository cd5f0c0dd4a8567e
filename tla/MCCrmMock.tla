----------------------------- MODULE MCCrmMock -----------------------------
(* A small instance of CrmMock: two contacts with a deal, and calls that    *)
(* refer to them, to contacts still to be created, and to none.             *)
EXTENDS CrmMock

MCTexts  == {"", " ", "a", " a", "b"}
MCStrip  == [t \in MCTexts |-> CASE t = " " -> "" [] t = " a" -> "a" [] OTHER -> t]

Person(n) == [name |-> n, company |-> "b", email |-> "b"]

MCSeed == [contact  |-> <<Person("a"), Person("b")>>,
           deal     |-> <<[contactId |-> 1, title |-> "a", stage |-> "Lead", value |-> 0,
                           expectedClose |-> "none"]>>,
           activity |-> << >>]

MCSeedTags == <<{"a"}, {"a", "b"}>>

Ask(verb, k, id, in, tags) ==
  [verb |-> verb, kind |-> k, id |-> id, input |-> in, tags |-> tags]

Nothing == [f \in {} |-> ""]

MCRequests ==
  { Ask("create", "contact", 0, [name |-> " a", company |-> "b", email |-> " a"], {" a", ""}),
    Ask("create", "contact", 0, [name |-> " ", company |-> "b"], Absent),
    Ask("create", "contact", 0, [name |-> "b", company |-> Null], Absent),
    Ask("update", "contact", 2, [name |-> " a", email |-> Null], Absent),
    Ask("update", "contact", 1, [company |-> " "], {"b"}),
    Ask("update", "contact", 1, Nothing, {"b"}),
    Ask("update", "contact", 101, [email |-> "a"], Absent),
    Ask("create", "deal", 0, [contactId |-> 101, title |-> " a", stage |-> Null,
                              value |-> 7], Absent),
    Ask("create", "deal", 0, [contactId |-> 1, title |-> "b", stage |-> "b"], Absent),
    Ask("update", "deal", 1, [contactId |-> 101, value |-> Null], Absent),
    Ask("update", "deal", 1, [stage |-> Null], Absent),
    Ask("update", "deal", 102, [stage |-> "Won", expectedClose |-> "d"], Absent),
    Ask("create", "activity", 0, [contactId |-> 2, type |-> "call", note |-> " a"], Absent),
    Ask("list", "contact", 0, Nothing, {" a"}),
    Ask("list", "activity", 1, Nothing, Absent),
    Ask("get", "deal", 102, Nothing, Absent) }

ASSUME MCCallers == PlainCallers
=============================================================================
