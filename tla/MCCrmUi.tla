------------------------------- MODULE MCCrmUi -------------------------------
(* Small instances of CrmUi: two contacts, the first with a deal.           *)
EXTENDS CrmUi

MCStored ==
  [contact  |-> <<[name |-> "Ada"], [name |-> "Bo"]>>,
   deal     |-> <<[contact |-> 1, title |-> "site", stage |-> "Lead", close |-> ""]>>,
   activity |-> << >>]
=============================================================================
