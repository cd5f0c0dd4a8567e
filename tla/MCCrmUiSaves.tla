----------------------------- MODULE MCCrmUiSaves -----------------------------
(* The small instance of MCCrmUi for CrmUiSaves.                            *)
EXTENDS MCCrmUi, CrmUiSaves
=============================================================================
