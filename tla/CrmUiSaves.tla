------------------------------ MODULE CrmUiSaves ------------------------------
(***************************************************************************)
(* CrmUi with a memory: every row that the server has stored, at any time.  *)
(* A dialog is filled from what the page shows, and the page may show a row *)
(* as it was, or show another contact than the one that is selected.  The   *)
(* memory tells where the values of a save come from without asking the     *)
(* page.                                                                    *)
(***************************************************************************)
EXTENDS CrmUi

VARIABLE had   \* history: [kind, id, row] of every row stored so far

RowsOf(db) ==
  UNION {{[kind |-> kind, id |-> i, row |-> db[kind][i]] : i \in DOMAIN db[kind]} :
           kind \in {"contact", "deal", "activity"}}

SavesInit == Init /\ had = RowsOf(server)

SavesNext == Next /\ had' = had \cup RowsOf(server')

SavesSpec == SavesInit /\ [][SavesNext]_<<vars, had>>

LiveSavesSpec == SavesSpec /\ Fairness

-----------------------------------------------------------------------------
(* A save of a stored row carries, in the fields that the user did not set, *)
(* what that very row held at some moment: never the values of another row, *)
(* whatever was selected, shown or on its way when the dialog was filled    *)
(* and submitted (openContactForm, openDealDetail, submitForm, drop, and    *)
(* the three setState calls that bring what they copy).                     *)
NoCrossedSave ==
  \A w \in Saves : w.id # None =>
    \E h \in had : /\ h.kind = w.kind /\ h.id = w.id
                   /\ \A f \in DOMAIN w.values \ w.touched : w.values[f] = h.row[f]
=============================================================================
