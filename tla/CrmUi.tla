-------------------------------- MODULE CrmUi --------------------------------
(***************************************************************************)
(* The single-page UI (Component in "Simple CRM.dc.html") against answers   *)
(* that come late, out of order, or never.  ui is this.state.  Every async  *)
(* method that runs is a task: the step it awaits and the steps after it.   *)
(* One action is one turn of the event loop, or one request carried out by  *)
(* the server, which is a step of its own (CrmStore).                       *)
(*                                                                          *)
(* There is one page and no other user.  The forms have the fields that     *)
(* the properties tell apart: name for a contact; title, stage and close,   *)
(* the expected close date, for a deal (value is the other field of a new   *)
(* deal that the API refuses while it is empty, and is left out).  Tag      *)
(* filters refresh the list exactly as the search box does, and listTags    *)
(* runs next to listContacts: both are left out.  So is the view: a tab can *)
(* be clicked whenever no dialog covers it.                                 *)
(***************************************************************************)
EXTENDS Naturals, Sequences, FiniteSets

CONSTANTS
  Names, Titles,           \* what a user may type; "" is blank
  Dates,                   \* as a close date, too
  Stages, Notes,           \* and choose
  FirstStage,              \* STAGES[0]
  Searches,                \* what a user may search for; "" finds all
  Stored,                  \* the server's rows when the page opens
  Patient,                 \* the user waits until the page is quiet
  MayLose,                 \* requests and answers may be lost
  MaxTasks                 \* bound: async methods that the user starts

Blank == ""   \* an empty field

ASSUME UiAssumption ==
  /\ Blank \in Searches /\ FirstStage \in Stages
  /\ {Blank} \cup Names \cup Titles \cup Dates \cup Stages \cup Notes \subseteq STRING
  /\ Patient \in BOOLEAN /\ MayLose \in BOOLEAN /\ MaxTasks \in Nat
  /\ Stored \in [contact  : Seq([name : STRING]),
                 deal     : Seq([contact : Nat, title : STRING, stage : STRING, close : STRING]),
                 activity : Seq([contact : Nat, note : STRING])]
  /\ \A kind \in {"deal", "activity"} : \A i \in DOMAIN Stored[kind] :
       Stored[kind][i].contact \in DOMAIN Stored.contact

VARIABLES
  server,   \* server[kind]: the stored rows; an id is an index
  ui,       \* this.state
  tasks,    \* the async methods called so far, those at their end included
  lost      \* history: a request or an answer was lost

vars == <<server, ui, tasks, lost>>

None == 0   \* null, for ids and dialogs

(* Object.assign({}, f, g)                                                  *)
Spread(f, g) ==
  [x \in DOMAIN f \cup DOMAIN g |-> IF x \in DOMAIN g THEN g[x] ELSE f[x]]

-----------------------------------------------------------------------------
(* The server.  A write is [kind, id, values]: a create when id is None, a  *)
(* partial update otherwise.  touched is history: the fields that the user  *)
(* set, where the others were filled in by the page.                        *)

Write(kind, id, values, touched) ==
  [do |-> "write", kind |-> kind, id |-> id, values |-> values, touched |-> touched]

(* 400 for a blank text, 422 for a close date that is "", and not null.     *)
Accepted(w) ==
  /\ \A f \in DOMAIN w.values \cap {"name", "title", "note", "close"} : w.values[f] # Blank
  /\ "contact" \in DOMAIN w.values => w.values.contact \in DOMAIN server.contact

(* A create appends a row; an update keeps the columns it is not given.     *)
Carried(w) ==
  LET rows == server[w.kind]
  IN  [server EXCEPT ![w.kind] =
         IF w.id = None THEN Append(rows, w.values)
         ELSE [rows EXCEPT ![w.id] = Spread(rows[w.id], w.values)]]

DealRows(db, ids) ==
  [d \in ids |-> Spread(db.deal[d], [contactName |-> db.contact[db.deal[d].contact].name])]

OfContact(db, kind, c) == {i \in DOMAIN db[kind] : db[kind][i].contact = c}

Found(db, search) ==
  {c \in DOMAIN db.contact : search \in {Blank, db.contact[c].name}}

(* What a server with the rows db answers to the request behind one field   *)
(* of the page.                                                             *)
Answer(db, field, s) ==
  CASE field = "contacts"     -> [c \in Found(db, s.search) |-> db.contact[c]]
    [] field = "contact"      -> Spread(db.contact[s.id], [id |-> s.id])
    [] field = "activities"   -> [of |-> s.id, rows |-> OfContact(db, "activity", s.id)]
    [] field = "contactDeals" ->
         [of |-> s.id, rows |-> DealRows(db, OfContact(db, "deal", s.id))]
    [] field = "allDeals"     -> DealRows(db, DOMAIN db.deal)
    [] OTHER                  -> TRUE   \* a module

-----------------------------------------------------------------------------
(* Steps of the async methods.                                              *)

Import(module)               == [do |-> "import", module |-> module]
RefreshContacts(selectFirst) == [do |-> "contacts", first |-> selectFirst]
RefreshDeals                 == [do |-> "deals"]
Select(c)                    == [do |-> "select", id |-> c]
(* reloadSelected(), when of is None or the contact selected by then.       *)
ReloadSelected(of)           == [do |-> "reload", of |-> of]

(* Mutant of Fields: the three parts of a contact are not awaited together.  *)
Fields_DetailOnly(s) ==
  CASE s.do = "contacts" -> {"contacts"}
    [] s.do = "deals"    -> {"allDeals"}
    [] s.do = "select"   -> {"contact"}
    [] s.do = "write"    -> {"saved"}
    [] s.do = "import"   -> {s.module}
    [] s.do = "none"     -> {}

(* The fields whose requests a step awaits, all at once (Promise.all).      *)
Fields(s) ==
  CASE s.do = "contacts" -> {"contacts"}
    [] s.do = "deals"    -> {"allDeals"}
    [] s.do = "select"   -> {"contact", "activities", "contactDeals"}
    [] s.do = "write"    -> {"saved"}
    [] s.do = "import"   -> {s.module}
    [] s.do = "none"     -> {}

Skipped(u, s) ==
  s.do = "reload" /\ (u.selectedId = None \/ s.of \notin {None, u.selectedId})

(* The step as it begins: a refresh reads the search box, a reload the      *)
(* selection.                                                               *)
Begun(u, s) ==
  CASE s.do = "contacts" -> Spread(s, [search |-> u.search])
    [] s.do = "reload"   -> Select(u.selectedId)
    [] OTHER             -> s

(* What the step sets before it first awaits: select() clears the composer. *)
Clicked(u, s) ==
  IF s.do \in {"select", "reload"}
  THEN [u EXCEPT !.selectedId = Begun(u, s).id, !.actNote = Blank, !.actError = Blank]
  ELSE u

Ended == [step |-> [do |-> "none"], then |-> << >>, got |-> << >>, catch |-> "none"]

(* A method that goes on with the steps todo, and the page as it does.  A    *)
(* reload is always the last step: skipping it ends the method.             *)
Over(u, todo) == todo = << >> \/ Skipped(u, Head(todo))

Continued(u, todo, catch) ==
  IF Over(u, todo) THEN Ended
  ELSE [step |-> Begun(u, Head(todo)), then |-> Tail(todo), got |-> << >>, catch |-> catch]

Page(u, todo) == IF Over(u, todo) THEN u ELSE Clicked(u, Head(todo))

Running(t) == tasks[t].step.do # "none"
Quiet      == \A t \in DOMAIN tasks : ~Running(t)

NoForm    == [kind |-> "none"]
FormOpen  == ui.form # NoForm

(* componentDidMount: both modules, then both lists, the contacts first.    *)
Mount == <<Import("api"), Import("tests"), RefreshContacts(TRUE), RefreshDeals>>

(* ui.api is not in this.state: this.api is set by the first import.        *)
NewPage ==
  [api |-> FALSE, search |-> Blank, contacts |-> << >>, allDeals |-> << >>,
   selectedId |-> None, contact |-> [id |-> None],
   activities |-> [of |-> None, rows |-> {}], contactDeals |-> [of |-> None, rows |-> << >>],
   actNote |-> Blank, actError |-> Blank, form |-> NoForm, formError |-> Blank, dragging |-> None]

Init ==
  /\ server = Stored
  /\ ui = Page(NewPage, Mount)
  /\ tasks = <<Continued(NewPage, Mount, "none")>>
  /\ lost = FALSE

-----------------------------------------------------------------------------
(* What the user does.                                                      *)

MayAct   == Patient => Quiet
(* The backdrop of an open dialog covers the rest of the page.              *)
AtPage   == MayAct /\ ~FormOpen
AtDialog == MayAct /\ FormOpen

(* Mutant of Caught: the dialog does not tell why it stays open.            *)
Caught_Silent(u, catch) ==
  IF catch = "act" THEN [u EXCEPT !.actError = "error"] ELSE u

(* The catch of a method; drop(), search and select() have none.            *)
Caught(u, catch) ==
  CASE catch = "form" -> [u EXCEPT !.formError = "error"]
    [] catch = "act"  -> [u EXCEPT !.actError = "error"]
    [] OTHER          -> u

(* The user's step calls an async method; one slot is for the mount and one *)
(* for its select().  Before this.api is there, the method throws as it     *)
(* asks for something.                                                      *)
Calls(u, todo, catch) ==
  /\ Len(tasks) < MaxTasks + 2
  /\ ui' = IF u.api THEN Page(u, todo) ELSE Caught(Page(u, todo), catch)
  /\ tasks' = Append(tasks, IF u.api THEN Continued(u, todo, catch) ELSE Ended)
  /\ UNCHANGED <<server, lost>>

Sets(u) == ui' = u /\ UNCHANGED <<server, tasks, lost>>

(* A contact of the list, or the contact of a deal on the board.            *)
SelectContact(c) ==
  /\ AtPage
  /\ c \in DOMAIN ui.contacts \cup {ui.allDeals[d].contact : d \in DOMAIN ui.allDeals}
  /\ Calls(ui, <<Select(c)>>, "none")

OnSearch(text) ==
  /\ AtPage /\ text # ui.search
  /\ Calls([ui EXCEPT !.search = text], <<RefreshContacts(FALSE)>>, "none")

TypeNote(text) ==
  /\ AtPage /\ ui.contact.id # None /\ ui.actNote # text
  /\ Sets([ui EXCEPT !.actNote = text])

LogActivity ==
  /\ AtPage /\ ui.contact.id # None
  /\ Calls(ui, <<Write("activity", None, [contact |-> ui.selectedId, note |-> ui.actNote],
                       {"note"}),
                 ReloadSelected(None)>>, "act")

Dialog(kind, id, contact, values) ==
  [kind |-> kind, id |-> id, dealContact |-> contact, values |-> values, touched |-> {}]

Opened(form) == [ui EXCEPT !.form = form, !.formError = Blank]

NewContact == AtPage /\ Sets(Opened(Dialog("contact", None, None, [name |-> Blank])))

(* Mutant of EditContact: the selected contact is edited, with the values   *)
(* of the contact shown.                                                    *)
EditContact_Selected ==
  /\ AtPage /\ ui.contact.id # None
  /\ Sets(Opened(Dialog("contact", ui.selectedId, None, [name |-> ui.contact.name])))

EditContact ==
  /\ AtPage /\ ui.contact.id # None
  /\ Sets(Opened(Dialog("contact", ui.contact.id, None, [name |-> ui.contact.name])))

OpenDealForm ==
  /\ AtPage /\ ui.contact.id # None
  /\ Sets(Opened(Dialog("deal", None, None, [title |-> Blank, stage |-> FirstStage, close |-> Blank])))

(* A deal of the board or of the contact, with the values shown there.      *)
OpenDealDetail(deals, d) ==
  /\ AtPage /\ d \in DOMAIN deals
  /\ Sets(Opened(Dialog("deal", d, deals[d].contact,
                        [title |-> deals[d].title, stage |-> deals[d].stage,
                         close |-> deals[d].close])))

Choices(field) == CASE field = "name"  -> Names
                    [] field = "title" -> Titles
                    [] field = "stage" -> Stages
                    [] field = "close" -> Dates

OnFieldChange(field, text) ==
  /\ AtDialog /\ field \in DOMAIN ui.form.values /\ ui.form.values[field] # text
  /\ Sets([ui EXCEPT !.form.values[field] = text,
                     !.form.touched = @ \cup {field}])

Closed(u) == [u EXCEPT !.form = NoForm, !.formError = Blank]

CloseForm == AtDialog /\ Sets(Closed(ui))

GoFormContact ==
  /\ AtDialog /\ ui.form.dealContact # None
  /\ Calls(Closed(ui), <<Select(ui.form.dealContact)>>, "none")

(* The contact of a new deal is the one selected when it is submitted; an   *)
(* update does not send the contact.                                        *)
FormWrite ==
  LET f == ui.form
  IN  Write(f.kind, f.id,
            IF f.kind = "deal" /\ f.id = None
            THEN Spread(f.values, [contact |-> ui.selectedId]) ELSE f.values,
            f.touched)

(* Mutant of AfterSave: the board keeps the old names of a contact.         *)
AfterSave_ContactsOnly(f) ==
  IF f.kind = "contact" THEN <<RefreshContacts(FALSE), Select(f.id)>>
  ELSE <<RefreshDeals, ReloadSelected(f.dealContact)>>

(* What submitForm() does once the save is answered; the id of a new        *)
(* contact is in that answer.                                               *)
AfterSave(f) ==
  IF f.kind = "contact" THEN <<RefreshContacts(FALSE), Select(f.id), RefreshDeals>>
  ELSE <<RefreshDeals, ReloadSelected(f.dealContact)>>

(* The dialog stays open while the save is under way, and may be submitted  *)
(* again.                                                                   *)
SubmitForm == AtDialog /\ Calls(ui, <<FormWrite>> \o AfterSave(ui.form), "form")

DragStart(d) ==
  /\ AtPage /\ d \in DOMAIN ui.allDeals
  /\ Sets([ui EXCEPT !.dragging = d])

DragEnd == MayAct /\ ui.dragging # None /\ Sets([ui EXCEPT !.dragging = None])

(* Mutant of AfterMove: the board shows the move only on the next visit.    *)
AfterMove_NoRefresh == <<ReloadSelected(None)>>

AfterMove == <<RefreshDeals, ReloadSelected(None)>>

Drop(stage) ==
  /\ AtPage /\ ui.dragging # None
  /\ Calls([ui EXCEPT !.dragging = None],
           <<Write("deal", ui.dragging, [stage |-> stage], {"stage"})>> \o AfterMove,
           "none")

User ==
  \/ \E c \in DOMAIN server.contact : SelectContact(c)
  \/ \E text \in Searches : OnSearch(text)
  \/ \E text \in Notes : TypeNote(text)
  \/ LogActivity
  \/ NewContact \/ EditContact
  \/ OpenDealForm
  \/ \E stage \in Stages : Drop(stage)
  \/ \E d \in DOMAIN server.deal :
       \/ OpenDealDetail(ui.allDeals, d) \/ OpenDealDetail(ui.contactDeals.rows, d)
       \/ DragStart(d)
  \/ \E field \in {"name", "title", "stage", "close"} : \E text \in Choices(field) :
       OnFieldChange(field, text)
  \/ CloseForm \/ GoFormContact \/ SubmitForm \/ DragEnd

-----------------------------------------------------------------------------
(* What the server and the event loop do.                                   *)

(* A request of task t is carried out; its answer is on its way.            *)
Serve(t, field) ==
  LET s == tasks[t].step
      ok == s.do = "write" /\ Accepted(s)
      answer == IF s.do # "write" THEN Answer(server, field, s)
                ELSE [ok |-> ok, id |-> IF s.id = None THEN Len(server[s.kind]) + 1 ELSE s.id]
  IN  /\ Running(t) /\ field \in Fields(s) \ DOMAIN tasks[t].got
      /\ server' = IF ok THEN Carried(s) ELSE server
      /\ tasks' = [tasks EXCEPT ![t].got = Spread(@, [f \in {field} |-> answer])]
      /\ UNCHANGED <<ui, lost>>

Answered(t) == Running(t) /\ DOMAIN tasks[t].got = Fields(tasks[t].step)

(* The page after a write is answered; drop(), which sends the stage alone,  *)
(* sets nothing.                                                            *)
Saved(u, s) ==
  CASE s.kind = "activity" -> [u EXCEPT !.actNote = Blank, !.actError = Blank]
    [] DOMAIN s.values = {"stage"} -> u
    [] OTHER -> Closed(u)

(* The page after any step is answered, before the next one begins.         *)
Shown(u, t) ==
  LET s == tasks[t].step
      got == tasks[t].got
  IN  IF s.do = "write" THEN Saved(u, s)
      ELSE [f \in DOMAIN u |-> IF f \in DOMAIN got THEN got[f] ELSE u[f]]

(* The steps left; a new contact is selected by the id in the answer.       *)
Left(t) ==
  LET got == tasks[t].got
  IN  [i \in DOMAIN tasks[t].then |->
         IF tasks[t].then[i] = Select(None) THEN Select(got.saved.id) ELSE tasks[t].then[i]]

GoesOn(t) ==
  /\ ui' = Page(Shown(ui, t), Left(t))
  /\ tasks' = [tasks EXCEPT ![t] = Continued(Shown(ui, t), Left(t), @.catch)]
  /\ UNCHANGED <<server, lost>>

(* Mutant of SelectsFirst: the list selects its first contact even when the *)
(* user has selected one meanwhile.                                         *)
SelectsFirst_Always(t) ==
  /\ tasks[t].step.do = "contacts" /\ tasks[t].step.first
  /\ DOMAIN tasks[t].got.contacts # {}

(* The first list of a page selects a contact, if none is selected yet.     *)
SelectsFirst(t) ==
  /\ tasks[t].step.do = "contacts" /\ tasks[t].step.first
  /\ ui.selectedId = None
  /\ DOMAIN tasks[t].got.contacts # {}

(* Mutant of CarriedOut: request() does not look at response.ok.            *)
CarriedOut_AnyStatus(t) == TRUE

(* An answered write was carried out.                                       *)
CarriedOut(t) == tasks[t].step.do = "write" => tasks[t].got.saved.ok

(* The await is over: setState, then on to the next step.  Which contact is *)
(* first by name is left open; its select() is not awaited.                 *)
Resume(t) ==
  /\ Answered(t)
  /\ CarriedOut(t)
  /\ IF SelectsFirst(t)
     THEN \E c \in DOMAIN tasks[t].got.contacts :
            LET u == Clicked(Shown(ui, t), Select(c))
            IN  /\ ui' = Page(u, Left(t))
                /\ tasks' = Append([tasks EXCEPT ![t] = Continued(u, Left(t), @.catch)],
                                   Continued(u, <<Select(c)>>, "none"))
                /\ UNCHANGED <<server, lost>>
     ELSE GoesOn(t)

Throws(t) ==
  /\ ui' = Caught(ui, tasks[t].catch)
  /\ tasks' = [tasks EXCEPT ![t] = Ended]
  /\ UNCHANGED server

(* The server refused the write.                                            *)
Refused(t) ==
  /\ Answered(t) /\ ~CarriedOut(t)
  /\ Throws(t) /\ UNCHANGED lost

(* A request or its answer is lost: fetch rejects.  A request that has not   *)
(* been carried out by then never is.                                       *)
Lose(t) == MayLose /\ Running(t) /\ Throws(t) /\ lost' = TRUE

Network(t) == (\E field \in Fields(tasks[t].step) : Serve(t, field)) \/ Resume(t) \/ Refused(t)

(* The page may rest: the user does not have to go on.                      *)
Rest == Quiet /\ UNCHANGED vars

Next ==
  \/ User
  \/ \E t \in DOMAIN tasks : Network(t) \/ Lose(t)
  \/ Rest

Spec == Init /\ [][Next]_vars

(* Requests are carried out and their answers processed, unless they are    *)
(* lost; the user never has to do anything.                                 *)
Fairness == \A t \in 1..(MaxTasks + 2) : WF_vars(t \in DOMAIN tasks /\ Network(t))

LiveSpec == Spec /\ Fairness

-----------------------------------------------------------------------------
Ids(kind) == 0..Len(server[kind])

(* The page refers to rows that exist, and every method is at one of its    *)
(* steps (Component.state).                                                 *)
TypeOK ==
  /\ DOMAIN server = {"contact", "deal", "activity"}
  /\ ui.selectedId \in Ids("contact") /\ ui.contact.id \in Ids("contact")
  /\ DOMAIN ui.contacts \subseteq DOMAIN server.contact
  /\ DOMAIN ui.allDeals \subseteq DOMAIN server.deal
  /\ ui.dragging \in Ids("deal")
  /\ ui.form.kind \in {"none", "contact", "deal"}
  /\ ui.formError \in {Blank, "error"} /\ ui.actError \in {Blank, "error"}
  /\ \A t \in DOMAIN tasks :
       /\ tasks[t].step.do \in {"none", "import", "contacts", "deals", "select", "write"}
       /\ tasks[t].catch \in {"none", "form", "act"}
  /\ lost \in BOOLEAN

(* Read your writes: when every method has ended and nothing was lost, the  *)
(* list, the contact shown with its deals and activities, and the board all *)
(* agree with the server, whatever was saved from wherever (the refreshes   *)
(* after each save in submitForm, logActivity and drop).                    *)
ShowsOwnWrites ==
  Quiet /\ ~lost =>
    /\ ui.contacts = Answer(server, "contacts", [search |-> ui.search])
    /\ ui.allDeals = Answer(server, "allDeals", << >>)
    /\ ui.selectedId # None =>
         \A field \in {"contact", "activities", "contactDeals"} :
           ui[field] = Answer(server, field, Select(ui.selectedId))

(* The contact shown, its activities and its deals always belong to one     *)
(* contact, however the answers of several selections overtake each other   *)
(* (Promise.all in select()).                                               *)
ShownTogether ==
  ui.contact.id = ui.activities.of /\ ui.contact.id = ui.contactDeals.of

Saves == {tasks[t].step : t \in {x \in DOMAIN tasks : tasks[x].step.do = "write"}}

(* Dialogs send every field, also those copied from the page; a field of a  *)
(* stored row nevertheless changes only if the user set it: unless something *)
(* was lost, no save takes back what an earlier one changed.                *)
UntouchedKept ==
  [][~lost => \A kind \in {"contact", "deal"} : \A i \in DOMAIN server[kind] :
       \A f \in DOMAIN server[kind][i] :
         server'[kind][i][f] # server[kind][i][f]
           => \E w \in Saves : w.kind = kind /\ w.id = i /\ f \in w.touched]_vars

(* The list that arrives after the page opened selects its first contact    *)
(* only if the user has not got ahead of it: refreshContacts(true).         *)
AutoSelectYields ==
  [][tasks[1].step.do = "contacts" /\ tasks'[1] # tasks[1] /\ ui.selectedId # None
       => ui'.selectedId = ui.selectedId]_vars

Submitting(t) ==
  t \in DOMAIN tasks /\ tasks[t].step.do = "write" /\ tasks[t].catch = "form"

(* Who submits a dialog learns the outcome, also when the save is lost: it   *)
(* is over at last, and the dialog has closed or says why it has not        *)
(* (submitForm's catch).  A refresh that fails after the save is not part   *)
(* of it: its message goes to a dialog that is closed.                      *)
SubmitIsAnswered ==
  \A t \in 1..(MaxTasks + 2) :
    Submitting(t) ~> (~Submitting(t) /\ (FormOpen => ui.formError # Blank))

(* A dialog that was submitted closes only because the server has carried   *)
(* out that save; a refusal or a lost answer leaves it open for another try *)
(* (submitForm, and the check of response.ok in request()).                 *)
ClosedWhenSaved ==
  [][\A t \in DOMAIN tasks : Submitting(t) /\ ui'.form = NoForm
       => DOMAIN tasks[t].got = {"saved"} /\ tasks[t].got.saved.ok]_vars

(* A new deal goes to the contact that the dialog's title names: "New deal  *)
(* for" the contact shown (formTitle, submitForm).                          *)
NewDealForNamed ==
  [][\A t \in DOMAIN tasks' \ DOMAIN tasks :
       LET w == tasks'[t].step
       IN  w.do = "write" /\ w.kind = "deal" /\ w.id = None
             => w.values.contact = ui.contact.id]_vars

=============================================================================
