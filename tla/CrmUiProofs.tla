----------------------------- MODULE CrmUiProofs -----------------------------
(***************************************************************************)
(* What the page keeps however its answers are delayed, reordered or lost:  *)
(* CrmUi's safety properties, for every user and every store.               *)
(***************************************************************************)
EXTENDS CrmUiSaves, SequenceTheorems, TLAPS

-----------------------------------------------------------------------------
(* The inductive invariant.  n and m are the numbers of stored contacts and *)
(* deals: rows are never taken away, so what is in range stays in range.    *)

Tables ==
  [contact  : Seq([name : STRING]),
   deal     : Seq([contact : Nat, title : STRING, stage : STRING, close : STRING]),
   activity : Seq([contact : Nat, note : STRING])]

Contacts == Len(server.contact)
Deals    == Len(server.deal)

ServerOK ==
  /\ server \in Tables
  /\ \A i \in 1..Len(server.deal) : server.deal[i].contact \in 1..Contacts
  /\ \A i \in 1..Len(server.activity) : server.activity[i].contact \in 1..Contacts

DealsOK(n, m, deals) ==
  \A d \in DOMAIN deals :
    d \in 1..m /\ deals[d].contact \in 1..n /\ deals[d].title \in STRING
      /\ deals[d].stage \in STRING /\ deals[d].close \in STRING

FormOK(n, m, f) ==
  \/ f = NoForm
  \/ /\ DOMAIN f = {"kind", "id", "dealContact", "values", "touched"}
     /\ f.dealContact \in 0..n
     /\ \/ f.kind = "contact" /\ f.id \in 0..n /\ f.values \in [name : STRING]
        \/ f.kind = "deal" /\ f.id \in 0..m
             /\ f.values \in [title : STRING, stage : STRING, close : STRING]

PageFields ==
  {"api", "search", "contacts", "allDeals", "selectedId", "contact", "activities", "contactDeals",
   "actNote", "actError", "form", "formError", "dragging"}

(* The three parts of a contact are of one contact.                         *)
OneContact(c, as, ds) == c.id = as.of /\ c.id = ds.of

PageOK(n, m, u) ==
  /\ DOMAIN u = PageFields
  /\ u.selectedId \in 0..n /\ u.dragging \in 0..m /\ DOMAIN u.contacts \subseteq 1..n
  /\ u.contact.id \in 0..n /\ (u.contact.id # None => u.contact.name \in STRING)
  /\ OneContact(u.contact, u.activities, u.contactDeals)
  /\ DealsOK(n, m, u.allDeals) /\ DealsOK(n, m, u.contactDeals.rows)
  /\ FormOK(n, m, u.form) /\ u.actNote \in STRING
  /\ u.formError \in {Blank, "error"} /\ u.actError \in {Blank, "error"}

WriteOK(n, m, w) ==
  \/ w.kind = "contact" /\ w.id \in 0..n /\ w.values \in [name : STRING]
  \/ w.kind = "deal" /\ w.id = None
       /\ w.values \in [contact : Nat, title : STRING, stage : STRING, close : STRING]
  \/ w.kind = "deal" /\ w.id \in 1..m
       /\ w.values \in [title : STRING, stage : STRING, close : STRING] \cup [stage : STRING]
  \/ w.kind = "activity" /\ w.id = None /\ w.values \in [contact : Nat, note : STRING]

StepOK(n, m, s) ==
  \/ s.do \in {"none", "contacts", "deals"}
  \/ s.do = "import" /\ s.module \in {"api", "tests"}
  \/ s.do = "select" /\ s.id \in 1..n
  \/ s.do = "write" /\ WriteOK(n, m, s)

GotOK(n, m, s, g) ==
  /\ DOMAIN g \subseteq Fields(s)
  /\ "contacts" \in DOMAIN g => DOMAIN g.contacts \subseteq 1..n
  /\ "allDeals" \in DOMAIN g => DealsOK(n, m, g.allDeals)
  /\ "contact" \in DOMAIN g => g.contact.id = s.id /\ g.contact.name \in STRING
  /\ "activities" \in DOMAIN g => g.activities.of = s.id
  /\ "contactDeals" \in DOMAIN g =>
       g.contactDeals.of = s.id /\ DealsOK(n, m, g.contactDeals.rows)
  /\ "saved" \in DOMAIN g =>
       (g.saved.ok /\ s.kind = "contact" => g.saved.id \in 1..n)

(* What is left of the mount after an import.                               *)
Rests ==
  {<<Import("tests"), RefreshContacts(TRUE), RefreshDeals>>, <<RefreshContacts(TRUE), RefreshDeals>>}

Mounting == {Import("api"), Import("tests"), RefreshContacts(TRUE)}

(* The steps that may follow; a new contact has no id before it is saved.   *)
Later(n) ==
  {RefreshContacts(FALSE), RefreshDeals} \cup {Select(c) : c \in 1..n}
    \cup {ReloadSelected(c) : c \in 0..n}

ThenOK(n, s, todo) ==
  \/ todo \in Seq(Later(n))
  \/ s.do = "write" /\ s.kind = "contact" /\ todo \in Seq(Later(n) \cup {Select(None)})
  \/ s.do = "import" /\ todo \in Rests

TaskOK(n, m, x) ==
  /\ DOMAIN x = {"step", "then", "got", "catch"}
  /\ StepOK(n, m, x.step) /\ GotOK(n, m, x.step, x.got) /\ ThenOK(n, x.step, x.then)
  /\ x.catch \in {"none", "form", "act"}

Elements(s) == {s[i] : i \in DOMAIN s}

TasksOK(n, m, T) == T \in Seq(Elements(T)) /\ \A t \in DOMAIN T : TaskOK(n, m, T[t])

(* The mount: the modules, the list, then the board.                        *)
MountAt(x) ==
  \/ x.step.do = "import" /\ x.then \in Rests
  \/ x.step.do = "contacts" /\ x.then = <<RefreshDeals>>
  \/ x.step.do \in {"none", "deals"} /\ x.then = << >>

MountOK(T) == 1 \in DOMAIN T /\ MountAt(T[1])

UiInv ==
  /\ ServerOK /\ PageOK(Contacts, Deals, ui) /\ TasksOK(Contacts, Deals, tasks)
  /\ MountOK(tasks) /\ lost \in BOOLEAN

-----------------------------------------------------------------------------
(* Sequences.                                                               *)

LEMMA SeqOfElements ==
  ASSUME NEW S, NEW s \in Seq(S)
  PROVE  s \in Seq(Elements(s)) /\ DOMAIN s = 1..Len(s) /\ Len(s) \in Nat
<1>1. s \in [1..Len(s) -> S] /\ Len(s) \in Nat /\ DOMAIN s = 1..Len(s)
  BY LenProperties
<1>2. s \in [1..Len(s) -> Elements(s)]
  BY <1>1 DEF Elements
<1> QED BY <1>1, <1>2, SeqDef

(* A task is added.                                                         *)
Added(T, x, U) ==
  /\ U \in Seq(Elements(U)) /\ DOMAIN U = 1..(Len(T) + 1)
  /\ \A t \in 1..Len(T) : U[t] = T[t]
  /\ U[Len(T) + 1] = x

LEMMA TaskAdded ==
  ASSUME NEW T, T \in Seq(Elements(T)), NEW x, NEW U, U = Append(T, x)
  PROVE  Added(T, x, U)
<1> DEFINE S == Elements(T) \cup {x}
<1>1. T \in Seq(S) /\ x \in S
  BY SeqMonotonic
<1> HIDE DEF S
<1>2. /\ U \in Seq(S) /\ Len(U) = Len(T) + 1
      /\ \A t \in 1..Len(T) : U[t] = T[t]
      /\ U[Len(T) + 1] = x
  BY <1>1, AppendProperties
<1> QED BY <1>2, SeqOfElements DEF Added

(* A task takes a step.                                                     *)
LEMMA TaskSet ==
  ASSUME NEW T, T \in Seq(Elements(T)), NEW t \in DOMAIN T, NEW x, NEW U, U = [T EXCEPT ![t] = x]
  PROVE  /\ U \in Seq(Elements(U)) /\ DOMAIN U = DOMAIN T /\ U[t] = x
         /\ \A v \in DOMAIN T \ {t} : U[v] = T[v]
<1> DEFINE S == Elements(T) \cup {x}
<1>1. T \in Seq(S) /\ x \in S
  BY SeqMonotonic
<1>2. DOMAIN T = 1..Len(T)
  BY LenProperties
<1> HIDE DEF S
<1>3. /\ U \in Seq(S) /\ Len(U) = Len(T)
      /\ \A v \in 1..Len(T) : U[v] = IF v = t THEN x ELSE T[v]
  BY <1>1, <1>2, ExceptSeq
<1> QED BY <1>2, <1>3, SeqOfElements

-----------------------------------------------------------------------------
(* Rows are only added: what refers to a row goes on doing so.              *)

LEMMA MoreNumbers ==
  ASSUME NEW n \in Nat, NEW k \in Nat, n <= k
  PROVE  1..n \subseteq 1..k /\ 0..n \subseteq 0..k
OBVIOUS

LEMMA PageGrows ==
  ASSUME NEW n \in Nat, NEW m \in Nat, NEW k \in Nat, NEW l \in Nat, n <= k, m <= l,
         NEW u, PageOK(n, m, u)
  PROVE  PageOK(k, l, u)
<1>1. 1..n \subseteq 1..k /\ 0..n \subseteq 0..k /\ 1..m \subseteq 1..l /\ 0..m \subseteq 0..l
  BY MoreNumbers
<1>2. FormOK(k, l, u.form)
  BY <1>1 DEF PageOK, FormOK
<1>3. DealsOK(k, l, u.allDeals) /\ DealsOK(k, l, u.contactDeals.rows)
  BY <1>1 DEF PageOK, DealsOK
<1> QED BY <1>1, <1>2, <1>3 DEF PageOK

LEMMA GotGrows ==
  ASSUME NEW n \in Nat, NEW m \in Nat, NEW k \in Nat, NEW l \in Nat, n <= k, m <= l,
         NEW s, NEW g, GotOK(n, m, s, g)
  PROVE  GotOK(k, l, s, g)
<1>1. 1..n \subseteq 1..k /\ 1..m \subseteq 1..l
  BY MoreNumbers
<1>2. "allDeals" \in DOMAIN g => DealsOK(k, l, g.allDeals)
  BY <1>1 DEF GotOK, DealsOK
<1>3. "contactDeals" \in DOMAIN g => DealsOK(k, l, g.contactDeals.rows)
  BY <1>1 DEF GotOK, DealsOK
<1> QED BY <1>1, <1>2, <1>3 DEF GotOK

LEMMA TaskGrows ==
  ASSUME NEW n \in Nat, NEW m \in Nat, NEW k \in Nat, NEW l \in Nat, n <= k, m <= l,
         NEW x, TaskOK(n, m, x)
  PROVE  TaskOK(k, l, x)
<1>1. 1..n \subseteq 1..k /\ 0..n \subseteq 0..k /\ 1..m \subseteq 1..l
  BY MoreNumbers
<1>2. GotOK(k, l, x.step, x.got)
  BY GotGrows DEF TaskOK
<1>3. StepOK(k, l, x.step)
  BY <1>1 DEF TaskOK, StepOK, WriteOK
<1>4. ThenOK(k, x.step, x.then)
  <2>1. Later(n) \subseteq Later(k)
    BY <1>1 DEF Later
  <2>2. \A S, U : S \subseteq U => \A q \in Seq(S) : q \in Seq(U)
    BY SeqMonotonic
  <2>3. Later(n) \cup {Select(None)} \subseteq Later(k) \cup {Select(None)}
    BY <2>1
  <2> QED BY <2>1, <2>2, <2>3 DEF TaskOK, ThenOK
<1> QED BY <1>2, <1>3, <1>4 DEF TaskOK

-----------------------------------------------------------------------------
(* The server.                                                              *)

LEMMA ServerTypes ==
  ASSUME ServerOK
  PROVE  /\ Contacts \in Nat /\ DOMAIN server.contact = 1..Contacts
         /\ \A i \in 1..Contacts : server.contact[i] \in [name : STRING]
         /\ Deals \in Nat /\ DOMAIN server.deal = 1..Deals
         /\ \A i \in 1..Deals :
              /\ server.deal[i] \in [contact : Nat, title : STRING, stage : STRING, close : STRING]
              /\ server.deal[i].contact \in 1..Contacts
         /\ Len(server.activity) \in Nat /\ DOMAIN server.activity = 1..Len(server.activity)
         /\ \A i \in 1..Len(server.activity) :
              /\ server.activity[i] \in [contact : Nat, note : STRING]
              /\ server.activity[i].contact \in 1..Contacts
<1>1. /\ server.contact \in Seq([name : STRING])
      /\ server.deal \in Seq([contact : Nat, title : STRING, stage : STRING, close : STRING])
      /\ server.activity \in Seq([contact : Nat, note : STRING])
  BY DEF ServerOK, Tables
<1> QED BY <1>1, LenProperties, ElementOfSeq DEF ServerOK, Contacts, Deals

LEMMA RowsOK ==
  ASSUME ServerOK, NEW ids, ids \subseteq 1..Deals
  PROVE  DealsOK(Contacts, Deals, DealRows(server, ids))
<1>1. ASSUME NEW d \in ids
      PROVE  /\ DealRows(server, ids)[d].contact = server.deal[d].contact
             /\ DealRows(server, ids)[d].title = server.deal[d].title
             /\ DealRows(server, ids)[d].stage = server.deal[d].stage
             /\ DealRows(server, ids)[d].close = server.deal[d].close
  <2>1. server.deal[d] \in [contact : Nat, title : STRING, stage : STRING, close : STRING]
    BY <1>1, ServerTypes
  <2> QED BY <2>1 DEF DealRows, Spread
<1>2. DOMAIN DealRows(server, ids) = ids
  BY DEF DealRows
<1>3. \A d \in ids : server.deal[d] \in [contact : Nat, title : STRING, stage : STRING, close : STRING]
                     /\ server.deal[d].contact \in 1..Contacts
  BY ServerTypes
<1> HIDE DEF DealRows
<1> QED BY <1>1, <1>2, <1>3 DEF DealsOK

(* What the server answers fits the step that asked for it.                 *)
LEMMA AnswerOK ==
  ASSUME ServerOK, NEW s, StepOK(Contacts, Deals, s), s.do # "write", NEW field \in Fields(s)
  PROVE  GotOK(Contacts, Deals, s, [f \in {field} |-> Answer(server, field, s)])
<1> DEFINE g == [f \in {field} |-> Answer(server, field, s)]
<1>1. DOMAIN g = {field} /\ g[field] = Answer(server, field, s)
  OBVIOUS
<1>2. CASE s.do = "contacts"
  <2>1. field = "contacts"
    BY <1>2 DEF Fields
  <2>2. DOMAIN Answer(server, "contacts", s) \subseteq 1..Contacts
    BY ServerTypes DEF Answer, Found
  <2> HIDE DEF g
  <2> QED BY <1>1, <2>1, <2>2 DEF GotOK, g
<1>3. CASE s.do = "deals"
  <2>1. field = "allDeals"
    BY <1>3 DEF Fields
  <2>2. DealsOK(Contacts, Deals, Answer(server, "allDeals", s))
    BY RowsOK, ServerTypes DEF Answer
  <2> HIDE DEF g
  <2> QED BY <1>1, <2>1, <2>2 DEF GotOK, g
<1>4. CASE s.do = "select"
  <2>1. s.id \in 1..Contacts /\ field \in {"contact", "activities", "contactDeals"}
    BY <1>4 DEF Fields, StepOK
  <2>2. Answer(server, "contact", s).id = s.id /\ Answer(server, "contact", s).name \in STRING
    <3>1. server.contact[s.id] \in [name : STRING]
      BY <2>1, ServerTypes
    <3> QED BY <3>1 DEF Answer, Spread
  <2>3. Answer(server, "activities", s).of = s.id
    BY DEF Answer
  <2>4. /\ Answer(server, "contactDeals", s).of = s.id
        /\ DealsOK(Contacts, Deals, Answer(server, "contactDeals", s).rows)
    <3>1. OfContact(server, "deal", s.id) \subseteq 1..Deals
      BY ServerTypes DEF OfContact
    <3>2. DealsOK(Contacts, Deals, DealRows(server, OfContact(server, "deal", s.id)))
      BY <3>1, RowsOK
    <3> QED BY <3>2 DEF Answer
  <2>5. field \in Fields(s)
    OBVIOUS
  <2> HIDE DEF g
  <2> QED BY <1>1, <2>1, <2>2, <2>3, <2>4, <2>5 DEF GotOK, g
<1>5. CASE s.do = "import"
  <2>1. field \in {"api", "tests"}
    BY <1>5 DEF Fields, StepOK
  <2>2. field \in Fields(s)
    OBVIOUS
  <2> HIDE DEF g
  <2> QED BY <1>1, <2>1, <2>2 DEF GotOK, g
<1>6. s.do \in {"none", "import", "contacts", "deals", "select"}
  BY DEF StepOK
<1>7. s.do # "none"
  BY DEF Fields
<1> QED BY <1>2, <1>3, <1>4, <1>5, <1>6, <1>7

(* More answers to a step.                                                  *)
LEMMA GotMore ==
  ASSUME NEW n, NEW m, NEW s, NEW g, GotOK(n, m, s, g), NEW h, GotOK(n, m, s, h)
  PROVE  GotOK(n, m, s, Spread(g, h))
<1> DEFINE j == Spread(g, h)
<1>1. /\ DOMAIN j = DOMAIN h \cup DOMAIN g
      /\ \A f \in DOMAIN h : j[f] = h[f]
      /\ \A f \in DOMAIN g \ DOMAIN h : j[f] = g[f]
  BY DEF Spread
<1> HIDE DEF j
<1>2. GotOK(n, m, s, j)
  BY <1>1 DEF GotOK
<1> QED BY <1>2 DEF j

LEMMA SavedOK ==
  ASSUME NEW n, NEW m, NEW s, s.do = "write", NEW a, a.ok /\ s.kind = "contact" => a.id \in 1..n
  PROVE  GotOK(n, m, s, [f \in {"saved"} |-> a])
BY DEF GotOK, Fields

(* A row is added, or one row is changed: the rest of the table stays.      *)
Grown(old, new, w) ==
  IF w.id = None THEN new = Append(old, w.values)
                 ELSE new = [old EXCEPT ![w.id] = Spread(old[w.id], w.values)]

LEMMA TableGrows ==
  ASSUME NEW S, NEW old \in Seq(S), NEW new, NEW w, Grown(old, new, w),
         w.id = None => w.values \in S,
         w.id # None => w.id \in 1..Len(old) /\ Spread(old[w.id], w.values) \in S
  PROVE  /\ new \in Seq(S) /\ Len(old) \in Nat
         /\ \A i \in 1..Len(old) : i # w.id => new[i] = old[i]
         /\ w.id = None => Len(new) = Len(old) + 1 /\ new[Len(old) + 1] = w.values
         /\ w.id # None => Len(new) = Len(old) /\ new[w.id] = Spread(old[w.id], w.values)
<1>1. CASE w.id = None
  <2>1. new = Append(old, w.values) /\ w.values \in S
    BY <1>1 DEF Grown
  <2> QED BY <1>1, <2>1, AppendProperties, LenProperties DEF None
<1>2. CASE w.id # None
  <2> DEFINE row == Spread(old[w.id], w.values)
  <2>1. new = [old EXCEPT ![w.id] = row] /\ row \in S /\ w.id \in 1..Len(old)
    BY <1>2 DEF Grown
  <2> HIDE DEF row
  <2>2. /\ new \in Seq(S) /\ Len(new) = Len(old)
        /\ \A i \in 1..Len(old) : new[i] = IF i = w.id THEN row ELSE old[i]
    BY <2>1, ExceptSeq
  <2>3. Len(old) \in Nat
    BY LenProperties
  <2> QED BY <1>2, <2>1, <2>2, <2>3 DEF row
<1> QED BY <1>1, <1>2

(* A write changes its own table only.                                      *)
LEMMA CarriedTables ==
  ASSUME server \in Tables, NEW w, w.kind \in {"contact", "deal", "activity"},
         server' = Carried(w)
  PROVE  /\ DOMAIN server' = DOMAIN server
         /\ Grown(server[w.kind], server'[w.kind], w)
         /\ \A kind \in DOMAIN server \ {w.kind} : server'[kind] = server[kind]
<1>1. DOMAIN server = {"contact", "deal", "activity"}
  BY DEF Tables
<1>2. w.kind \in DOMAIN server
  BY <1>1
<1> QED BY <1>1, <1>2 DEF Carried, Grown

(* The rows that a write may give.                                          *)
LEMMA WrittenRow ==
  ASSUME ServerOK, NEW w, WriteOK(Contacts, Deals, w), Accepted(w)
  PROVE  \/ /\ w.kind = "contact" /\ w.id \in 0..Contacts
            /\ IF w.id = None THEN w.values \in [name : STRING]
               ELSE Spread(server.contact[w.id], w.values) \in [name : STRING]
         \/ /\ w.kind = "deal" /\ w.id = None
            /\ w.values \in [contact : Nat, title : STRING, stage : STRING, close : STRING]
            /\ w.values.contact \in 1..Contacts
         \/ /\ w.kind = "deal" /\ w.id \in 1..Deals
            /\ Spread(server.deal[w.id], w.values)
                 \in [contact : Nat, title : STRING, stage : STRING, close : STRING]
            /\ Spread(server.deal[w.id], w.values).contact = server.deal[w.id].contact
         \/ /\ w.kind = "activity" /\ w.id = None
            /\ w.values \in [contact : Nat, note : STRING]
            /\ w.values.contact \in 1..Contacts
<1>1. CASE w.kind = "contact" /\ w.id \in 0..Contacts /\ w.values \in [name : STRING]
  <2>1. w.id # None => server.contact[w.id] \in [name : STRING]
    BY <1>1, ServerTypes DEF None
  <2>2. w.id # None => Spread(server.contact[w.id], w.values) \in [name : STRING]
    BY <1>1, <2>1 DEF Spread
  <2> QED BY <1>1, <2>2
<1>2. CASE /\ w.kind = "deal" /\ w.id = None
           /\ w.values \in [contact : Nat, title : STRING, stage : STRING, close : STRING]
  BY <1>2, ServerTypes DEF Accepted
<1>3. CASE /\ w.kind = "deal" /\ w.id \in 1..Deals
           /\ w.values \in [title : STRING, stage : STRING, close : STRING] \cup [stage : STRING]
  <2>1. server.deal[w.id] \in [contact : Nat, title : STRING, stage : STRING, close : STRING]
    BY <1>3, ServerTypes
  <2>2. CASE w.values \in [title : STRING, stage : STRING, close : STRING]
    BY <2>1, <2>2, <1>3 DEF Spread
  <2>3. CASE w.values \in [stage : STRING]
    BY <2>1, <2>3, <1>3 DEF Spread
  <2> QED BY <1>3, <2>2, <2>3
<1>4. CASE w.kind = "activity" /\ w.id = None /\ w.values \in [contact : Nat, note : STRING]
  BY <1>4, ServerTypes DEF Accepted
<1> QED BY <1>1, <1>2, <1>3, <1>4 DEF WriteOK

(* The store stays well-formed and loses no row.                            *)
LEMMA CarriedOK ==
  ASSUME ServerOK, NEW w, WriteOK(Contacts, Deals, w), Accepted(w), server' = Carried(w)
  PROVE  /\ ServerOK' /\ Contacts <= Contacts' /\ Deals <= Deals'
         /\ w.kind = "contact" =>
              (IF w.id = None THEN Len(server[w.kind]) + 1 ELSE w.id) \in 1..Contacts'
<1> DEFINE C == [name : STRING]
           D == [contact : Nat, title : STRING, stage : STRING, close : STRING]
           A == [contact : Nat, note : STRING]
<1>0. /\ server.contact \in Seq(C) /\ server.deal \in Seq(D) /\ server.activity \in Seq(A)
      /\ DOMAIN server = {"contact", "deal", "activity"}
  BY DEF ServerOK, Tables
<1>1. w.kind \in {"contact", "deal", "activity"}
  BY DEF WriteOK
<1>2. /\ DOMAIN server' = DOMAIN server
      /\ Grown(server[w.kind], server'[w.kind], w)
      /\ \A kind \in DOMAIN server \ {w.kind} : server'[kind] = server[kind]
  BY <1>1, CarriedTables DEF ServerOK
<1>3. server' = [kind \in {"contact", "deal", "activity"} |-> server'[kind]]
  <2>1. server' = [server EXCEPT ![w.kind] = server'[w.kind]]
    BY <1>0, <1>1 DEF Carried
  <2> QED BY <1>0, <1>1, <1>2, <2>1
<1>4. CASE w.kind = "contact"
  <2>1. w.id \in 0..Contacts
        /\ IF w.id = None THEN w.values \in C ELSE Spread(server.contact[w.id], w.values) \in C
    BY <1>4, WrittenRow
  <2>2. w.id # None => w.id \in 1..Len(server.contact)
    BY <2>1 DEF None, Contacts
  <2> HIDE DEF C
  <2>3. /\ server'.contact \in Seq(C) /\ Len(server.contact) \in Nat
        /\ w.id = None => Len(server'.contact) = Len(server.contact) + 1
        /\ w.id # None => Len(server'.contact) = Len(server.contact)
    <3>1. Grown(server.contact, server'.contact, w)
      BY <1>2, <1>4
    <3>2. w.id = None => w.values \in C
      BY <2>1
    <3>3. w.id # None => w.id \in 1..Len(server.contact) /\ Spread(server.contact[w.id], w.values) \in C
      BY <2>1, <2>2
    <3>4. server.contact \in Seq(C)
      BY <1>0
    <3> QED BY <3>1, <3>2, <3>3, <3>4, TableGrows
  <2>4. server'.deal = server.deal /\ server'.activity = server.activity
    BY <1>0, <1>2, <1>4
  <2>5. Len(server.contact) \in Nat /\ Len(server.deal) \in Nat
    BY ServerTypes DEF Contacts, Deals
  <2>6. /\ \A i \in 1..Len(server.deal) : server.deal[i].contact \in 1..Len(server.contact)
        /\ \A i \in 1..Len(server.activity) : server.activity[i].contact \in 1..Len(server.contact)
    BY DEF ServerOK, Contacts
  <2>7. /\ Len(server.contact) <= Len(server'.contact)
        /\ 1..Len(server.contact) \subseteq 1..Len(server'.contact)
    <3>1. CASE w.id = None
      BY <2>3, <3>1
    <3>2. CASE w.id # None
      BY <2>3, <3>2
    <3> QED BY <3>1, <3>2
  <2>8. server' \in Tables
    BY <1>0, <1>3, <2>3, <2>4 DEF Tables, C
  <2>9. ServerOK'
    BY <2>4, <2>6, <2>7, <2>8 DEF ServerOK, Contacts
  <2>10. Contacts <= Contacts' /\ Deals <= Deals'
    <3>1. Len(server.deal) <= Len(server'.deal)
      BY <2>4, <2>5
    <3> QED BY <2>7, <3>1 DEF Contacts, Deals
  <2>11. (IF w.id = None THEN Len(server.contact) + 1 ELSE w.id) \in 1..Len(server'.contact)
    <3>1. CASE w.id = None
      BY <2>3, <3>1
    <3>2. CASE w.id # None
      BY <2>2, <2>3, <3>2
    <3> QED BY <3>1, <3>2
  <2> QED BY <1>4, <2>9, <2>10, <2>11 DEF Contacts
<1>5. CASE w.kind = "deal"
  <2>1. \/ w.id = None /\ w.values \in D /\ w.values.contact \in 1..Contacts
        \/ /\ w.id \in 1..Deals /\ Spread(server.deal[w.id], w.values) \in D
           /\ Spread(server.deal[w.id], w.values).contact = server.deal[w.id].contact
    BY <1>5, WrittenRow
  <2>2. w.id # None => w.id \in 1..Len(server.deal)
    BY <2>1 DEF Deals
  <2> HIDE DEF D
  <2>3. /\ server'.deal \in Seq(D) /\ Len(server.deal) \in Nat
        /\ \A i \in 1..Len(server.deal) : i # w.id => server'.deal[i] = server.deal[i]
        /\ w.id = None => /\ Len(server'.deal) = Len(server.deal) + 1
                          /\ server'.deal[Len(server.deal) + 1] = w.values
        /\ w.id # None => /\ Len(server'.deal) = Len(server.deal)
                          /\ server'.deal[w.id] = Spread(server.deal[w.id], w.values)
    <3>1. Grown(server.deal, server'.deal, w)
      BY <1>2, <1>5
    <3>2. w.id = None => w.values \in D
      BY <2>1, ServerTypes DEF None
    <3>3. w.id # None => w.id \in 1..Len(server.deal) /\ Spread(server.deal[w.id], w.values) \in D
      BY <2>1, <2>2
    <3>4. server.deal \in Seq(D)
      BY <1>0
    <3> QED BY <3>1, <3>2, <3>3, <3>4, TableGrows
  <2>4. server'.contact = server.contact /\ server'.activity = server.activity
    BY <1>0, <1>2, <1>5
  <2>5. Len(server.contact) \in Nat /\ Len(server.deal) \in Nat
    BY ServerTypes DEF Contacts, Deals
  <2>6. \A i \in 1..Len(server.deal) : server.deal[i].contact \in 1..Contacts
    BY DEF ServerOK
  <2>7. ASSUME NEW i \in 1..Len(server'.deal)
        PROVE  server'.deal[i].contact \in 1..Contacts
    <3>1. CASE i = w.id
      BY <2>1, <2>2, <2>3, <2>6, <3>1 DEF None
    <3>2. CASE i # w.id /\ i \in 1..Len(server.deal)
      BY <2>3, <2>6, <3>2
    <3>3. CASE i \notin 1..Len(server.deal)
      <4>1. w.id = None
        BY <2>3, <3>3
      <4>2. i = Len(server.deal) + 1
        BY <2>3, <3>3, <4>1
      <4> QED BY <2>1, <2>3, <4>1, <4>2, ServerTypes DEF None
    <3> QED BY <3>1, <3>2, <3>3
  <2>8. server' \in Tables
    BY <1>0, <1>3, <2>3, <2>4 DEF Tables, D
  <2>9. ServerOK'
    BY <2>4, <2>7, <2>8 DEF ServerOK, Contacts
  <2>10. Contacts <= Contacts' /\ Deals <= Deals'
    <3>1. Len(server.deal) <= Len(server'.deal)
      BY <2>3
    <3>2. Len(server.contact) <= Len(server'.contact)
      BY <2>4, <2>5
    <3> QED BY <3>1, <3>2 DEF Contacts, Deals
  <2> QED BY <1>5, <2>9, <2>10
<1>6. CASE w.kind = "activity"
  <2>1. w.id = None /\ w.values \in A /\ w.values.contact \in 1..Contacts
    BY <1>6, WrittenRow
  <2> HIDE DEF A
  <2>2. /\ server'.activity \in Seq(A)
        /\ Len(server'.activity) = Len(server.activity) + 1
        /\ \A i \in 1..Len(server.activity) : server'.activity[i] = server.activity[i]
        /\ server'.activity[Len(server.activity) + 1] = w.values
    <3>1. Grown(server.activity, server'.activity, w)
      BY <1>2, <1>6
    <3>2. w.values \in A /\ w.id = None /\ server.activity \in Seq(A)
      BY <1>0, <2>1
    <3>3. \A i \in 1..Len(server.activity) : i # w.id
      BY <3>2 DEF None
    <3> QED BY <3>1, <3>2, <3>3, TableGrows
  <2>3. server'.contact = server.contact /\ server'.deal = server.deal
    BY <1>0, <1>2, <1>6
  <2>4. Len(server.contact) \in Nat /\ Len(server.deal) \in Nat /\ Len(server.activity) \in Nat
    BY ServerTypes DEF Contacts, Deals
  <2>5. \A i \in 1..Len(server.activity) : server.activity[i].contact \in 1..Contacts
    BY DEF ServerOK
  <2>6. ASSUME NEW i \in 1..Len(server'.activity)
        PROVE  server'.activity[i].contact \in 1..Contacts
    BY <2>1, <2>2, <2>4, <2>5
  <2>7. server' \in Tables
    BY <1>0, <1>3, <2>2, <2>3 DEF Tables, A
  <2>8. ServerOK'
    BY <2>3, <2>6, <2>7 DEF ServerOK, Contacts
  <2>9. Contacts <= Contacts' /\ Deals <= Deals'
    BY <2>3, <2>4 DEF Contacts, Deals
  <2> QED BY <1>6, <2>8, <2>9
<1> QED BY <1>1, <1>4, <1>5, <1>6

-----------------------------------------------------------------------------
(* How a method goes on.                                                    *)

LEMMA BlankIsText == Blank \in STRING
BY UiAssumption

LEMMA HeadAndTail ==
  ASSUME NEW S, NEW todo \in Seq(S), todo # << >>
  PROVE  Head(todo) \in S /\ Tail(todo) \in Seq(S)
BY HeadTailProperties

(* select() sets the contact and clears the composer.                       *)
LEMMA ClickedOK ==
  ASSUME NEW n \in Nat, NEW m \in Nat, NEW u, PageOK(n, m, u), NEW c \in 1..n, NEW v,
         v = [u EXCEPT !.selectedId = c, !.actNote = Blank, !.actError = Blank]
  PROVE  PageOK(n, m, v)
<1>1. /\ DOMAIN v = DOMAIN u /\ v.selectedId = c /\ v.actNote = Blank /\ v.actError = Blank
      /\ \A f \in PageFields \ {"selectedId", "actNote", "actError"} : v[f] = u[f]
  BY DEF PageOK, PageFields
<1>2. v.contacts = u.contacts /\ v.allDeals = u.allDeals /\ v.contact = u.contact
      /\ v.activities = u.activities /\ v.contactDeals = u.contactDeals /\ v.form = u.form
      /\ v.formError = u.formError /\ v.dragging = u.dragging
  BY <1>1 DEF PageFields
<1>3. c \in 0..n
  OBVIOUS
<1> QED BY <1>1, <1>2, <1>3, BlankIsText DEF PageOK

LEMMA Laters ==
  ASSUME NEW n \in Nat, NEW s \in Later(n)
  PROVE  \/ s.do = "contacts" /\ s = RefreshContacts(FALSE)
         \/ s.do = "deals"
         \/ s.do = "select" /\ s.id \in 1..n
         \/ s.do = "reload" /\ s.of \in 0..n
<1>1. CASE s \in {RefreshContacts(FALSE), RefreshDeals}
  <2>1. RefreshContacts(FALSE).do = "contacts" /\ RefreshDeals.do = "deals"
    BY DEF RefreshContacts, RefreshDeals
  <2> QED BY <1>1, <2>1
<1>2. CASE \E c \in 1..n : s = Select(c)
  BY <1>2 DEF Select
<1>3. CASE \E c \in 0..n : s = ReloadSelected(c)
  BY <1>3 DEF ReloadSelected
<1> QED BY <1>1, <1>2, <1>3 DEF Later

LEMMA SelectIsLater ==
  ASSUME NEW n, NEW c \in 1..n
  PROVE  Select(c) \in Later(n) /\ <<Select(c)>> \in Seq(Later(n))
<1>1. Select(c) \in Later(n)
  BY DEF Later
<1> HIDE DEF Later, Select
<1> QED BY <1>1

LEMMA EndedOK ==
  ASSUME NEW n, NEW m
  PROVE  TaskOK(n, m, Ended)
<1>1. << >> \in Seq(Later(n))
  BY EmptySeq
<1> QED BY <1>1 DEF Ended, TaskOK, StepOK, GotOK, ThenOK

(* A step that begins is one of the method's, whatever it reads.            *)
LEMMA BegunOK ==
  ASSUME NEW n \in Nat, NEW m \in Nat, NEW u, PageOK(n, m, u), NEW s,
         s \in Later(n) \cup Mounting, ~Skipped(u, s)
  PROVE  /\ StepOK(n, m, Begun(u, s)) /\ Begun(u, s).do # "write"
         /\ s.do = "import" => Begun(u, s) = s
         /\ PageOK(n, m, Clicked(u, s))
<1>1. CASE s.do = "contacts"
  <2>1. Begun(u, s).do = "contacts"
    <3>1. s = RefreshContacts(TRUE) \/ s = RefreshContacts(FALSE)
      <4>1. CASE s \in Later(n)
        BY <1>1, <4>1, Laters
      <4>2. CASE s \in Mounting
        <5>1. Import("api").do = "import" /\ Import("tests").do = "import"
          BY DEF Import
        <5> QED BY <1>1, <4>2, <5>1 DEF Mounting
      <4> QED BY <4>1, <4>2
    <3> QED BY <3>1 DEF Begun, Spread, RefreshContacts
  <2> QED BY <1>1, <2>1 DEF StepOK, Clicked
<1>2. CASE s.do = "deals"
  <2>1. Begun(u, s) = s
    BY <1>2 DEF Begun
  <2>2. Clicked(u, s) = u
    BY <1>2 DEF Clicked
  <2> QED BY <1>2, <2>1, <2>2 DEF StepOK
<1>3. CASE s.do = "select" /\ s.id \in 1..n
  <2>1. Begun(u, s) = s
    BY <1>3 DEF Begun
  <2>2. PageOK(n, m, Clicked(u, s))
    BY <1>3, <2>1, ClickedOK DEF Clicked
  <2> QED BY <1>3, <2>1, <2>2 DEF StepOK
<1>4. CASE s.do = "reload" /\ s.of \in 0..n
  <2>1. u.selectedId \in 1..n
    <3>1. u.selectedId # 0 /\ u.selectedId \in 0..n
      BY <1>4 DEF Skipped, PageOK, None
    <3> QED BY <3>1
  <2>2. Begun(u, s).do = "select" /\ Begun(u, s).id = u.selectedId
    BY <1>4 DEF Begun, Select
  <2>3. PageOK(n, m, Clicked(u, s))
    BY <1>4, <2>1, <2>2, ClickedOK DEF Clicked
  <2> QED BY <1>4, <2>1, <2>2, <2>3 DEF StepOK
<1>5. CASE s \in {Import("api"), Import("tests")}
  <2>1. s.do = "import" /\ s.module \in {"api", "tests"}
    BY <1>5 DEF Import
  <2>2. Begun(u, s) = s /\ Clicked(u, s) = u
    BY <2>1 DEF Begun, Clicked
  <2> QED BY <2>1, <2>2 DEF StepOK
<1>6. s = RefreshContacts(TRUE) => s.do = "contacts"
  BY DEF RefreshContacts
<1> QED BY <1>1, <1>2, <1>3, <1>4, <1>5, <1>6, Laters DEF Mounting

LEMMA GoingOn ==
  ASSUME NEW n \in Nat, NEW m \in Nat, NEW u, PageOK(n, m, u), NEW catch \in {"none", "form", "act"},
         NEW todo,
         todo # << >> => /\ Head(todo) \in Later(n) \cup Mounting
                         /\ \/ Tail(todo) \in Seq(Later(n))
                            \/ Head(todo).do = "import" /\ Tail(todo) \in Rests
  PROVE  PageOK(n, m, Page(u, todo)) /\ TaskOK(n, m, Continued(u, todo, catch))
<1>1. CASE Over(u, todo)
  BY <1>1, EndedOK DEF Page, Continued
<1>2. CASE ~Over(u, todo)
  <2> DEFINE s == Head(todo)
             b == Begun(u, s)
             x == Continued(u, todo, catch)
  <2>1. todo # << >> /\ ~Skipped(u, s)
    BY <1>2 DEF Over
  <2>2. /\ StepOK(n, m, b) /\ b.do # "write" /\ PageOK(n, m, Clicked(u, s))
        /\ s.do = "import" => b.do = "import"
    BY <2>1, BegunOK
  <2>3. Page(u, todo) = Clicked(u, s)
    BY <1>2 DEF Page
  <2>4. /\ DOMAIN x = {"step", "then", "got", "catch"} /\ x.step = b
        /\ x.then = Tail(todo) /\ x.got = << >> /\ x.catch = catch
    BY <1>2 DEF Continued
  <2> HIDE DEF b, x
  <2>5. GotOK(n, m, b, << >>)
    BY DEF GotOK
  <2>6. TaskOK(n, m, x)
    BY <2>1, <2>2, <2>4, <2>5 DEF TaskOK, ThenOK
  <2> QED BY <2>2, <2>3, <2>6 DEF x
<1> QED BY <1>1, <1>2

LEMMA RestsBegin ==
  ASSUME NEW todo \in Rests
  PROVE  /\ todo # << >>
         /\ \/ /\ Head(todo) = Import("tests")
               /\ Tail(todo) = <<RefreshContacts(TRUE), RefreshDeals>>
            \/ Head(todo) = RefreshContacts(TRUE) /\ Tail(todo) = <<RefreshDeals>>
<1>1. ASSUME NEW a, NEW b, NEW c
      PROVE  /\ <<a, b, c>> # << >> /\ Head(<<a, b, c>>) = a /\ Tail(<<a, b, c>>) = <<b, c>>
             /\ <<a, b>> # << >> /\ Head(<<a, b>>) = a /\ Tail(<<a, b>>) = <<b>>
  OBVIOUS
<1> DEFINE a == Import("tests")
           b == RefreshContacts(TRUE)
           c == RefreshDeals
<1>2. todo = <<a, b, c>> \/ todo = <<b, c>>
  BY DEF Rests
<1> HIDE DEF a, b, c
<1>3. CASE todo = <<a, b, c>>
  <2>1. todo # << >> /\ Head(todo) = a /\ Tail(todo) = <<b, c>>
    BY <1>1, <1>3
  <2> QED BY <2>1 DEF a, b, c
<1>4. CASE todo = <<b, c>>
  <2>1. todo # << >> /\ Head(todo) = b /\ Tail(todo) = <<c>>
    BY <1>1, <1>4
  <2> QED BY <2>1 DEF b, c
<1> QED BY <1>2, <1>3, <1>4

(* As above, for steps that may all follow.                                 *)
LEMMA GoesOnOK ==
  ASSUME NEW n \in Nat, NEW m \in Nat, NEW u, PageOK(n, m, u), NEW catch \in {"none", "form", "act"},
         NEW todo \in Seq(Later(n)) \cup Rests
  PROVE  PageOK(n, m, Page(u, todo)) /\ TaskOK(n, m, Continued(u, todo, catch))
<1>1. CASE todo \in Seq(Later(n))
  <2>1. todo # << >> => Head(todo) \in Later(n) /\ Tail(todo) \in Seq(Later(n))
    BY <1>1, HeadAndTail
  <2> QED BY <2>1, GoingOn
<1>2. CASE todo \in Rests
  <2>1. \/ Head(todo) = Import("tests") /\ Tail(todo) \in Rests
        \/ Head(todo) = RefreshContacts(TRUE) /\ Tail(todo) = <<RefreshDeals>>
    BY <1>2, RestsBegin DEF Rests
  <2>2. <<RefreshDeals>> \in Seq(Later(n))
    BY DEF Later
  <2>3. Import("tests").do = "import"
    BY DEF Import
  <2>4. /\ Head(todo) \in Later(n) \cup Mounting
        /\ \/ Tail(todo) \in Seq(Later(n))
           \/ Head(todo).do = "import" /\ Tail(todo) \in Rests
    BY <2>1, <2>2, <2>3 DEF Mounting
  <2> QED BY <2>4, GoingOn
<1> QED BY <1>1, <1>2

(* A method that starts with a write changes nothing on the page.           *)
LEMMA WritesOK ==
  ASSUME NEW n \in Nat, NEW m \in Nat, NEW u, NEW catch \in {"none", "form", "act"},
         NEW w, w.do = "write", WriteOK(n, m, w), NEW todo, todo # << >>, Head(todo) = w,
         ThenOK(n, w, Tail(todo))
  PROVE  Page(u, todo) = u /\ TaskOK(n, m, Continued(u, todo, catch))
<1>1. ~Over(u, todo)
  BY DEF Over, Skipped
<1>2. Begun(u, w) = w /\ Clicked(u, w) = u
  BY DEF Begun, Clicked
<1>3. GotOK(n, m, w, << >>)
  BY DEF GotOK
<1>4. Continued(u, todo, catch) = [step |-> w, then |-> Tail(todo), got |-> << >>, catch |-> catch]
  BY <1>1, <1>2 DEF Continued
<1>5. StepOK(n, m, w)
  BY DEF StepOK
<1>6. Page(u, todo) = u
  BY <1>1, <1>2 DEF Page
<1> HIDE DEF Continued
<1> QED BY <1>3, <1>4, <1>5, <1>6 DEF TaskOK

-----------------------------------------------------------------------------
(* The steps of the server and of the network.                              *)

LEMMA Numbers ==
  ASSUME ServerOK
  PROVE  Contacts \in Nat /\ Deals \in Nat
BY ServerTypes

LEMMA TasksSetOK ==
  ASSUME NEW n \in Nat, NEW m \in Nat, NEW k \in Nat, NEW l \in Nat, n <= k, m <= l,
         NEW T, TasksOK(n, m, T), NEW t \in DOMAIN T, NEW x, TaskOK(k, l, x),
         NEW U, U = [T EXCEPT ![t] = x]
  PROVE  TasksOK(k, l, U)
<1>1. /\ U \in Seq(Elements(U)) /\ DOMAIN U = DOMAIN T /\ U[t] = x
      /\ \A v \in DOMAIN T \ {t} : U[v] = T[v]
  BY TaskSet DEF TasksOK
<1>2. ASSUME NEW v \in DOMAIN U
      PROVE  TaskOK(k, l, U[v])
  <2>1. CASE v = t
    BY <1>1, <2>1
  <2>2. CASE v # t
    BY <1>1, <2>2, TaskGrows DEF TasksOK
  <2> QED BY <2>1, <2>2
<1> QED BY <1>1, <1>2 DEF TasksOK

LEMMA TaskStepOK ==
  ASSUME NEW n \in Nat, NEW m \in Nat, NEW T, TasksOK(n, m, T), NEW t \in DOMAIN T,
         NEW x, TaskOK(n, m, x), NEW U, U = [T EXCEPT ![t] = x]
  PROVE  TasksOK(n, m, U)
<1>1. n <= n /\ m <= m
  OBVIOUS
<1> QED BY <1>1, TasksSetOK

LEMMA TasksAddOK ==
  ASSUME NEW n, NEW m, NEW T, TasksOK(n, m, T), NEW x, TaskOK(n, m, x),
         NEW U, U = Append(T, x)
  PROVE  TasksOK(n, m, U)
<1>1. /\ U \in Seq(Elements(U)) /\ DOMAIN U = 1..(Len(T) + 1)
      /\ \A t \in 1..Len(T) : U[t] = T[t]
      /\ U[Len(T) + 1] = x
  <2>1. T \in Seq(Elements(T))
    BY DEF TasksOK
  <2>2. Added(T, x, U)
    BY <2>1, TaskAdded
  <2> QED BY <2>2 DEF Added
<1>2. /\ DOMAIN T = 1..Len(T) /\ Len(T) \in Nat
      /\ \A t \in DOMAIN T : TaskOK(n, m, T[t])
  BY SeqOfElements DEF TasksOK
<1>3. ASSUME NEW v \in 1..(Len(T) + 1)
      PROVE  TaskOK(n, m, U[v])
  <2>1. CASE v \in 1..Len(T)
    BY <1>1, <1>2, <2>1
  <2>2. CASE v = Len(T) + 1
    BY <1>1, <2>2
  <2> QED BY <1>2, <2>1, <2>2
<1> QED BY <1>1, <1>3 DEF TasksOK

LEMMA MountStays ==
  ASSUME NEW T, MountOK(T), NEW U, 1 \in DOMAIN U, U[1].step = T[1].step, U[1].then = T[1].then
  PROVE  MountOK(U)
BY DEF MountOK, MountAt

LEMMA ServeKeeps ==
  ASSUME UiInv, NEW t \in DOMAIN tasks, NEW field \in Fields(tasks[t].step), Serve(t, field)
  PROVE  UiInv'
<1> DEFINE s == tasks[t].step
           ok == s.do = "write" /\ Accepted(s)
           answer == IF s.do # "write" THEN Answer(server, field, s)
                     ELSE [ok |-> ok, id |-> IF s.id = None THEN Len(server[s.kind]) + 1 ELSE s.id]
           more == [f \in {field} |-> answer]
           got == Spread(tasks[t].got, more)
           x == [tasks[t] EXCEPT !.got = got]
<1>1. /\ server' = IF ok THEN Carried(s) ELSE server
      /\ tasks' = [tasks EXCEPT ![t].got = got]
      /\ ui' = ui /\ lost' = lost
  BY DEF Serve
<1>2. /\ ServerOK /\ PageOK(Contacts, Deals, ui) /\ TasksOK(Contacts, Deals, tasks)
      /\ MountOK(tasks) /\ Contacts \in Nat /\ Deals \in Nat
      /\ TaskOK(Contacts, Deals, tasks[t])
  BY Numbers DEF UiInv, TasksOK
<1>3. /\ ServerOK' /\ Contacts <= Contacts' /\ Deals <= Deals'
      /\ GotOK(Contacts', Deals', s, more)
  <2>1. CASE s.do # "write"
    <3>1. server' = server
      BY <1>1, <2>1
    <3>2. Contacts' = Contacts /\ Deals' = Deals /\ ServerOK'
      BY <1>2, <3>1 DEF Contacts, Deals, ServerOK
    <3>3. StepOK(Contacts, Deals, s)
      BY <1>2 DEF TaskOK
    <3>4. GotOK(Contacts, Deals, s, [f \in {field} |-> Answer(server, field, s)])
      BY <1>2, <2>1, <3>3, AnswerOK
    <3>5. more = [f \in {field} |-> Answer(server, field, s)]
      BY <2>1
    <3> HIDE DEF more, s
    <3> QED BY <1>2, <3>2, <3>4, <3>5
  <2>2. CASE s.do = "write"
    <3>1. field = "saved"
      BY <2>2 DEF Fields
    <3>2. WriteOK(Contacts, Deals, s)
      BY <1>2, <2>2 DEF TaskOK, StepOK
    <3>3. CASE ok
      <4>1. server' = Carried(s) /\ Accepted(s)
        BY <1>1, <3>3
      <4>2. /\ ServerOK' /\ Contacts <= Contacts' /\ Deals <= Deals'
            /\ s.kind = "contact" =>
                 (IF s.id = None THEN Len(server[s.kind]) + 1 ELSE s.id) \in 1..Contacts'
        <5>1. ServerOK
          BY <1>2
        <5> HIDE DEF s
        <5> QED BY <3>2, <4>1, <5>1, CarriedOK
      <4>3. answer.ok /\ s.kind = "contact" => answer.id \in 1..Contacts'
        BY <2>2, <4>2
      <4> HIDE DEF answer, s
      <4>4. GotOK(Contacts', Deals', s, [f \in {"saved"} |-> answer])
        BY <2>2, <4>3, SavedOK
      <4> QED BY <3>1, <4>2, <4>4
    <3>4. CASE ~ok
      <4>1. server' = server /\ ~answer.ok
        BY <1>1, <2>2, <3>4
      <4>2. Contacts' = Contacts /\ Deals' = Deals /\ ServerOK'
        BY <1>2, <4>1 DEF Contacts, Deals, ServerOK
      <4> HIDE DEF answer, s
      <4>3. GotOK(Contacts', Deals', s, [f \in {"saved"} |-> answer])
        BY <2>2, <4>1, SavedOK
      <4> QED BY <1>2, <3>1, <4>2, <4>3
    <3> QED BY <3>3, <3>4
  <2> QED BY <2>1, <2>2
<1>4. Contacts' \in Nat /\ Deals' \in Nat
  BY <1>3, LenProperties DEF Contacts, Deals, ServerOK, Tables
<1> HIDE DEF answer, more
<1>5. GotOK(Contacts', Deals', s, got)
  <2>1. GotOK(Contacts, Deals, s, tasks[t].got)
    BY <1>2 DEF TaskOK
  <2>2. GotOK(Contacts', Deals', s, tasks[t].got)
    BY <1>2, <1>3, <1>4, <2>1, GotGrows
  <2> QED BY <1>3, <2>2, GotMore
<1> HIDE DEF got
<1>6. TaskOK(Contacts', Deals', x)
  <2>1. TaskOK(Contacts', Deals', tasks[t])
    BY <1>2, <1>3, <1>4, TaskGrows
  <2>2. /\ DOMAIN x = DOMAIN tasks[t] /\ x.step = s /\ x.then = tasks[t].then
        /\ x.got = got /\ x.catch = tasks[t].catch
    BY <2>1 DEF TaskOK
  <2> HIDE DEF x
  <2> QED BY <1>5, <2>1, <2>2 DEF TaskOK
<1>7. tasks' = [tasks EXCEPT ![t] = x]
  BY <1>1
<1>8. x.step = tasks[t].step /\ x.then = tasks[t].then
  BY <1>2 DEF TaskOK
<1> HIDE DEF x
<1>9. TasksOK(Contacts', Deals', tasks')
  BY <1>2, <1>3, <1>4, <1>6, <1>7, TasksSetOK
<1>10. MountOK(tasks')
  <2>1. 1 \in DOMAIN tasks'
    BY <1>2, <1>7 DEF MountOK
  <2>2. tasks'[1].step = tasks[1].step /\ tasks'[1].then = tasks[1].then
    BY <1>2, <1>7, <1>8 DEF MountOK
  <2> QED BY <1>2, <2>1, <2>2, MountStays
<1>11. PageOK(Contacts', Deals', ui')
  BY <1>1, <1>2, <1>3, <1>4, PageGrows
<1>12. lost' \in BOOLEAN
  BY <1>1 DEF UiInv
<1> QED BY <1>3, <1>9, <1>10, <1>11, <1>12 DEF UiInv

LEMMA ClosedOK ==
  ASSUME NEW n, NEW m, NEW u, PageOK(n, m, u)
  PROVE  PageOK(n, m, Closed(u))
<1> DEFINE v == Closed(u)
<1>1. /\ DOMAIN v = DOMAIN u /\ v.form = NoForm /\ v.formError = Blank
      /\ v.contacts = u.contacts /\ v.allDeals = u.allDeals /\ v.contact = u.contact
      /\ v.activities = u.activities /\ v.contactDeals = u.contactDeals
      /\ v.selectedId = u.selectedId /\ v.dragging = u.dragging
      /\ v.actNote = u.actNote /\ v.actError = u.actError
  BY DEF PageOK, PageFields, Closed
<1> HIDE DEF v
<1>2. PageOK(n, m, v)
  BY <1>1 DEF PageOK, FormOK
<1> QED BY <1>2 DEF v

(* The page after an answer: the three parts of a contact come together.    *)
LEMMA ShownOK ==
  ASSUME UiInv, NEW t \in DOMAIN tasks, Answered(t)
  PROVE  PageOK(Contacts, Deals, Shown(ui, t))
<1> DEFINE s == tasks[t].step
           got == tasks[t].got
           v == Shown(ui, t)
<1>1. /\ PageOK(Contacts, Deals, ui) /\ TaskOK(Contacts, Deals, tasks[t])
  BY DEF UiInv, TasksOK
<1>2. DOMAIN got = Fields(s) /\ GotOK(Contacts, Deals, s, got) /\ StepOK(Contacts, Deals, s)
      /\ s.do # "none"
  BY <1>1 DEF Answered, Running, TaskOK
<1>3. CASE s.do = "write"
  <2>1. v = Saved(ui, s)
    BY <1>3 DEF Shown
  <2>2. CASE s.kind = "activity"
    <3>0. DOMAIN s.values # {"stage"}
      <4>1. s.values \in [contact : Nat, note : STRING]
        BY <1>2, <1>3, <2>2 DEF StepOK, WriteOK
      <4> QED BY <4>1
    <3>1. v = [ui EXCEPT !.actNote = Blank, !.actError = Blank]
      BY <2>1, <2>2, <3>0 DEF Saved
    <3>2. /\ DOMAIN v = DOMAIN ui /\ v.form = ui.form /\ v.formError = ui.formError
          /\ v.contacts = ui.contacts /\ v.allDeals = ui.allDeals /\ v.contact = ui.contact
          /\ v.activities = ui.activities /\ v.contactDeals = ui.contactDeals
          /\ v.selectedId = ui.selectedId /\ v.dragging = ui.dragging
          /\ v.actNote = Blank /\ v.actError = Blank
      BY <1>1, <3>1 DEF PageOK, PageFields
    <3> HIDE DEF v, s
    <3>3. PageOK(Contacts, Deals, v)
      BY <1>1, <3>2, BlankIsText DEF PageOK
    <3> QED BY <3>3 DEF v
  <2>3. CASE s.kind # "activity" /\ DOMAIN s.values = {"stage"}
    BY <1>1, <2>1, <2>3 DEF Saved
  <2>4. CASE s.kind # "activity" /\ DOMAIN s.values # {"stage"}
    <3>1. v = Closed(ui)
      BY <2>1, <2>4 DEF Saved
    <3>2. PageOK(Contacts, Deals, Closed(ui))
      BY <1>1, ClosedOK
    <3> QED BY <3>1, <3>2
  <2> QED BY <2>2, <2>3, <2>4
<1>4. CASE s.do # "write"
  <2>1. v = [f \in DOMAIN ui |-> IF f \in DOMAIN got THEN got[f] ELSE ui[f]]
    BY <1>4 DEF Shown
  <2>2. DOMAIN v = PageFields /\ \A f \in PageFields : v[f] = IF f \in Fields(s) THEN got[f] ELSE ui[f]
    BY <1>1, <1>2, <2>1 DEF PageOK
  <2> HIDE DEF s, got, v
  <2>3. /\ DOMAIN v = PageFields
        /\ v.form = ui.form /\ v.formError = ui.formError
        /\ v.selectedId = ui.selectedId /\ v.dragging = ui.dragging
        /\ v.actNote = ui.actNote /\ v.actError = ui.actError
    BY <1>2, <1>4, <2>2 DEF PageFields, Fields, StepOK
  <2>4. /\ DOMAIN v.contacts \subseteq 1..Contacts /\ DealsOK(Contacts, Deals, v.allDeals)
        /\ v.contact.id \in 0..Contacts /\ (v.contact.id # None => v.contact.name \in STRING)
        /\ OneContact(v.contact, v.activities, v.contactDeals)
        /\ DealsOK(Contacts, Deals, v.contactDeals.rows)
    <3>0. /\ DOMAIN ui.contacts \subseteq 1..Contacts /\ DealsOK(Contacts, Deals, ui.allDeals)
          /\ ui.contact.id \in 0..Contacts /\ (ui.contact.id # None => ui.contact.name \in STRING)
          /\ OneContact(ui.contact, ui.activities, ui.contactDeals)
          /\ DealsOK(Contacts, Deals, ui.contactDeals.rows)
      BY <1>1 DEF PageOK
    <3>1. CASE s.do = "contacts"
      <4>1. /\ v.contacts = got.contacts /\ v.allDeals = ui.allDeals /\ v.contact = ui.contact
            /\ v.activities = ui.activities /\ v.contactDeals = ui.contactDeals
            /\ "contacts" \in DOMAIN got
        BY <1>2, <2>2, <3>1 DEF PageFields, Fields
      <4>2. DOMAIN got.contacts \subseteq 1..Contacts
        BY <1>2, <4>1 DEF GotOK
      <4> QED BY <3>0, <4>1, <4>2
    <3>2. CASE s.do = "deals"
      <4>1. /\ v.contacts = ui.contacts /\ v.allDeals = got.allDeals /\ v.contact = ui.contact
            /\ v.activities = ui.activities /\ v.contactDeals = ui.contactDeals
            /\ "allDeals" \in DOMAIN got
        BY <1>2, <2>2, <3>2 DEF PageFields, Fields
      <4>2. DealsOK(Contacts, Deals, got.allDeals)
        BY <1>2, <4>1 DEF GotOK
      <4> QED BY <3>0, <4>1, <4>2
    <3>3. CASE s.do = "select"
      <4>1. /\ v.contacts = ui.contacts /\ v.allDeals = ui.allDeals /\ v.contact = got.contact
            /\ v.activities = got.activities /\ v.contactDeals = got.contactDeals
            /\ {"contact", "activities", "contactDeals"} \subseteq DOMAIN got
        BY <1>2, <2>2, <3>3 DEF PageFields, Fields
      <4>2. /\ got.contact.id = s.id /\ got.contact.name \in STRING
            /\ got.activities.of = s.id /\ got.contactDeals.of = s.id
            /\ DealsOK(Contacts, Deals, got.contactDeals.rows)
        BY <1>2, <4>1 DEF GotOK
      <4>3. s.id \in 0..Contacts
        <5>1. s.id \in 1..Contacts
          BY <1>2, <3>3 DEF StepOK
        <5> QED BY <5>1
      <4> QED BY <3>0, <4>1, <4>2, <4>3 DEF OneContact
    <3>4. CASE s.do = "import"
      <4>1. /\ v.contacts = ui.contacts /\ v.allDeals = ui.allDeals /\ v.contact = ui.contact
            /\ v.activities = ui.activities /\ v.contactDeals = ui.contactDeals
        BY <1>2, <2>2, <3>4 DEF PageFields, Fields, StepOK
      <4> QED BY <3>0, <4>1
    <3> QED BY <1>2, <1>4, <3>1, <3>2, <3>3, <3>4 DEF StepOK
  <2>5. PageOK(Contacts, Deals, v)
    BY <1>1, <2>3, <2>4 DEF PageOK
  <2> QED BY <2>5 DEF v
<1> QED BY <1>3, <1>4

(* The steps left may all follow: a saved contact has an id.                *)
LEMMA LeftOK ==
  ASSUME UiInv, NEW t \in DOMAIN tasks, Answered(t),
         tasks[t].step.do = "write" => tasks[t].got.saved.ok
  PROVE  /\ Left(t) \in Seq(Later(Contacts)) \cup Rests
         /\ tasks[t].step.do # "write" => Left(t) = tasks[t].then
<1> DEFINE s == tasks[t].step
           todo == tasks[t].then
           id == tasks[t].got.saved.id
<1>1. TaskOK(Contacts, Deals, tasks[t])
  BY DEF UiInv, TasksOK
<1>2. Left(t) = [i \in DOMAIN todo |-> IF todo[i] = Select(None) THEN Select(id) ELSE todo[i]]
  BY DEF Left
<1>3. Select(None) \notin Later(Contacts)
  <2>1. Select(None).do = "select" /\ Select(None).id = 0
    BY DEF Select, None
  <2>2. Contacts \in Nat
    BY Numbers DEF UiInv
  <2> HIDE DEF Select
  <2>3. ASSUME Select(None) \in Later(Contacts)
        PROVE  Select(None).id \in 1..Contacts
    <3>1. PICK r \in Later(Contacts) : r = Select(None)
      BY <2>3
    <3> QED BY <2>1, <2>2, <3>1, Laters
  <2> QED BY <2>1, <2>3
<1>4. CASE todo \in Seq(Later(Contacts))
  <2>1. /\ todo \in [1..Len(todo) -> Later(Contacts)] /\ DOMAIN todo = 1..Len(todo)
    BY <1>4, LenProperties
  <2>2. \A i \in DOMAIN todo : todo[i] # Select(None)
    BY <1>3, <2>1
  <2> HIDE DEF todo, id
  <2>3. Left(t) = [i \in DOMAIN todo |-> todo[i]]
    BY <1>2, <2>2
  <2>4. Left(t) = todo
    BY <2>1, <2>3
  <2> QED BY <1>4, <2>4 DEF todo
<1>5. CASE s.do = "write" /\ s.kind = "contact" /\ todo \in Seq(Later(Contacts) \cup {Select(None)})
  <2>1. id \in 1..Contacts
    <3>1. "saved" \in DOMAIN tasks[t].got
      BY <1>5 DEF Answered, Fields
    <3>2. GotOK(Contacts, Deals, s, tasks[t].got)
      BY <1>1 DEF TaskOK
    <3> QED BY <1>5, <3>1, <3>2 DEF GotOK
  <2>2. Select(id) \in Later(Contacts)
    BY <2>1 DEF Later
  <2>3. /\ todo \in [1..Len(todo) -> Later(Contacts) \cup {Select(None)}]
        /\ DOMAIN todo = 1..Len(todo) /\ Len(todo) \in Nat
    BY <1>5, LenProperties
  <2> HIDE DEF todo, id
  <2>4. Left(t) \in [1..Len(todo) -> Later(Contacts)]
    BY <1>2, <2>2, <2>3
  <2>5. Left(t) \in Seq(Later(Contacts))
    BY <2>3, <2>4, SeqDef
  <2> QED BY <1>5, <2>5
<1>6. CASE s.do = "import" /\ todo \in Rests
  <2>1. todo \in Seq(Mounting \cup {RefreshDeals})
    <3> DEFINE S == Mounting \cup {RefreshDeals}
               a == Import("tests")
               b == RefreshContacts(TRUE)
               c == RefreshDeals
    <3>1. a \in S /\ b \in S /\ c \in S
      BY DEF Mounting
    <3>2. todo = <<a, b, c>> \/ todo = <<b, c>>
      BY <1>6 DEF Rests
    <3> HIDE DEF S, a, b, c
    <3>3. <<a, b, c>> \in Seq(S) /\ <<b, c>> \in Seq(S)
      BY <3>1
    <3>4. todo \in Seq(S)
      BY <3>2, <3>3
    <3> QED BY <3>4 DEF S
  <2>2. Select(None) \notin Mounting \cup {RefreshDeals}
    BY DEF Mounting, Import, RefreshContacts, RefreshDeals, Select
  <2>3. todo \in [1..Len(todo) -> Mounting \cup {RefreshDeals}] /\ DOMAIN todo = 1..Len(todo)
    BY <2>1, LenProperties
  <2>4. \A i \in DOMAIN todo : todo[i] # Select(None)
    BY <2>2, <2>3
  <2> HIDE DEF todo, id
  <2>5. Left(t) = [i \in DOMAIN todo |-> todo[i]]
    BY <1>2, <2>4
  <2>6. Left(t) = todo
    BY <2>3, <2>5
  <2> QED BY <1>6, <2>6 DEF todo
<1> QED BY <1>1, <1>4, <1>5, <1>6 DEF TaskOK, ThenOK

(* The mount goes on to its next step, with what is left.                   *)
LEMMA MountGoesOn ==
  ASSUME NEW T, MountOK(T), NEW u, NEW catch, NEW x, x = Continued(u, T[1].then, catch)
  PROVE  MountAt(x)
<1>0. CASE T[1].then \in Rests
  <2> DEFINE todo == T[1].then
             h == Head(todo)
  <2>1. /\ todo # << >>
        /\ \/ h = Import("tests") /\ Tail(todo) = <<RefreshContacts(TRUE), RefreshDeals>>
           \/ h = RefreshContacts(TRUE) /\ Tail(todo) = <<RefreshDeals>>
    BY <1>0, RestsBegin
  <2>2. h = Import("tests") => h.do = "import" /\ Begun(u, h) = h /\ ~Skipped(u, h)
    BY DEF Import, Begun, Skipped
  <2>3. h = RefreshContacts(TRUE) => Begun(u, h).do = "contacts" /\ ~Skipped(u, h)
    BY DEF RefreshContacts, Begun, Skipped, Spread
  <2>4. x.step = Begun(u, h) /\ x.then = Tail(todo)
    <3> HIDE DEF h
    <3>1. ~Over(u, todo)
      BY <2>1, <2>2, <2>3 DEF Over, h
    <3> QED BY <3>1 DEF Continued, h
  <2> HIDE DEF h, todo
  <2> QED BY <2>1, <2>2, <2>3, <2>4 DEF MountAt, Rests
<1>1. CASE T[1].then = << >>
  BY <1>1 DEF Continued, Over, Ended, MountAt
<1>2. CASE T[1].then = <<RefreshDeals>>
  <2>1. /\ <<RefreshDeals>> # << >> /\ Head(<<RefreshDeals>>) = RefreshDeals
        /\ Tail(<<RefreshDeals>>) = << >>
    OBVIOUS
  <2>2. ~Over(u, <<RefreshDeals>>) /\ Begun(u, RefreshDeals) = RefreshDeals
    BY <2>1 DEF Over, Skipped, Begun, RefreshDeals
  <2>3. x.step = RefreshDeals /\ x.then = << >>
    BY <1>2, <2>1, <2>2 DEF Continued
  <2> QED BY <2>3 DEF RefreshDeals, MountAt
<1> QED BY <1>0, <1>1, <1>2 DEF MountOK, MountAt

(* Task t is set to x, and perhaps a task is added.                         *)
LEMMA MountSet ==
  ASSUME NEW T, MountOK(T), T \in Seq(Elements(T)), NEW t \in DOMAIN T, NEW x, NEW U,
         U = [T EXCEPT ![t] = x],
         t = 1 => MountAt(x)
  PROVE  MountOK(U)
<1>1. /\ DOMAIN U = DOMAIN T /\ U[t] = x
      /\ \A v \in DOMAIN T \ {t} : U[v] = T[v]
  BY TaskSet
<1>2. CASE t = 1
  BY <1>1, <1>2 DEF MountOK
<1>3. CASE t # 1
  <2>1. 1 \in DOMAIN U /\ U[1] = T[1]
    BY <1>1, <1>3 DEF MountOK
  <2> QED BY <2>1, MountStays
<1> QED BY <1>2, <1>3

LEMMA MountAdd ==
  ASSUME NEW T, MountOK(T), T \in Seq(Elements(T)), NEW x, NEW U, U = Append(T, x)
  PROVE  MountOK(U)
<1>1. Added(T, x, U)
  BY TaskAdded
<1>2. DOMAIN T = 1..Len(T) /\ Len(T) \in Nat
  BY SeqOfElements
<1>3. 1 \in DOMAIN U /\ U[1] = T[1]
  BY <1>1, <1>2 DEF Added, MountOK
<1> QED BY <1>3, MountStays

(* What a step that the server has no part in keeps.                        *)
LEMMA SameServer ==
  ASSUME UiInv, server' = server, PageOK(Contacts, Deals, ui'), TasksOK(Contacts, Deals, tasks'),
         MountOK(tasks'), lost' \in BOOLEAN
  PROVE  UiInv'
<1>1. Contacts' = Contacts /\ Deals' = Deals /\ ServerOK'
  BY DEF Contacts, Deals, ServerOK, UiInv
<1> QED BY <1>1 DEF UiInv

LEMMA ResumeKeeps ==
  ASSUME UiInv, NEW t \in DOMAIN tasks, Resume(t)
  PROVE  UiInv'
<1> DEFINE v == Shown(ui, t)
           todo == Left(t)
           catch == tasks[t].catch
<1>1. /\ Answered(t) /\ (tasks[t].step.do = "write" => tasks[t].got.saved.ok)
      /\ Contacts \in Nat /\ Deals \in Nat /\ TasksOK(Contacts, Deals, tasks) /\ MountOK(tasks)
      /\ PageOK(Contacts, Deals, ui) /\ TaskOK(Contacts, Deals, tasks[t])
      /\ catch \in {"none", "form", "act"}
  BY Numbers DEF Resume, CarriedOut, UiInv, TasksOK, TaskOK
<1>2. PageOK(Contacts, Deals, v)
  BY <1>1, ShownOK
<1>3. todo \in Seq(Later(Contacts)) \cup Rests /\ (t = 1 => todo = tasks[1].then)
  BY <1>1, LeftOK DEF MountOK, MountAt
<1>4. ASSUME NEW u, PageOK(Contacts, Deals, u), NEW x, x = Continued(u, todo, catch)
      PROVE  /\ PageOK(Contacts, Deals, Page(u, todo)) /\ TaskOK(Contacts, Deals, x)
             /\ t = 1 => MountAt(x)
  <2>1. PageOK(Contacts, Deals, Page(u, todo)) /\ TaskOK(Contacts, Deals, Continued(u, todo, catch))
    <3> HIDE DEF todo, catch
    <3> QED BY <1>1, <1>3, <1>4, GoesOnOK
  <2>2. t = 1 => MountAt(x)
    <3>1. t = 1 => x = Continued(u, tasks[1].then, catch)
      BY <1>3, <1>4
    <3> QED BY <1>1, <3>1, MountGoesOn
  <2> QED BY <1>4, <2>1, <2>2
<1>5. ASSUME NEW x, NEW U, U = [tasks EXCEPT ![t] = x], TaskOK(Contacts, Deals, x),
             t = 1 => MountAt(x)
      PROVE  TasksOK(Contacts, Deals, U) /\ MountOK(U)
  <2>1. TasksOK(Contacts, Deals, U)
    BY <1>1, <1>5, TaskStepOK
  <2>2. tasks \in Seq(Elements(tasks))
    BY <1>1 DEF TasksOK
  <2> QED BY <1>1, <1>5, <2>1, <2>2, MountSet
<1>6. CASE SelectsFirst(t)
  <2>1. PICK c \in DOMAIN tasks[t].got.contacts :
          LET u == Clicked(v, Select(c))
          IN  /\ ui' = Page(u, todo)
              /\ tasks' = Append([tasks EXCEPT ![t] = Continued(u, todo, @.catch)],
                                 Continued(u, <<Select(c)>>, "none"))
              /\ UNCHANGED <<server, lost>>
    BY <1>6, Zenon DEF Resume
  <2> DEFINE u == Clicked(v, Select(c))
             x == Continued(u, todo, catch)
             y == Continued(u, <<Select(c)>>, "none")
             U == [tasks EXCEPT ![t] = x]
  <2>2. ui' = Page(u, todo) /\ tasks' = Append(U, y) /\ server' = server /\ lost' = lost
    BY <2>1
  <2>3. c \in 1..Contacts
    <3>1. "contacts" \in DOMAIN tasks[t].got
      BY <1>1, <1>6 DEF Answered, Fields, SelectsFirst
    <3>2. GotOK(Contacts, Deals, tasks[t].step, tasks[t].got)
      BY <1>1 DEF TaskOK
    <3> QED BY <3>1, <3>2 DEF GotOK
  <2>4. /\ Select(c) \in Later(Contacts) /\ <<Select(c)>> \in Seq(Later(Contacts))
        /\ Select(c).do = "select" /\ Select(c).id = c
    BY <2>3, SelectIsLater DEF Select
  <2>5. PageOK(Contacts, Deals, u)
    <3>1. Begun(v, Select(c)).id = c
      BY <2>4 DEF Begun
    <3>2. u = [v EXCEPT !.selectedId = c, !.actNote = Blank, !.actError = Blank]
      BY <2>4, <3>1 DEF Clicked
    <3> HIDE DEF u, v
    <3> QED BY <1>1, <1>2, <2>3, <3>2, ClickedOK
  <2> HIDE DEF u
  <2>6. TaskOK(Contacts, Deals, y)
    BY <1>1, <2>4, <2>5, GoesOnOK
  <2>7. /\ PageOK(Contacts, Deals, Page(u, todo)) /\ TaskOK(Contacts, Deals, x)
        /\ t = 1 => MountAt(x)
    BY <1>4, <2>5
  <2> HIDE DEF x, y, todo
  <2>8. TasksOK(Contacts, Deals, U) /\ MountOK(U)
    BY <1>5, <2>7
  <2>9. TasksOK(Contacts, Deals, tasks') /\ MountOK(tasks')
    <3>1. U \in Seq(Elements(U))
      BY <2>8 DEF TasksOK
    <3> HIDE DEF U
    <3> QED BY <2>2, <2>6, <2>8, <3>1, TasksAddOK, MountAdd
  <2>10. lost' \in BOOLEAN /\ PageOK(Contacts, Deals, ui') /\ server' = server
    BY <2>2, <2>7 DEF UiInv
  <2> QED BY <2>9, <2>10, SameServer
<1>7. CASE ~SelectsFirst(t)
  <2> DEFINE x == Continued(v, todo, catch)
  <2>1. ui' = Page(v, todo) /\ tasks' = [tasks EXCEPT ![t] = x] /\ server' = server /\ lost' = lost
    BY <1>7 DEF Resume, GoesOn
  <2>2. /\ PageOK(Contacts, Deals, Page(v, todo)) /\ TaskOK(Contacts, Deals, x)
        /\ t = 1 => MountAt(x)
    BY <1>2, <1>4
  <2> HIDE DEF x, v, todo
  <2>3. TasksOK(Contacts, Deals, tasks') /\ MountOK(tasks')
    BY <1>5, <2>1, <2>2
  <2>4. lost' \in BOOLEAN /\ PageOK(Contacts, Deals, ui') /\ server' = server
    BY <2>1, <2>2 DEF UiInv
  <2> QED BY <2>3, <2>4, SameServer
<1> QED BY <1>6, <1>7

(* What a catch tells the page.                                             *)
LEMMA CaughtOK ==
  ASSUME NEW n, NEW m, NEW u, PageOK(n, m, u), NEW catch
  PROVE  PageOK(n, m, Caught(u, catch))
<1> DEFINE v == Caught(u, catch)
<1>1. /\ DOMAIN v = DOMAIN u /\ v.form = u.form
      /\ v.contacts = u.contacts /\ v.allDeals = u.allDeals /\ v.contact = u.contact
      /\ v.activities = u.activities /\ v.contactDeals = u.contactDeals
      /\ v.selectedId = u.selectedId /\ v.dragging = u.dragging /\ v.actNote = u.actNote
      /\ v.formError \in {"error", u.formError} /\ v.actError \in {"error", u.actError}
  <2>1. \/ v = [u EXCEPT !.formError = "error"] \/ v = [u EXCEPT !.actError = "error"]
        \/ v = u
    BY DEF Caught
  <2> HIDE DEF v
  <2> QED BY <2>1 DEF PageOK, PageFields
<1> HIDE DEF v
<1>2. PageOK(n, m, v)
  BY <1>1 DEF PageOK
<1> QED BY <1>2 DEF v

(* A method that fails ends, and its catch tells the page.                  *)
LEMMA ThrowsKeeps ==
  ASSUME UiInv, NEW t \in DOMAIN tasks, Throws(t), lost' \in BOOLEAN
  PROVE  UiInv'
<1> DEFINE v == Caught(ui, tasks[t].catch)
<1>1. /\ Contacts \in Nat /\ Deals \in Nat /\ TasksOK(Contacts, Deals, tasks) /\ MountOK(tasks)
      /\ PageOK(Contacts, Deals, ui) /\ tasks \in Seq(Elements(tasks))
  BY Numbers DEF UiInv, TasksOK
<1>2. ui' = v /\ tasks' = [tasks EXCEPT ![t] = Ended] /\ server' = server
  BY DEF Throws
<1>3. PageOK(Contacts, Deals, v)
  BY <1>1, CaughtOK
<1> HIDE DEF v
<1>4. TaskOK(Contacts, Deals, Ended) /\ MountAt(Ended)
  BY EndedOK DEF Ended, MountAt
<1> HIDE DEF Ended
<1>5. TasksOK(Contacts, Deals, tasks') /\ MountOK(tasks')
  BY <1>1, <1>2, <1>4, TaskStepOK, MountSet
<1> QED BY <1>2, <1>3, <1>5, SameServer

-----------------------------------------------------------------------------
(* What the user does.                                                      *)

LEMMA SetsKeeps ==
  ASSUME UiInv, NEW u, PageOK(Contacts, Deals, u), Sets(u)
  PROVE  UiInv'
<1>1. ui' = u /\ server' = server /\ tasks' = tasks /\ lost' = lost
  BY DEF Sets
<1> QED BY <1>1, SameServer DEF UiInv

LEMMA CallsKeeps ==
  ASSUME UiInv, NEW u, NEW todo, NEW catch, PageOK(Contacts, Deals, Page(u, todo)),
         TaskOK(Contacts, Deals, Continued(u, todo, catch)), Calls(u, todo, catch)
  PROVE  UiInv'
<1> DEFINE x == IF u.api THEN Continued(u, todo, catch) ELSE Ended
           v == IF u.api THEN Page(u, todo) ELSE Caught(Page(u, todo), catch)
<1>1. ui' = v /\ server' = server /\ tasks' = Append(tasks, x) /\ lost' = lost
  BY DEF Calls
<1>2. TasksOK(Contacts, Deals, tasks) /\ MountOK(tasks) /\ tasks \in Seq(Elements(tasks))
  BY DEF UiInv, TasksOK
<1>3. TaskOK(Contacts, Deals, x)
  BY EndedOK
<1>4. PageOK(Contacts, Deals, v)
  BY CaughtOK
<1> HIDE DEF x, v
<1>5. TasksOK(Contacts, Deals, tasks')
  BY <1>1, <1>2, <1>3, TasksAddOK
<1>6. MountOK(tasks')
  BY <1>1, <1>2, MountAdd
<1>7. PageOK(Contacts, Deals, ui') /\ lost' \in BOOLEAN /\ server' = server
  BY <1>1, <1>4 DEF UiInv
<1> QED BY <1>5, <1>6, <1>7, SameServer

(* The user calls a method that reads.                                      *)
LEMMA ReadsKeep ==
  ASSUME UiInv, NEW u, PageOK(Contacts, Deals, u), NEW todo \in Seq(Later(Contacts)),
         Calls(u, todo, "none")
  PROVE  UiInv'
<1>1. Contacts \in Nat /\ Deals \in Nat
  BY Numbers DEF UiInv
<1>2. PageOK(Contacts, Deals, Page(u, todo)) /\ TaskOK(Contacts, Deals, Continued(u, todo, "none"))
  BY <1>1, GoesOnOK
<1> QED BY <1>2, CallsKeeps

(* ... or one that writes.                                                  *)
LEMMA WritesKeep ==
  ASSUME UiInv, NEW u, PageOK(Contacts, Deals, u), NEW w, w.do = "write",
         WriteOK(Contacts, Deals, w), NEW todo, todo # << >>, Head(todo) = w,
         ThenOK(Contacts, w, Tail(todo)), NEW catch \in {"none", "form", "act"},
         Calls(u, todo, catch)
  PROVE  UiInv'
<1>1. Contacts \in Nat /\ Deals \in Nat
  BY Numbers DEF UiInv
<1>2. Page(u, todo) = u /\ TaskOK(Contacts, Deals, Continued(u, todo, catch))
  BY <1>1, WritesOK
<1> QED BY <1>2, CallsKeeps

LEMMA FirstAndRest ==
  ASSUME NEW S, NEW rest \in Seq(S), NEW w
  PROVE  /\ <<w>> \o rest # << >> /\ Head(<<w>> \o rest) = w
         /\ Tail(<<w>> \o rest) = rest
<1> DEFINE A == S \cup {w}
           s == <<w>> \o rest
<1>1. <<w>> \in Seq(A) /\ rest \in Seq(A) /\ Len(<<w>>) = 1 /\ <<w>>[1] = w
  BY SeqMonotonic
<1>2. Len(rest) \in Nat
  BY LenProperties
<1>3. /\ s \in Seq(A) /\ Len(s) = 1 + Len(rest)
      /\ \A i \in 1..(1 + Len(rest)) : s[i] = IF i <= 1 THEN <<w>>[i] ELSE rest[i - 1]
  BY <1>1, ConcatProperties
<1>4. s[1] = w /\ \A i \in 1..Len(rest) : s[i + 1] = rest[i]
  BY <1>1, <1>2, <1>3
<1> HIDE DEF s, A
<1>5. s # << >>
  BY <1>2, <1>3, EmptySeq
<1>6. Head(s) = w
  BY <1>4, <1>5
<1>7. /\ Tail(s) \in Seq(A) /\ Len(Tail(s)) = Len(s) - 1
      /\ \A i \in 1..Len(Tail(s)) : Tail(s)[i] = s[i + 1]
  BY <1>3, <1>5, HeadTailProperties
<1>8. Len(Tail(s)) = Len(rest)
  BY <1>2, <1>3, <1>7
<1>9. Tail(s) = rest
  BY <1>1, <1>4, <1>7, <1>8, SeqEqual
<1> QED BY <1>5, <1>6, <1>9 DEF s

(* One more field of the page is set.                                       *)
LEMMA OpenedOK ==
  ASSUME UiInv, NEW f, FormOK(Contacts, Deals, f)
  PROVE  PageOK(Contacts, Deals, Opened(f))
<1> DEFINE v == Opened(f)
<1>1. PageOK(Contacts, Deals, ui)
  BY DEF UiInv
<1>2. /\ DOMAIN v = DOMAIN ui /\ v.form = f /\ v.formError = Blank
      /\ v.contacts = ui.contacts /\ v.allDeals = ui.allDeals /\ v.contact = ui.contact
      /\ v.activities = ui.activities /\ v.contactDeals = ui.contactDeals
      /\ v.selectedId = ui.selectedId /\ v.dragging = ui.dragging
      /\ v.actNote = ui.actNote /\ v.actError = ui.actError
  BY <1>1 DEF PageOK, PageFields, Opened
<1> HIDE DEF v
<1>3. PageOK(Contacts, Deals, v)
  BY <1>1, <1>2 DEF PageOK
<1> QED BY <1>3 DEF v

LEMMA DraggingOK ==
  ASSUME UiInv, NEW d \in 0..Deals
  PROVE  PageOK(Contacts, Deals, [ui EXCEPT !.dragging = d])
<1> DEFINE v == [ui EXCEPT !.dragging = d]
<1>1. PageOK(Contacts, Deals, ui)
  BY DEF UiInv
<1>2. /\ DOMAIN v = DOMAIN ui /\ v.form = ui.form /\ v.formError = ui.formError
      /\ v.contacts = ui.contacts /\ v.allDeals = ui.allDeals /\ v.contact = ui.contact
      /\ v.activities = ui.activities /\ v.contactDeals = ui.contactDeals
      /\ v.selectedId = ui.selectedId /\ v.dragging = d
      /\ v.actNote = ui.actNote /\ v.actError = ui.actError
  BY <1>1 DEF PageOK, PageFields
<1> HIDE DEF v
<1>3. PageOK(Contacts, Deals, v)
  BY <1>1, <1>2 DEF PageOK
<1> QED BY <1>3 DEF v

LEMMA TextsOK ==
  ASSUME UiInv, NEW text
  PROVE  /\ text \in STRING => PageOK(Contacts, Deals, [ui EXCEPT !.actNote = text])
         /\ PageOK(Contacts, Deals, [ui EXCEPT !.search = text])
<1> DEFINE v == [ui EXCEPT !.actNote = text]
           w == [ui EXCEPT !.search = text]
<1>1. PageOK(Contacts, Deals, ui)
  BY DEF UiInv
<1>2. /\ DOMAIN v = DOMAIN ui /\ v.form = ui.form /\ v.formError = ui.formError
      /\ v.contacts = ui.contacts /\ v.allDeals = ui.allDeals /\ v.contact = ui.contact
      /\ v.activities = ui.activities /\ v.contactDeals = ui.contactDeals
      /\ v.selectedId = ui.selectedId /\ v.dragging = ui.dragging
      /\ v.actNote = text /\ v.actError = ui.actError
  BY <1>1 DEF PageOK, PageFields
<1>3. /\ DOMAIN w = DOMAIN ui /\ w.form = ui.form /\ w.formError = ui.formError
      /\ w.contacts = ui.contacts /\ w.allDeals = ui.allDeals /\ w.contact = ui.contact
      /\ w.activities = ui.activities /\ w.contactDeals = ui.contactDeals
      /\ w.selectedId = ui.selectedId /\ w.dragging = ui.dragging
      /\ w.actNote = ui.actNote /\ w.actError = ui.actError
  BY <1>1 DEF PageOK, PageFields
<1> HIDE DEF v, w
<1>4. text \in STRING => PageOK(Contacts, Deals, v)
  BY <1>1, <1>2 DEF PageOK
<1>5. PageOK(Contacts, Deals, w)
  BY <1>1, <1>3 DEF PageOK
<1> QED BY <1>4, <1>5 DEF v, w

LEMMA SelectContactKeeps ==
  ASSUME UiInv, NEW c \in DOMAIN server.contact, SelectContact(c)
  PROVE  UiInv'
<1>1. c \in 1..Contacts /\ PageOK(Contacts, Deals, ui)
  BY ServerTypes DEF UiInv
<1>2. <<Select(c)>> \in Seq(Later(Contacts))
  BY <1>1, SelectIsLater
<1>3. Calls(ui, <<Select(c)>>, "none")
  BY DEF SelectContact
<1> QED BY <1>1, <1>2, <1>3, ReadsKeep

LEMMA OnSearchKeeps ==
  ASSUME UiInv, NEW text, OnSearch(text)
  PROVE  UiInv'
<1> DEFINE u == [ui EXCEPT !.search = text]
           todo == <<RefreshContacts(FALSE)>>
<1>1. PageOK(Contacts, Deals, u)
  BY TextsOK
<1>2. todo \in Seq(Later(Contacts))
  BY DEF Later
<1>3. Calls(u, todo, "none")
  BY DEF OnSearch
<1> HIDE DEF u, todo
<1> QED BY <1>1, <1>2, <1>3, ReadsKeep

LEMMA TypeNoteKeeps ==
  ASSUME UiInv, NEW text \in Notes, TypeNote(text)
  PROVE  UiInv'
<1> DEFINE u == [ui EXCEPT !.actNote = text]
<1>1. PageOK(Contacts, Deals, u)
  BY TextsOK, UiAssumption
<1>2. Sets(u)
  BY DEF TypeNote
<1> HIDE DEF u
<1> QED BY <1>1, <1>2, SetsKeeps

LEMMA LogActivityKeeps ==
  ASSUME UiInv, LogActivity
  PROVE  UiInv'
<1> DEFINE values == [contact |-> ui.selectedId, note |-> ui.actNote]
           w == Write("activity", None, values, {"note"})
           rest == <<ReloadSelected(None)>>
           todo == <<w, ReloadSelected(None)>>
<1>1. PageOK(Contacts, Deals, ui) /\ Contacts \in Nat
  BY Numbers DEF UiInv
<1>2. values \in [contact : Nat, note : STRING]
  BY <1>1 DEF PageOK
<1> HIDE DEF values
<1>3. w.do = "write" /\ WriteOK(Contacts, Deals, w)
  BY <1>2 DEF WriteOK, Write
<1>4. rest \in Seq(Later(Contacts))
  <2>1. ReloadSelected(None) \in Later(Contacts)
    <3>1. None \in 0..Contacts
      BY <1>1 DEF None
    <3> QED BY <3>1 DEF Later
  <2> HIDE DEF Later
  <2> QED BY <2>1
<1>5. ThenOK(Contacts, w, rest)
  BY <1>4 DEF ThenOK
<1>6. todo # << >> /\ Head(todo) = w /\ Tail(todo) = rest
  OBVIOUS
<1>7. Calls(ui, todo, "act")
  BY DEF LogActivity, values
<1> HIDE DEF w, rest, todo
<1> QED BY <1>1, <1>3, <1>5, <1>6, <1>7, WritesKeep

LEMMA DialogsKeep ==
  ASSUME UiInv, NEW f, FormOK(Contacts, Deals, f), Sets(Opened(f))
  PROVE  UiInv'
BY OpenedOK, SetsKeeps

LEMMA NewContactKeeps ==
  ASSUME UiInv, NewContact
  PROVE  UiInv'
<1> DEFINE f == Dialog("contact", None, None, [name |-> Blank])
<1>1. FormOK(Contacts, Deals, f)
  BY BlankIsText, Numbers DEF FormOK, Dialog, None, UiInv
<1>2. Sets(Opened(f))
  BY DEF NewContact
<1> HIDE DEF f
<1> QED BY <1>1, <1>2, DialogsKeep

LEMMA EditContactKeeps ==
  ASSUME UiInv, EditContact
  PROVE  UiInv'
<1> DEFINE f == Dialog("contact", ui.contact.id, None, [name |-> ui.contact.name])
<1>1. ui.contact.id \in 0..Contacts /\ ui.contact.name \in STRING
  BY DEF UiInv, PageOK, EditContact
<1>2. FormOK(Contacts, Deals, f)
  BY <1>1, Numbers DEF FormOK, Dialog, None, UiInv
<1>3. Sets(Opened(f))
  BY DEF EditContact
<1> HIDE DEF f
<1> QED BY <1>2, <1>3, DialogsKeep

LEMMA OpenDealFormKeeps ==
  ASSUME UiInv, OpenDealForm
  PROVE  UiInv'
<1> DEFINE f == Dialog("deal", None, None,
                       [title |-> Blank, stage |-> FirstStage, close |-> Blank])
<1>1. FirstStage \in STRING
  BY UiAssumption
<1>2. FormOK(Contacts, Deals, f)
  BY <1>1, BlankIsText, Numbers DEF FormOK, Dialog, None, UiInv
<1>3. Sets(Opened(f))
  BY DEF OpenDealForm
<1> HIDE DEF f
<1> QED BY <1>2, <1>3, DialogsKeep

LEMMA OpenDealDetailKeeps ==
  ASSUME UiInv, NEW deals, DealsOK(Contacts, Deals, deals), NEW d, OpenDealDetail(deals, d)
  PROVE  UiInv'
<1> DEFINE f == Dialog("deal", d, deals[d].contact,
                       [title |-> deals[d].title, stage |-> deals[d].stage,
                        close |-> deals[d].close])
<1>1. /\ d \in 1..Deals /\ deals[d].contact \in 1..Contacts
      /\ deals[d].title \in STRING /\ deals[d].stage \in STRING /\ deals[d].close \in STRING
  BY DEF DealsOK, OpenDealDetail
<1>2. d \in 0..Deals /\ deals[d].contact \in 0..Contacts
  BY <1>1, Numbers DEF UiInv
<1>3. FormOK(Contacts, Deals, f)
  BY <1>1, <1>2 DEF FormOK, Dialog
<1>4. Sets(Opened(f))
  BY DEF OpenDealDetail
<1> HIDE DEF f
<1> QED BY <1>3, <1>4, DialogsKeep

LEMMA OnFieldChangeKeeps ==
  ASSUME UiInv, NEW field \in {"name", "title", "stage", "close"}, NEW text \in Choices(field),
         OnFieldChange(field, text)
  PROVE  UiInv'
<1> DEFINE f == ui.form
           values == [f.values EXCEPT ![field] = text]
           g == [[f EXCEPT !.values = values] EXCEPT !.touched = f.touched \cup {field}]
           v == [ui EXCEPT !.form = g]
<1>1. PageOK(Contacts, Deals, ui) /\ FormOK(Contacts, Deals, f) /\ f # NoForm
  BY DEF UiInv, PageOK, OnFieldChange, AtDialog, FormOpen
<1>2. text \in STRING
  <2>1. text \in Names \cup Titles \cup Stages \cup Dates
    BY DEF Choices
  <2> QED BY <2>1, UiAssumption
<1>3. Sets(v)
  <2>1. DOMAIN f = {"kind", "id", "dealContact", "values", "touched"}
    BY <1>1 DEF FormOK
  <2>2. DOMAIN ui = PageFields
    BY <1>1 DEF PageOK
  <2>3. Sets([ui EXCEPT !.form.values[field] = text, !.form.touched = @ \cup {field}])
    BY DEF OnFieldChange
  <2>4. [ui EXCEPT !.form.values[field] = text, !.form.touched = @ \cup {field}] = v
    BY <2>1, <2>2 DEF PageFields
  <2> HIDE DEF v
  <2> QED BY <2>3, <2>4
<1>4. field \in DOMAIN f.values
  BY DEF OnFieldChange
<1>5. /\ f.values \in [name : STRING] => values \in [name : STRING]
      /\ f.values \in [title : STRING, stage : STRING, close : STRING]
           => values \in [title : STRING, stage : STRING, close : STRING]
  BY <1>2, <1>4
<1> HIDE DEF values
<1>6. /\ DOMAIN g = DOMAIN f /\ g.kind = f.kind /\ g.id = f.id
      /\ g.dealContact = f.dealContact /\ g.values = values
  BY <1>1 DEF FormOK
<1> HIDE DEF g
<1>7. FormOK(Contacts, Deals, g)
  <2> HIDE DEF f
  <2> QED BY <1>1, <1>5, <1>6 DEF FormOK
<1>8. PageOK(Contacts, Deals, v)
  <2>1. /\ DOMAIN v = DOMAIN ui /\ v.form = g /\ v.formError = ui.formError
        /\ v.contacts = ui.contacts /\ v.allDeals = ui.allDeals /\ v.contact = ui.contact
        /\ v.activities = ui.activities /\ v.contactDeals = ui.contactDeals
        /\ v.selectedId = ui.selectedId /\ v.dragging = ui.dragging
        /\ v.actNote = ui.actNote /\ v.actError = ui.actError
    BY <1>1 DEF PageOK, PageFields
  <2> HIDE DEF v
  <2> QED BY <1>1, <1>7, <2>1 DEF PageOK
<1> HIDE DEF v
<1> QED BY <1>3, <1>8, SetsKeeps

LEMMA CloseFormKeeps ==
  ASSUME UiInv, CloseForm
  PROVE  UiInv'
<1>1. PageOK(Contacts, Deals, Closed(ui))
  BY ClosedOK DEF UiInv
<1>2. Sets(Closed(ui))
  BY DEF CloseForm
<1> QED BY <1>1, <1>2, SetsKeeps

LEMMA GoFormContactKeeps ==
  ASSUME UiInv, GoFormContact
  PROVE  UiInv'
<1> DEFINE c == ui.form.dealContact
<1>1. PageOK(Contacts, Deals, Closed(ui))
  BY ClosedOK DEF UiInv
<1>2. c \in 1..Contacts
  <2>1. c # 0 /\ c \in 0..Contacts
    BY DEF GoFormContact, AtDialog, FormOpen, FormOK, PageOK, UiInv, None
  <2> HIDE DEF c
  <2> QED BY <2>1
<1>3. <<Select(c)>> \in Seq(Later(Contacts))
  BY <1>2, SelectIsLater
<1>4. Calls(Closed(ui), <<Select(c)>>, "none")
  BY DEF GoFormContact
<1> HIDE DEF c
<1> QED BY <1>1, <1>3, <1>4, ReadsKeep

LEMMA FormWriteOK ==
  ASSUME UiInv, FormOpen
  PROVE  FormWrite.do = "write" /\ WriteOK(Contacts, Deals, FormWrite)
         /\ FormWrite.kind = ui.form.kind
<1> DEFINE f == ui.form
           values == IF f.kind = "deal" /\ f.id = None
                     THEN Spread(f.values, [contact |-> ui.selectedId]) ELSE f.values
           w == Write(f.kind, f.id, values, f.touched)
<1>1. FormWrite = w
  BY DEF FormWrite
<1>2. FormOK(Contacts, Deals, f) /\ f # NoForm /\ ui.selectedId \in Nat
  BY Numbers DEF UiInv, PageOK, FormOpen
<1>3. w.do = "write" /\ w.kind = f.kind /\ w.id = f.id /\ w.values = values
  BY DEF Write
<1>4. /\ f.kind = "contact" => values = f.values
      /\ f.kind = "deal" /\ f.id # None => values = f.values
      /\ f.kind = "deal" /\ f.id = None /\ f.values \in [title : STRING, stage : STRING, close : STRING]
           => values \in [contact : Nat, title : STRING, stage : STRING, close : STRING]
  BY <1>2 DEF Spread
<1> HIDE DEF w, values, f
<1>5. WriteOK(Contacts, Deals, w)
  <2>1. CASE f.kind = "contact" /\ f.id \in 0..Contacts /\ f.values \in [name : STRING]
    BY <1>2, <1>3, <1>4, <2>1 DEF FormOK, WriteOK
  <2>2. CASE f.kind = "deal" /\ f.id \in 0..Deals /\ f.values \in [title : STRING, stage : STRING, close : STRING]
    <3>1. CASE f.id = None
      BY <1>2, <1>3, <1>4, <2>2, <3>1 DEF FormOK, WriteOK
    <3>2. CASE f.id # None
      <4>1. f.id \in 1..Deals
        BY <2>2, <3>2 DEF None
      <4> QED BY <1>2, <1>3, <1>4, <2>2, <3>2, <4>1 DEF FormOK, WriteOK
    <3> QED BY <3>1, <3>2
  <2> QED BY <1>2, <2>1, <2>2 DEF FormOK
<1> QED BY <1>1, <1>3, <1>5 DEF f

LEMMA ThreeInSeq ==
  ASSUME NEW S, NEW a \in S, NEW b \in S, NEW c \in S
  PROVE  <<a, b, c>> \in Seq(S)
OBVIOUS

LEMMA AfterSaveOK ==
  ASSUME UiInv, FormOpen
  PROVE  ThenOK(Contacts, FormWrite, AfterSave(ui.form))
<1> DEFINE f == ui.form
           L == Later(Contacts)
<1>1. /\ FormOK(Contacts, Deals, f) /\ f # NoForm /\ Contacts \in Nat
      /\ FormWrite.do = "write" /\ FormWrite.kind = f.kind
  BY Numbers, FormWriteOK DEF UiInv, PageOK, FormOpen
<1>2. RefreshContacts(FALSE) \in L /\ RefreshDeals \in L
  BY DEF Later
<1>3. CASE f.kind = "contact" /\ f.id \in 0..Contacts
  <2>1. Select(f.id) \in L \cup {Select(None)}
    <3>1. f.id = None \/ f.id \in 1..Contacts
      BY <1>1, <1>3 DEF None
    <3> QED BY <3>1, SelectIsLater
  <2>2. AfterSave(f) = <<RefreshContacts(FALSE), Select(f.id), RefreshDeals>>
    BY <1>3 DEF AfterSave
  <2> HIDE DEF L, f
  <2>3. AfterSave(f) \in Seq(L \cup {Select(None)})
    <3>1. RefreshContacts(FALSE) \in L \cup {Select(None)} /\ RefreshDeals \in L \cup {Select(None)}
      BY <1>2
    <3> QED BY <2>1, <2>2, <3>1, ThreeInSeq
  <2> QED BY <1>1, <1>3, <2>3 DEF ThenOK, L, f
<1>4. CASE f.kind # "contact" /\ f.dealContact \in 0..Contacts
  <2>1. ReloadSelected(f.dealContact) \in L
    BY <1>4 DEF Later
  <2>2. AfterSave(f) = <<RefreshDeals, ReloadSelected(f.dealContact)>>
    BY <1>4 DEF AfterSave
  <2> HIDE DEF L, f
  <2>3. AfterSave(f) \in Seq(L)
    BY <1>2, <2>1, <2>2
  <2> QED BY <2>3 DEF ThenOK, L, f
<1> QED BY <1>1, <1>3, <1>4 DEF FormOK

LEMMA SubmitFormKeeps ==
  ASSUME UiInv, SubmitForm
  PROVE  UiInv'
<1> DEFINE w == FormWrite
           rest == AfterSave(ui.form)
           todo == <<w>> \o rest
<1>1. FormOpen /\ Calls(ui, todo, "form") /\ PageOK(Contacts, Deals, ui)
  BY DEF SubmitForm, AtDialog, UiInv
<1>2. w.do = "write" /\ WriteOK(Contacts, Deals, w) /\ ThenOK(Contacts, w, rest)
  BY <1>1, FormWriteOK, AfterSaveOK
<1> HIDE DEF w, rest
<1>3. todo # << >> /\ Head(todo) = w /\ Tail(todo) = rest
  <2>1. rest \in Seq(Later(Contacts)) \/ rest \in Seq(Later(Contacts) \cup {Select(None)})
    BY <1>2 DEF ThenOK
  <2> QED BY <2>1, FirstAndRest
<1> HIDE DEF todo
<1> QED BY <1>1, <1>2, <1>3, WritesKeep

LEMMA DragStartKeeps ==
  ASSUME UiInv, NEW d, DragStart(d)
  PROVE  UiInv'
<1> DEFINE u == [ui EXCEPT !.dragging = d]
<1>1. d \in 1..Deals
  BY DEF DragStart, UiInv, PageOK, DealsOK
<1>2. d \in 0..Deals
  BY <1>1, Numbers DEF UiInv
<1>3. PageOK(Contacts, Deals, u)
  BY <1>2, DraggingOK
<1>4. Sets(u)
  BY DEF DragStart
<1> HIDE DEF u
<1> QED BY <1>3, <1>4, SetsKeeps

LEMMA DragEndKeeps ==
  ASSUME UiInv, DragEnd
  PROVE  UiInv'
<1> DEFINE u == [ui EXCEPT !.dragging = None]
<1>1. None \in 0..Deals
  BY Numbers DEF UiInv, None
<1>2. PageOK(Contacts, Deals, u)
  BY <1>1, DraggingOK
<1>3. Sets(u)
  BY DEF DragEnd
<1> HIDE DEF u
<1> QED BY <1>2, <1>3, SetsKeeps

LEMMA DropKeeps ==
  ASSUME UiInv, NEW stage \in Stages, Drop(stage)
  PROVE  UiInv'
<1> DEFINE u == [ui EXCEPT !.dragging = None]
           w == Write("deal", ui.dragging, [stage |-> stage], {"stage"})
           todo == <<w>> \o AfterMove
<1>1. None \in 0..Deals /\ Contacts \in Nat
  BY Numbers DEF UiInv, None
<1>2. PageOK(Contacts, Deals, u)
  BY <1>1, DraggingOK
<1>3. Calls(u, todo, "none")
  BY DEF Drop
<1>4. ui.dragging \in 1..Deals
  <2>1. ui.dragging # 0 /\ ui.dragging \in 0..Deals
    BY DEF Drop, UiInv, PageOK, None
  <2> QED BY <2>1
<1>5. [stage |-> stage] \in [stage : STRING]
  BY UiAssumption
<1>6. w.do = "write" /\ WriteOK(Contacts, Deals, w)
  BY <1>4, <1>5 DEF Write, WriteOK
<1>7. AfterMove \in Seq(Later(Contacts))
  <2>1. RefreshDeals \in Later(Contacts) /\ ReloadSelected(None) \in Later(Contacts)
    <3>1. None \in 0..Contacts
      BY <1>1 DEF None
    <3> QED BY <3>1 DEF Later
  <2> HIDE DEF Later
  <2> QED BY <2>1 DEF AfterMove
<1> HIDE DEF w, u
<1>8. /\ todo # << >> /\ Head(todo) = w /\ Tail(todo) = AfterMove
      /\ ThenOK(Contacts, w, AfterMove)
  BY <1>7, FirstAndRest DEF ThenOK
<1> HIDE DEF todo
<1> QED BY <1>2, <1>3, <1>6, <1>8, WritesKeep

-----------------------------------------------------------------------------
(* The invariant, and what follows from it.                                 *)

LEMMA NewPageOK ==
  ASSUME NEW n \in Nat, NEW m \in Nat
  PROVE  PageOK(n, m, NewPage)
<1>1. 0 \in 0..n /\ 0 \in 0..m /\ DOMAIN << >> = {}
  OBVIOUS
<1>2. /\ DOMAIN NewPage = PageFields
      /\ NewPage.selectedId = 0 /\ NewPage.dragging = 0 /\ NewPage.contacts = << >>
      /\ NewPage.allDeals = << >> /\ NewPage.contact.id = 0 /\ NewPage.form = NoForm
      /\ NewPage.activities.of = 0 /\ NewPage.contactDeals.of = 0
      /\ NewPage.contactDeals.rows = << >> /\ NewPage.actNote = Blank
      /\ NewPage.formError = Blank /\ NewPage.actError = Blank
  BY DEF NewPage, PageFields, None
<1> HIDE DEF NewPage
<1> QED BY <1>1, <1>2, BlankIsText DEF PageOK, DealsOK, FormOK, OneContact, None

LEMMA UiInit == Init => UiInv
<1> SUFFICES ASSUME Init
             PROVE  UiInv
  OBVIOUS
<1> DEFINE x == Continued(NewPage, Mount, "none")
<1>1. server = Stored /\ ui = Page(NewPage, Mount) /\ tasks = <<x>> /\ lost = FALSE
  BY DEF Init
<1>2. ServerOK
  <2>1. server \in Tables
    BY <1>1, UiAssumption DEF Tables
  <2>2. /\ DOMAIN server.contact = 1..Len(server.contact)
        /\ DOMAIN server.deal = 1..Len(server.deal)
        /\ DOMAIN server.activity = 1..Len(server.activity)
    BY <2>1, LenProperties DEF Tables
  <2>3. \A i \in DOMAIN server.deal : server.deal[i].contact \in DOMAIN server.contact
    BY <1>1, UiAssumption
  <2>4. \A i \in DOMAIN server.activity : server.activity[i].contact \in DOMAIN server.contact
    BY <1>1, UiAssumption
  <2> QED BY <2>1, <2>2, <2>3, <2>4 DEF ServerOK, Contacts
<1>3. Contacts \in Nat /\ Deals \in Nat
  BY <1>2, Numbers
<1>4. PageOK(Contacts, Deals, NewPage)
  BY <1>3, NewPageOK
<1>5. /\ Mount # << >> /\ Head(Mount) = Import("api") /\ Tail(Mount) \in Rests
  BY DEF Mount, Rests
<1>6. Import("api") \in Mounting /\ Import("api").do = "import"
  BY DEF Mounting, Import
<1>7. PageOK(Contacts, Deals, ui) /\ TaskOK(Contacts, Deals, x)
  BY <1>1, <1>3, <1>4, <1>5, <1>6, GoingOn
<1>8. MountAt(x)
  <2>1. ~Over(NewPage, Mount)
    BY <1>5, <1>6 DEF Over, Skipped
  <2>2. x.step = Begun(NewPage, Import("api")) /\ x.then = Tail(Mount)
    BY <1>5, <2>1 DEF Continued
  <2>3. Begun(NewPage, Import("api")) = Import("api")
    BY <1>6 DEF Begun
  <2> QED BY <1>5, <1>6, <2>2, <2>3 DEF MountAt
<1> HIDE DEF x
<1>9. tasks \in Seq({x}) /\ DOMAIN tasks = {1} /\ tasks[1] = x
  BY <1>1
<1>10. TasksOK(Contacts, Deals, tasks) /\ MountOK(tasks)
  BY <1>7, <1>8, <1>9, SeqOfElements DEF TasksOK, MountOK
<1> QED BY <1>1, <1>2, <1>7, <1>10 DEF UiInv

LEMMA UserKeeps ==
  ASSUME UiInv, User
  PROVE  UiInv'
<1>1. DealsOK(Contacts, Deals, ui.allDeals) /\ DealsOK(Contacts, Deals, ui.contactDeals.rows)
  BY DEF UiInv, PageOK
<1>2. ASSUME NEW c \in DOMAIN server.contact, SelectContact(c)
      PROVE  UiInv'
  BY <1>2, SelectContactKeeps
<1>3. ASSUME NEW text \in Searches, OnSearch(text)
      PROVE  UiInv'
  BY <1>3, OnSearchKeeps
<1>4. ASSUME NEW text \in Notes, TypeNote(text)
      PROVE  UiInv'
  BY <1>4, TypeNoteKeeps
<1>5. CASE LogActivity
  BY <1>5, LogActivityKeeps
<1>6. CASE NewContact
  BY <1>6, NewContactKeeps
<1>7. CASE EditContact
  BY <1>7, EditContactKeeps
<1>8. CASE OpenDealForm
  BY <1>8, OpenDealFormKeeps
<1>9. ASSUME NEW stage \in Stages, Drop(stage)
      PROVE  UiInv'
  BY <1>9, DropKeeps
<1>10. ASSUME NEW d \in DOMAIN server.deal,
              \/ OpenDealDetail(ui.allDeals, d) \/ OpenDealDetail(ui.contactDeals.rows, d)
              \/ DragStart(d)
       PROVE  UiInv'
  BY <1>1, <1>10, OpenDealDetailKeeps, DragStartKeeps
<1>11. ASSUME NEW field \in {"name", "title", "stage", "close"}, NEW text \in Choices(field),
              OnFieldChange(field, text)
       PROVE  UiInv'
  BY <1>11, OnFieldChangeKeeps
<1>12. CASE CloseForm
  BY <1>12, CloseFormKeeps
<1>13. CASE GoFormContact
  BY <1>13, GoFormContactKeeps
<1>14. CASE SubmitForm
  BY <1>14, SubmitFormKeeps
<1>15. CASE DragEnd
  BY <1>15, DragEndKeeps
<1> QED BY <1>2, <1>3, <1>4, <1>5, <1>6, <1>7, <1>8, <1>9, <1>10, <1>11, <1>12, <1>13, <1>14,
           <1>15 DEF User

LEMMA UiNext == UiInv /\ [Next]_vars => UiInv'
<1> SUFFICES ASSUME UiInv, [Next]_vars
             PROVE  UiInv'
  OBVIOUS
<1>1. CASE User
  BY <1>1, UserKeeps
<1>2. ASSUME NEW t \in DOMAIN tasks, Network(t) \/ Lose(t)
      PROVE  UiInv'
  <2>1. ASSUME NEW field \in Fields(tasks[t].step), Serve(t, field)
        PROVE  UiInv'
    BY <2>1, ServeKeeps
  <2>2. CASE Resume(t)
    BY <2>2, ResumeKeeps
  <2>3. CASE Refused(t)
    <3>1. Throws(t) /\ lost' \in BOOLEAN
      BY <2>3 DEF Refused, UiInv
    <3> QED BY <3>1, ThrowsKeeps
  <2>4. CASE Lose(t)
    <3>1. Throws(t) /\ lost' \in BOOLEAN
      BY <2>4 DEF Lose
    <3> QED BY <3>1, ThrowsKeeps
  <2> QED BY <1>2, <2>1, <2>2, <2>3, <2>4 DEF Network
<1>3. CASE vars' = vars
  <2>1. server' = server /\ ui' = ui /\ tasks' = tasks /\ lost' = lost
    BY <1>3 DEF vars
  <2> QED BY <2>1, SameServer DEF UiInv
<1>4. CASE Rest
  BY <1>3, <1>4 DEF Rest
<1> QED BY <1>1, <1>2, <1>3, <1>4 DEF Next

(* What the page keeps whatever the network does: every dialog, every step  *)
(* under way and every answer refers to rows that exist (Component).        *)
THEOREM UiInvariant == Spec => []UiInv
BY UiInit, UiNext, PTL DEF Spec

(* The page refers to stored rows and every method is at one of its steps.  *)
THEOREM UiTypes == Spec => []TypeOK
<1>1. UiInv => TypeOK
  <2> SUFFICES ASSUME UiInv
               PROVE  TypeOK
    OBVIOUS
  <2>1. DOMAIN server = {"contact", "deal", "activity"}
    BY DEF UiInv, ServerOK, Tables
  <2>2. /\ Contacts \in Nat /\ Deals \in Nat /\ DOMAIN server.contact = 1..Contacts
        /\ DOMAIN server.deal = 1..Deals
    BY ServerTypes DEF UiInv
  <2>3. Ids("contact") = 0..Contacts /\ Ids("deal") = 0..Deals
    BY DEF Ids, Contacts, Deals
  <2>4. PageOK(Contacts, Deals, ui)
    BY DEF UiInv
  <2>5. DOMAIN ui.allDeals \subseteq DOMAIN server.deal
    BY <2>2, <2>4 DEF PageOK, DealsOK
  <2>6. ui.form.kind \in {"none", "contact", "deal"}
    BY <2>4 DEF PageOK, FormOK, NoForm
  <2>7. ASSUME NEW t \in DOMAIN tasks
        PROVE  /\ tasks[t].step.do \in {"none", "import", "contacts", "deals", "select", "write"}
               /\ tasks[t].catch \in {"none", "form", "act"}
    BY DEF UiInv, TasksOK, TaskOK, StepOK
  <2> QED BY <2>1, <2>2, <2>3, <2>4, <2>5, <2>6, <2>7 DEF TypeOK, PageOK, UiInv
<1> QED BY <1>1, UiInvariant, PTL

(* The contact shown, its activities and its deals belong to one contact,   *)
(* however the answers of several selections overtake each other (select(), *)
(* which awaits the three together).                                        *)
THEOREM OneContactShown == Spec => []ShownTogether
<1>1. UiInv => ShownTogether
  BY DEF UiInv, PageOK, OneContact, ShownTogether
<1> QED BY <1>1, UiInvariant, PTL

(* The first list of a page takes no selection away from the user who has   *)
(* got ahead of it (refreshContacts(true)).                                 *)
THEOREM FirstListYields == Spec => AutoSelectYields
<1>1. ASSUME UiInv, [Next]_vars, tasks[1].step.do = "contacts", tasks'[1] # tasks[1],
             ui.selectedId # None
      PROVE  ui'.selectedId = ui.selectedId
  <2>1. /\ TasksOK(Contacts, Deals, tasks) /\ MountOK(tasks) /\ PageOK(Contacts, Deals, ui)
        /\ 1 \in DOMAIN tasks /\ tasks \in Seq(Elements(tasks))
        /\ DOMAIN tasks = 1..Len(tasks) /\ Len(tasks) \in Nat
    BY <1>1, SeqOfElements DEF UiInv, TasksOK, MountOK
  <2>2. DOMAIN ui = PageFields /\ tasks[1].then = <<RefreshDeals>>
    BY <1>1, <2>1 DEF PageOK, MountOK, MountAt
  <2>3. ASSUME NEW x, tasks' = Append(tasks, x)
        PROVE  FALSE
    <3>1. Added(tasks, x, tasks')
      BY <2>1, <2>3, TaskAdded
    <3> QED BY <1>1, <2>1, <3>1 DEF Added
  <2>4. ASSUME NEW t \in DOMAIN tasks, NEW x, tasks' = [tasks EXCEPT ![t] = x]
        PROVE  t = 1
    BY <1>1, <2>1, <2>4
  <2>5. CASE User
    <3>1. tasks' = tasks \/ \E x : tasks' = Append(tasks, x)
      BY <2>5 DEF User, SelectContact, OnSearch, TypeNote, LogActivity, NewContact, EditContact,
                  OpenDealForm, Drop, OpenDealDetail, DragStart, OnFieldChange, CloseForm,
                  GoFormContact, SubmitForm, DragEnd, Sets, Calls
    <3> QED BY <1>1, <2>3, <3>1
  <2>6. ASSUME NEW t \in DOMAIN tasks, NEW field, Serve(t, field)
        PROVE  ui'.selectedId = ui.selectedId
    BY <2>6 DEF Serve
  <2>7. ASSUME NEW t \in DOMAIN tasks, Throws(t)
        PROVE  ui'.selectedId = ui.selectedId
    BY <2>2, <2>7 DEF Throws, Caught, PageFields
  <2>8. ASSUME NEW t \in DOMAIN tasks, Resume(t)
        PROVE  ui'.selectedId = ui.selectedId
    <3>1. SelectsFirst(t) => FALSE
      BY <1>1 DEF SelectsFirst
    <3>2. GoesOn(t) /\ Answered(t)
      BY <2>8, <3>1 DEF Resume
    <3>3. t = 1
      BY <2>4, <3>2 DEF GoesOn
    <3>4. tasks[1].step.do # "write" /\ Fields(tasks[1].step) = {"contacts"}
      BY <1>1 DEF Fields
    <3>5. Left(1) = <<RefreshDeals>>
      BY <2>1, <2>2, <3>2, <3>3, <3>4, LeftOK, <1>1
    <3>6. Shown(ui, 1).selectedId = ui.selectedId
      BY <2>2, <3>2, <3>3, <3>4 DEF Shown, Answered, PageFields
    <3>7. Page(Shown(ui, 1), <<RefreshDeals>>) = Shown(ui, 1)
      <4>1. Head(<<RefreshDeals>>).do = "deals"
        BY DEF RefreshDeals
      <4> QED BY <4>1 DEF Page, Clicked
    <3> QED BY <3>2, <3>3, <3>5, <3>6, <3>7 DEF GoesOn
  <2>9. CASE UNCHANGED vars
    BY <2>9 DEF vars
  <2> QED BY <1>1, <2>5, <2>6, <2>7, <2>8, <2>9 DEF Next, Network, Refused, Lose, Rest
<1>2. UiInv /\ [Next]_vars =>
        [tasks[1].step.do = "contacts" /\ tasks'[1] # tasks[1] /\ ui.selectedId # None
           => ui'.selectedId = ui.selectedId]_vars
  BY <1>1
<1> QED BY <1>2, UiInvariant, PTL DEF Spec, AutoSelectYields

-----------------------------------------------------------------------------
(* Read your writes, for a user who waits until the page is quiet.          *)
(*                                                                          *)
(* The argument: as long as nothing is lost, every part of the page that    *)
(* differs from what is stored will be fetched by a step that is still to    *)
(* be taken; the methods that run at one time do not disturb each other;    *)
(* and an open dialog holds what is stored wherever the user has not typed.  *)

OfSelected == {"contact", "activities", "contactDeals"}
Parts      == {"contacts", "allDeals"} \cup OfSelected

(* Part f of the page is what the server would answer.                      *)
Fresh(db, u, f) ==
  /\ f = "contacts" => u.contacts = Answer(db, "contacts", [search |-> u.search])
  /\ f = "allDeals" => u.allDeals = Answer(db, "allDeals", << >>)
  /\ f \in OfSelected /\ u.selectedId # None => u[f] = Answer(db, f, Select(u.selectedId))

AllFresh(db, u) == \A f \in Parts : Fresh(db, u, f)

(* Step s will fetch part f, if the selection is still that of u.           *)
Will(u, s, f) ==
  \/ s.do = "contacts" /\ f = "contacts"
  \/ s.do = "deals" /\ f = "allDeals"
  \/ s.do = "select" /\ f \in OfSelected
  \/ s.do = "reload" /\ s.of \in {None, u.selectedId} /\ f \in OfSelected

Planned(u, todo, f) == \E i \in DOMAIN todo : Will(u, todo[i], f)

IsRunning(x) == x.step.do # "none"

(* Method x fetches part f, now or later.                                   *)
Coming(u, x, f) == IsRunning(x) /\ (f \in Fields(x.step) \/ Planned(u, x.then, f))

PartsOK(db, u, T) ==
  \A f \in Parts : Fresh(db, u, f) \/ (\E t \in DOMAIN T : Coming(u, T[t], f))

(* What follows a write fetches all that the write may change.              *)
PlanOK(db, w, todo) ==
  \/ /\ w.kind = "contact"
     /\ \E c \in Nat : todo = <<RefreshContacts(FALSE), Select(c), RefreshDeals>>
  \/ /\ w.kind = "deal"
     /\ \E of \in Nat : /\ todo = <<RefreshDeals, ReloadSelected(of)>>
                        /\ of = None \/ (w.id # None /\ of = db.deal[w.id].contact)
  \/ w.kind = "activity" /\ todo = <<ReloadSelected(None)>>

(* Where the user has not typed, the values are those of the row.           *)
Copied(db, kind, id, values, touched) ==
  id # None => \A f \in DOMAIN values \ touched : values[f] = db[kind][id][f]

(* A write that has not been carried out yet has changed nothing.           *)
WriteNow(db, u, x) ==
  /\ PlanOK(db, x.step, x.then)
  /\ ("saved" \in DOMAIN x.got => ~x.got.saved.ok) => AllFresh(db, u)
  /\ "saved" \notin DOMAIN x.got =>
       Copied(db, x.step.kind, x.step.id, x.step.values, x.step.touched)

ReloadsLast(todo) == \A i \in DOMAIN todo : todo[i].do = "reload" => i = Len(todo)

(* The answers that a method has are those the server would still give.     *)
TaskNow(db, u, x) ==
  /\ x.step.do = "contacts" =>
       x.step.search = u.search /\ (x.step.first => x.then = <<RefreshDeals>>)
  /\ x.step.do = "select" => x.step.id = u.selectedId
  /\ IF x.step.do = "write" THEN WriteNow(db, u, x)
     ELSE \A f \in DOMAIN x.got : x.got[f] = Answer(db, f, x.step)
  /\ ReloadsLast(x.then)

(* Two methods run at one time only as the page opens: the mount reads the  *)
(* board while the first contact is selected.                               *)
Apart(x, y) ==
  /\ x.then = << >> /\ y.then = << >>
  /\ x.step.do \in {"deals", "select"} /\ y.step.do \in {"deals", "select"}
  /\ x.step.do # y.step.do

AloneOK(T) ==
  \A t, v \in DOMAIN T : t # v /\ IsRunning(T[t]) /\ IsRunning(T[v]) => Apart(T[t], T[v])

(* A method that runs while a dialog is open saves that dialog.             *)
Saving(f, x) ==
  x.step.do = "write" /\ x.step.kind = f.kind /\ x.step.id = f.id
    /\ (f.id # None => x.step.values = f.values)

FormRow(db, f) ==
  /\ Copied(db, f.kind, f.id, f.values, f.touched)
  /\ f.kind = "deal" =>
       f.dealContact = IF f.id = None THEN None ELSE db.deal[f.id].contact

FormNow(db, f, T) ==
  f # NoForm =>
    /\ FormRow(db, f)
    /\ \A t \in DOMAIN T : IsRunning(T[t]) => Saving(f, T[t])

(* Before a contact is selected, none is shown.                             *)
NothingYet(u) == u.selectedId = None => u.contact.id = None /\ DOMAIN u.contactDeals.rows = {}

InStep(db, u, T) ==
  /\ PartsOK(db, u, T) /\ NothingYet(u) /\ AloneOK(T) /\ FormNow(db, u.form, T)
  /\ \A t \in DOMAIN T : IsRunning(T[t]) => TaskNow(db, u, T[t])

(* this.api is there once the first import has ended, unless that is lost.  *)
ApiOK(u, T) ==
  /\ u.api = TRUE \/ T[1].step = Import("api")
  /\ \A t \in DOMAIN T : "api" \in DOMAIN T[t].got => T[t].got.api = TRUE

StepInv ==
  /\ UiInv
  /\ ~lost => ApiOK(ui, tasks)
  /\ Patient /\ ~lost => InStep(server, ui, tasks)

Steps(n) == Later(n) \cup Mounting

LEMMA StepKinds ==
  ASSUME NEW n \in Nat, NEW s \in Steps(n)
  PROVE  \/ s.do = "contacts" /\ (s = RefreshContacts(FALSE) \/ s = RefreshContacts(TRUE))
         \/ s.do = "import" /\ (s = Import("api") \/ s = Import("tests"))
         \/ s.do = "deals"
         \/ s.do = "select" /\ s.id \in 1..n
         \/ s.do = "reload" /\ s.of \in 0..n
<1>1. /\ RefreshContacts(TRUE).do = "contacts"
      /\ Import("api").do = "import" /\ Import("tests").do = "import"
  BY DEF RefreshContacts, Import
<1> QED BY <1>1, Laters DEF Steps, Mounting

LEMMA TailIndex ==
  ASSUME NEW S, NEW todo \in Seq(S), todo # << >>
  PROVE  /\ DOMAIN todo = 1..Len(todo) /\ Len(todo) \in Nat \ {0} /\ Head(todo) = todo[1]
         /\ Tail(todo) \in Seq(S) /\ Len(Tail(todo)) = Len(todo) - 1
         /\ DOMAIN Tail(todo) = 1..(Len(todo) - 1)
         /\ \A i \in DOMAIN todo \ {1} : i - 1 \in DOMAIN Tail(todo) /\ Tail(todo)[i - 1] = todo[i]
         /\ \A i \in DOMAIN Tail(todo) : i + 1 \in DOMAIN todo /\ Tail(todo)[i] = todo[i + 1]
<1>1. /\ Tail(todo) \in Seq(S) /\ Len(Tail(todo)) = Len(todo) - 1
      /\ \A i \in 1..Len(Tail(todo)) : Tail(todo)[i] = todo[i + 1]
  BY HeadTailProperties
<1>2. DOMAIN todo = 1..Len(todo) /\ Len(todo) \in Nat \ {0}
  BY LenProperties, EmptySeq
<1>3. DOMAIN Tail(todo) = 1..(Len(todo) - 1)
  BY <1>1, LenProperties
<1>4. ASSUME NEW i \in 1..Len(todo), i # 1
      PROVE  i - 1 \in 1..(Len(todo) - 1) /\ Tail(todo)[i - 1] = todo[i]
  <2>1. i - 1 \in 1..(Len(todo) - 1) /\ (i - 1) + 1 = i
    BY <1>2, <1>4
  <2> QED BY <1>1, <2>1
<1>5. \A i \in 1..(Len(todo) - 1) : i + 1 \in 1..Len(todo)
  BY <1>2
<1>6. Head(todo) = todo[1]
  OBVIOUS
<1> QED BY <1>1, <1>2, <1>3, <1>4, <1>5, <1>6

(* What a step sets as it begins.                                           *)
LEMMA ClickSets ==
  ASSUME NEW v, DOMAIN v = PageFields, NEW s
  PROVE  /\ DOMAIN Clicked(v, s) = PageFields
         /\ \A f \in PageFields \ {"selectedId", "actNote", "actError"} : Clicked(v, s)[f] = v[f]
         /\ IF s.do \in {"select", "reload"} THEN Clicked(v, s).selectedId = Begun(v, s).id
                                             ELSE Clicked(v, s) = v
<1>1. CASE s.do \in {"select", "reload"}
  <2> DEFINE u == [v EXCEPT !.selectedId = Begun(v, s).id, !.actNote = Blank, !.actError = Blank]
  <2>1. /\ DOMAIN u = PageFields /\ u.selectedId = Begun(v, s).id
        /\ \A f \in PageFields \ {"selectedId", "actNote", "actError"} : u[f] = v[f]
    BY DEF PageFields
  <2>2. Clicked(v, s) = u
    BY <1>1 DEF Clicked
  <2> HIDE DEF u
  <2> QED BY <1>1, <2>1, <2>2
<1>2. CASE s.do \notin {"select", "reload"}
  BY <1>2 DEF Clicked
<1> QED BY <1>1, <1>2

LEMMA BegunKinds ==
  ASSUME NEW n \in Nat, NEW v, NEW s \in Steps(n)
  PROVE  /\ s.do = "contacts" => Begun(v, s).do = "contacts" /\ Begun(v, s).search = v.search
                                 /\ Begun(v, s).first = s.first
         /\ s.do \in {"deals", "import"} => Begun(v, s).do = s.do
         /\ s.do \in {"select", "reload"} => Begun(v, s).do = "select"
<1>1. CASE s.do = "contacts"
  <2>1. s = RefreshContacts(FALSE) \/ s = RefreshContacts(TRUE)
    BY <1>1, StepKinds
  <2>2. DOMAIN s = {"do", "first"}
    BY <2>1 DEF RefreshContacts
  <2> QED BY <1>1, <2>2 DEF Begun, Spread
<1>2. CASE s.do \in {"deals", "import"}
  BY <1>2 DEF Begun
<1>3. CASE s.do = "select"
  BY <1>3 DEF Begun
<1>4. CASE s.do = "reload"
  BY <1>4 DEF Begun, Select
<1> QED BY <1>1, <1>2, <1>3, <1>4

(* The method that goes on fetches what was planned, or it is fresh.         *)
LEMMA ForwardParts ==
  ASSUME NEW n \in Nat, NEW db, NEW v, DOMAIN v = PageFields, NEW todo \in Seq(Steps(n)),
         ReloadsLast(todo), NEW f \in Parts, Fresh(db, v, f) \/ Planned(v, todo, f),
         NEW catch, NEW u, u = Page(v, todo), NEW x, x = Continued(v, todo, catch)
  PROVE  Fresh(db, u, f) \/ Coming(u, x, f)
<1>1. CASE todo = << >>
  <2>1. u = v
    BY <1>1 DEF Page, Over
  <2>2. ~Planned(v, todo, f)
    BY <1>1 DEF Planned
  <2> QED BY <2>1, <2>2
<1>2. CASE todo # << >> /\ Skipped(v, Head(todo))
  <2>1. u = v
    BY <1>2 DEF Page, Over
  <2>2. /\ DOMAIN todo = 1..Len(todo) /\ Len(todo) \in Nat \ {0} /\ Head(todo) = todo[1]
    BY <1>2, TailIndex
  <2>3. /\ todo[1].do = "reload"
        /\ v.selectedId = None \/ todo[1].of \notin {None, v.selectedId}
    BY <1>2, <2>2 DEF Skipped
  <2>4. Len(todo) = 1
    BY <2>2, <2>3 DEF ReloadsLast
  <2>5. Planned(v, todo, f) => Will(v, todo[1], f)
    BY <2>2, <2>4 DEF Planned
  <2>6. Will(v, todo[1], f) => v.selectedId = None /\ f \in OfSelected
    BY <2>3 DEF Will
  <2>7. v.selectedId = None /\ f \in OfSelected => Fresh(db, v, f)
    BY DEF Fresh, OfSelected
  <2> QED BY <2>1, <2>5, <2>6, <2>7
<1>3. CASE todo # << >> /\ ~Skipped(v, Head(todo))
  <2> DEFINE s == Head(todo)
  <2>1. /\ u = Clicked(v, s) /\ x.step = Begun(v, s) /\ x.then = Tail(todo)
    BY <1>3 DEF Page, Continued, Over
  <2>2. /\ DOMAIN todo = 1..Len(todo) /\ Len(todo) \in Nat \ {0} /\ s = todo[1]
        /\ \A i \in DOMAIN todo \ {1} : i - 1 \in DOMAIN Tail(todo) /\ Tail(todo)[i - 1] = todo[i]
    BY <1>3, TailIndex
  <2>3. s \in Steps(n)
    BY <1>3, HeadAndTail
  <2> HIDE DEF s
  <2>3a. /\ s.do = "contacts" => x.step.do = "contacts"
         /\ s.do \in {"deals", "import"} => x.step.do = s.do
         /\ s.do \in {"select", "reload"} => x.step.do = "select"
    <3>1. /\ s.do = "contacts" => Begun(v, s).do = "contacts"
          /\ s.do \in {"deals", "import"} => Begun(v, s).do = s.do
          /\ s.do \in {"select", "reload"} => Begun(v, s).do = "select"
      BY <2>3, BegunKinds
    <3> QED BY <2>1, <3>1
  <2>4. IsRunning(x)
    <3>1. s.do \in {"import", "contacts", "deals", "select", "reload"}
      BY <2>3, StepKinds
    <3> QED BY <2>3a, <3>1 DEF IsRunning
  <2>5. Will(v, s, f) => f \in Fields(x.step)
    BY <2>3a DEF Will, Fields, OfSelected
  <2>6. /\ DOMAIN u = PageFields
        /\ \A g \in PageFields \ {"selectedId", "actNote", "actError"} : u[g] = v[g]
        /\ IF s.do \in {"select", "reload"} THEN u.selectedId = Begun(v, s).id ELSE u = v
    <3>1. /\ DOMAIN Clicked(v, s) = PageFields
          /\ \A g \in PageFields \ {"selectedId", "actNote", "actError"} : Clicked(v, s)[g] = v[g]
          /\ IF s.do \in {"select", "reload"} THEN Clicked(v, s).selectedId = Begun(v, s).id
                                              ELSE Clicked(v, s) = v
      BY ClickSets
    <3> QED BY <2>1, <3>1
  <2>7. CASE s.do \in {"select", "reload"}
    <3>1. CASE f \in OfSelected
      <4>1. f \in Fields(x.step)
        BY <2>3a, <2>7, <3>1 DEF Fields, OfSelected
      <4> QED BY <2>4, <4>1 DEF Coming
    <3>2. CASE f \notin OfSelected
      <4>1. u.contacts = v.contacts /\ u.allDeals = v.allDeals /\ u.search = v.search
        BY <2>6 DEF PageFields
      <4>2. Fresh(db, v, f) => Fresh(db, u, f)
        BY <3>2, <4>1 DEF Fresh
      <4>3. ASSUME NEW i \in DOMAIN todo, Will(v, todo[i], f)
            PROVE  Coming(u, x, f)
        <5>1. i # 1
          BY <2>2, <2>7, <3>2, <4>3 DEF Will
        <5>2. i - 1 \in DOMAIN x.then /\ x.then[i - 1] = todo[i]
          BY <2>1, <2>2, <5>1
        <5>3. Will(u, todo[i], f)
          BY <3>2, <4>3 DEF Will
        <5> QED BY <2>4, <5>2, <5>3 DEF Coming, Planned
      <4> QED BY <4>2, <4>3 DEF Planned
    <3> QED BY <3>1, <3>2
  <2>8. CASE s.do \notin {"select", "reload"}
    <3>1. u = v
      BY <2>6, <2>8
    <3>2. ASSUME NEW i \in DOMAIN todo, Will(v, todo[i], f)
          PROVE  Coming(u, x, f)
      <4>1. CASE i = 1
        BY <2>2, <2>4, <2>5, <3>2, <4>1 DEF Coming
      <4>2. CASE i # 1
        <5>1. i - 1 \in DOMAIN x.then /\ x.then[i - 1] = todo[i]
          BY <2>1, <2>2, <4>2
        <5> QED BY <2>4, <3>1, <3>2, <5>1 DEF Coming, Planned
      <4> QED BY <4>1, <4>2
    <3> QED BY <3>1, <3>2 DEF Planned
  <2> QED BY <2>7, <2>8
<1> QED BY <1>1, <1>2, <1>3

(* ... and its next step asks for what the page shows by then.               *)
LEMMA ForwardTask ==
  ASSUME NEW n \in Nat, NEW db, NEW v, DOMAIN v = PageFields, NEW todo \in Seq(Steps(n)),
         ReloadsLast(todo), todo # << >> /\ Head(todo) = RefreshContacts(TRUE)
                              => Tail(todo) = <<RefreshDeals>>,
         NEW catch, NEW u, u = Page(v, todo), NEW x, x = Continued(v, todo, catch), IsRunning(x)
  PROVE  TaskNow(db, u, x) /\ x.step.do # "write"
<1>1. ~Over(v, todo)
  BY DEF Continued, IsRunning, Ended
<1> DEFINE s == Head(todo)
<1>2. /\ u = Clicked(v, s) /\ x.step = Begun(v, s) /\ x.then = Tail(todo) /\ x.got = << >>
  BY <1>1 DEF Page, Continued
<1>3. todo # << >>
  BY <1>1 DEF Over
<1>4. s \in Steps(n)
  BY <1>3, HeadAndTail
<1>5. RefreshContacts(FALSE).first = FALSE /\ RefreshContacts(TRUE).first = TRUE
  BY DEF RefreshContacts
<1>6. s.do = "contacts" /\ s.first => x.then = <<RefreshDeals>>
  BY <1>2, <1>3, <1>4, <1>5, StepKinds
<1> HIDE DEF s
<1>7. /\ IF s.do \in {"select", "reload"} THEN u.selectedId = x.step.id ELSE u = v
      /\ x.step.do \in {"import", "contacts", "deals", "select"}
      /\ x.step.do = "contacts" => s.do = "contacts" /\ x.step.search = v.search
                                   /\ x.step.first = s.first
      /\ x.step.do = "select" => s.do \in {"select", "reload"}
  <2>1. IF s.do \in {"select", "reload"} THEN Clicked(v, s).selectedId = Begun(v, s).id
                                         ELSE Clicked(v, s) = v
    BY ClickSets
  <2>2. /\ s.do = "contacts" => Begun(v, s).do = "contacts" /\ Begun(v, s).search = v.search
                                 /\ Begun(v, s).first = s.first
        /\ s.do \in {"deals", "import"} => Begun(v, s).do = s.do
        /\ s.do \in {"select", "reload"} => Begun(v, s).do = "select"
    BY <1>4, BegunKinds
  <2>3. s.do \in {"import", "contacts", "deals", "select", "reload"}
    BY <1>4, StepKinds
  <2>4. IF s.do \in {"select", "reload"} THEN u.selectedId = x.step.id ELSE u = v
    BY <1>2, <2>1
  <2>5. /\ s.do = "contacts" => x.step.do = "contacts" /\ x.step.search = v.search
                                 /\ x.step.first = s.first
        /\ s.do \in {"deals", "import"} => x.step.do = s.do
        /\ s.do \in {"select", "reload"} => x.step.do = "select"
    BY <1>2, <2>2
  <2> QED BY <2>3, <2>4, <2>5
<1>8. ReloadsLast(x.then)
  <2>1. /\ Len(Tail(todo)) = Len(todo) - 1 /\ Len(todo) \in Nat
        /\ DOMAIN Tail(todo) = 1..(Len(todo) - 1)
        /\ \A i \in DOMAIN Tail(todo) : i + 1 \in DOMAIN todo /\ Tail(todo)[i] = todo[i + 1]
    BY <1>3, TailIndex
  <2>2. ASSUME NEW i \in DOMAIN Tail(todo), Tail(todo)[i].do = "reload"
        PROVE  i = Len(Tail(todo))
    <3>1. i + 1 = Len(todo)
      BY <2>1, <2>2 DEF ReloadsLast
    <3>2. i \in Nat
      BY <2>1
    <3> QED BY <2>1, <3>1, <3>2
  <2> QED BY <1>2, <2>2 DEF ReloadsLast
<1>9. DOMAIN x.got = {}
  BY <1>2
<1> QED BY <1>6, <1>7, <1>8, <1>9 DEF TaskNow

-----------------------------------------------------------------------------
(* What InStep depends on.                                                  *)

Alike(u, v) == \A f \in Parts \cup {"search", "selectedId"} : v[f] = u[f]

NoneRuns(T) == \A t \in DOMAIN T : ~IsRunning(T[t])

OnlyRuns(T, t) == \A k \in DOMAIN T \ {t} : ~IsRunning(T[k])

LEMMA AlikeFields ==
  ASSUME NEW u, NEW v, Alike(u, v)
  PROVE  /\ v.search = u.search /\ v.selectedId = u.selectedId
         /\ v.contacts = u.contacts /\ v.allDeals = u.allDeals
         /\ \A f \in OfSelected : v[f] = u[f]
BY DEF Alike, Parts

LEMMA FreshAlike ==
  ASSUME NEW db, NEW u, NEW v, Alike(u, v), NEW f \in Parts, Fresh(db, u, f)
  PROVE  Fresh(db, v, f)
BY AlikeFields DEF Fresh

LEMMA ComingStays ==
  ASSUME NEW u, NEW v, v.selectedId = u.selectedId, NEW x, NEW f, Coming(u, x, f)
  PROVE  Coming(v, x, f)
BY DEF Coming, Planned, Will

LEMMA TaskAlike ==
  ASSUME NEW db, NEW u, NEW v, Alike(u, v), NEW x, TaskNow(db, u, x)
  PROVE  TaskNow(db, v, x)
<1>1. AllFresh(db, u) => AllFresh(db, v)
  BY FreshAlike DEF AllFresh
<1>2. WriteNow(db, u, x) => WriteNow(db, v, x)
  BY <1>1 DEF WriteNow
<1> QED BY <1>2, AlikeFields DEF TaskNow

LEMMA InStepAlike ==
  ASSUME NEW db, NEW u, NEW v, Alike(u, v), NEW T, InStep(db, u, T), FormNow(db, v.form, T)
  PROVE  InStep(db, v, T)
<1>1. PartsOK(db, v, T)
  <2> SUFFICES ASSUME NEW f \in Parts
               PROVE  Fresh(db, v, f) \/ (\E t \in DOMAIN T : Coming(v, T[t], f))
    BY DEF PartsOK
  <2>1. Fresh(db, u, f) \/ (\E t \in DOMAIN T : Coming(u, T[t], f))
    BY DEF InStep, PartsOK
  <2>2. v.selectedId = u.selectedId
    BY AlikeFields
  <2> QED BY <2>1, <2>2, FreshAlike, ComingStays
<1>2. \A t \in DOMAIN T : IsRunning(T[t]) => TaskNow(db, v, T[t])
  BY TaskAlike DEF InStep
<1>3. NothingYet(v)
  <2>1. v.selectedId = u.selectedId /\ v.contact = u.contact /\ v.contactDeals = u.contactDeals
    BY AlikeFields DEF OfSelected
  <2> QED BY <2>1 DEF InStep, NothingYet
<1> QED BY <1>1, <1>2, <1>3 DEF InStep

LEMMA QuietFresh ==
  ASSUME NEW db, NEW u, NEW T, PartsOK(db, u, T), NoneRuns(T)
  PROVE  AllFresh(db, u)
BY DEF PartsOK, NoneRuns, AllFresh, Coming

LEMMA PageYet ==
  ASSUME NEW n \in Nat, NEW v, DOMAIN v = PageFields, NothingYet(v), NEW todo \in Seq(Steps(n)),
         NEW u, u = Page(v, todo)
  PROVE  NothingYet(u)
<1>1. CASE Over(v, todo)
  BY <1>1 DEF Page
<1>2. CASE ~Over(v, todo)
  <2> DEFINE s == Head(todo)
  <2>1. todo # << >> /\ ~Skipped(v, s) /\ u = Clicked(v, s)
    BY <1>2 DEF Over, Page
  <2>2. s \in Steps(n)
    BY <2>1, HeadAndTail
  <2> HIDE DEF s
  <2>3. /\ Clicked(v, s).contact = v.contact /\ Clicked(v, s).contactDeals = v.contactDeals
        /\ IF s.do \in {"select", "reload"} THEN Clicked(v, s).selectedId = Begun(v, s).id
                                            ELSE Clicked(v, s) = v
    BY ClickSets DEF PageFields
  <2>4. s.do = "select" => Begun(v, s).id # None
    <3>1. s.do = "select" => s.id \in 1..n
      BY <2>2, StepKinds
    <3>2. s.do = "select" => Begun(v, s) = s
      BY DEF Begun
    <3> QED BY <3>1, <3>2 DEF None
  <2>5. s.do = "reload" => Begun(v, s).id = v.selectedId
    BY DEF Begun, Select
  <2> QED BY <2>1, <2>3, <2>4, <2>5 DEF NothingYet
<1> QED BY <1>1, <1>2

(* Of what is fresh and what is coming nothing is lost by going on.          *)
LEMMA OneForward ==
  ASSUME NEW n \in Nat, NEW db, NEW v, DOMAIN v = PageFields, v.form = NoForm, NothingYet(v),
         NEW todo \in Seq(Steps(n)), ReloadsLast(todo),
         todo # << >> /\ Head(todo) = RefreshContacts(TRUE) => Tail(todo) = <<RefreshDeals>>,
         \A f \in Parts : Fresh(db, v, f) \/ Planned(v, todo, f),
         NEW catch, NEW u, u = Page(v, todo), NEW x, x = Continued(v, todo, catch),
         NEW U, NEW t \in DOMAIN U, U[t] = x, OnlyRuns(U, t)
  PROVE  InStep(db, u, U)
<1>1. PartsOK(db, u, U)
  <2>1. \A f \in Parts : Fresh(db, u, f) \/ Coming(u, x, f)
    BY ForwardParts
  <2> QED BY <2>1 DEF PartsOK
<1>2. AloneOK(U)
  BY DEF AloneOK, OnlyRuns
<1>3. FormNow(db, u.form, U)
  <2>1. CASE Over(v, todo)
    BY <2>1 DEF Page, FormNow
  <2>2. CASE ~Over(v, todo)
    <3>1. Clicked(v, Head(todo)).form = v.form
      BY ClickSets DEF PageFields
    <3> QED BY <2>2, <3>1 DEF Page, FormNow
  <2> QED BY <2>1, <2>2
<1>4. IsRunning(x) => TaskNow(db, u, x)
  BY ForwardTask
<1>5. \A k \in DOMAIN U : IsRunning(U[k]) => TaskNow(db, u, U[k])
  BY <1>4 DEF OnlyRuns
<1>6. NothingYet(u)
  BY PageYet
<1> QED BY <1>1, <1>2, <1>3, <1>5, <1>6 DEF InStep

-----------------------------------------------------------------------------
(* What the user does, on a page that is quiet.                             *)

LEMMA SetsInStep ==
  ASSUME InStep(server, ui, tasks), NoneRuns(tasks), NEW u, Alike(ui, u), Sets(u),
         u.form \in {NoForm, ui.form} \/ FormRow(server, u.form)
  PROVE  InStep(server, ui, tasks)'
<1>1. FormNow(server, u.form, tasks)
  BY DEF FormNow, NoneRuns, InStep
<1>2. InStep(server, u, tasks)
  BY <1>1, InStepAlike
<1> QED BY <1>2 DEF Sets

LEMMA OneMore ==
  ASSUME NEW T, T \in Seq(Elements(T)), NoneRuns(T), NEW x, NEW U, U = Append(T, x)
  PROVE  \E t \in DOMAIN U : U[t] = x /\ OnlyRuns(U, t)
<1>1. Added(T, x, U)
  BY TaskAdded
<1>2. Len(T) \in Nat /\ DOMAIN T = 1..Len(T)
  BY LenProperties
<1> DEFINE t == Len(T) + 1
<1>3. t \in DOMAIN U /\ U[t] = x
  BY <1>1, <1>2 DEF Added
<1>4. \A k \in DOMAIN U \ {t} : k \in DOMAIN T /\ U[k] = T[k]
  BY <1>1, <1>2 DEF Added
<1> HIDE DEF t
<1>5. OnlyRuns(U, t)
  BY <1>4 DEF OnlyRuns, NoneRuns
<1> QED BY <1>3, <1>5

LEMMA ReadsInStep ==
  ASSUME UiInv, InStep(server, ui, tasks), NoneRuns(tasks), NEW v, DOMAIN v = PageFields,
         v.form = NoForm, v.api = TRUE, NothingYet(v), NEW s \in Later(Contacts),
         \A f \in Parts : Fresh(server, v, f) \/ Will(v, s, f), Calls(v, <<s>>, "none")
  PROVE  InStep(server, ui, tasks)'
<1> DEFINE todo == <<s>>
<1> DEFINE u == Page(v, todo)
<1> DEFINE x == Continued(v, todo, "none")
<1>1. Contacts \in Nat /\ tasks \in Seq(Elements(tasks))
  BY Numbers DEF UiInv, TasksOK
<1>2. todo \in Seq(Steps(Contacts)) /\ Head(todo) = s /\ DOMAIN todo = 1..1 /\ todo[1] = s
      /\ Len(todo) = 1
  <2>1. s \in Steps(Contacts)
    BY DEF Steps
  <2> QED BY <2>1
<1>3. RefreshContacts(TRUE) \notin Later(Contacts)
  <2>1. RefreshContacts(TRUE).do = "contacts" /\ RefreshContacts(TRUE) # RefreshContacts(FALSE)
    BY DEF RefreshContacts
  <2> QED BY <1>1, <2>1, Laters
<1>4. ui' = u /\ tasks' = Append(tasks, x) /\ server' = server
  BY DEF Calls
<1>5. u = Page(v, todo) /\ x = Continued(v, todo, "none")
  OBVIOUS
<1> HIDE DEF u, x, todo
<1>6. ReloadsLast(todo)
  BY <1>2 DEF ReloadsLast
<1>7. \A f \in Parts : Fresh(server, v, f) \/ Planned(v, todo, f)
  BY <1>2 DEF Planned
<1>8. PICK t \in DOMAIN tasks' : tasks'[t] = x /\ OnlyRuns(tasks', t)
  BY <1>1, <1>4, OneMore
<1>9. todo # << >> /\ Head(todo) = RefreshContacts(TRUE) => Tail(todo) = <<RefreshDeals>>
  BY <1>2, <1>3
<1>10. InStep(server, u, tasks')
  BY <1>1, <1>2, <1>5, <1>6, <1>7, <1>8, <1>9, OneForward
<1> QED BY <1>4, <1>10

LEMMA PlanReloads ==
  ASSUME NEW db, NEW w, NEW todo, PlanOK(db, w, todo)
  PROVE  ReloadsLast(todo)
<1>1. /\ RefreshContacts(FALSE).do # "reload" /\ RefreshDeals.do # "reload"
      /\ \A c : Select(c).do # "reload"
  BY DEF RefreshContacts, RefreshDeals, Select
<1>2. CASE \E c \in Nat : todo = <<RefreshContacts(FALSE), Select(c), RefreshDeals>>
  <2>1. PICK c \in Nat : todo = <<RefreshContacts(FALSE), Select(c), RefreshDeals>>
    BY <1>2
  <2>2. DOMAIN todo = 1..3 /\ todo[1] = RefreshContacts(FALSE) /\ todo[2] = Select(c)
        /\ todo[3] = RefreshDeals
    BY <2>1
  <2>3. \A i \in DOMAIN todo : i = 1 \/ i = 2 \/ i = 3
    BY <2>2
  <2>4. todo[1].do # "reload" /\ todo[2].do # "reload" /\ todo[3].do # "reload"
    BY <1>1, <2>2
  <2> QED BY <2>3, <2>4 DEF ReloadsLast
<1>3. CASE \E of \in Nat : todo = <<RefreshDeals, ReloadSelected(of)>>
  <2>1. PICK of \in Nat : todo = <<RefreshDeals, ReloadSelected(of)>>
    BY <1>3
  <2>2. DOMAIN todo = 1..2 /\ todo[1] = RefreshDeals /\ Len(todo) = 2
    BY <2>1
  <2> QED BY <1>1, <2>2 DEF ReloadsLast
<1>4. CASE todo = <<ReloadSelected(None)>>
  <2>1. DOMAIN todo = 1..1 /\ Len(todo) = 1
    BY <1>4
  <2> QED BY <2>1 DEF ReloadsLast
<1> QED BY <1>2, <1>3, <1>4 DEF PlanOK

LEMMA WritesInStep ==
  ASSUME UiInv, InStep(server, ui, tasks), NoneRuns(tasks), NEW v, Alike(ui, v),
         v.api = TRUE, NEW w, w.do = "write", NEW todo, todo # << >>, Head(todo) = w,
         PlanOK(server, w, Tail(todo)), Copied(server, w.kind, w.id, w.values, w.touched),
         \/ v.form = NoForm
         \/ /\ FormRow(server, v.form) /\ w.kind = v.form.kind /\ w.id = v.form.id
            /\ w.id # None => w.values = v.form.values,
         NEW catch, Calls(v, todo, catch)
  PROVE  InStep(server, ui, tasks)'
<1> DEFINE x == Continued(v, todo, catch)
<1>1. ~Over(v, todo)
  BY DEF Over, Skipped
<1>2. Page(v, todo) = v
  BY <1>1 DEF Page, Clicked
<1>3. x.step = w /\ x.then = Tail(todo) /\ x.got = << >>
  BY <1>1 DEF Continued, Begun
<1>4. ui' = v /\ tasks' = Append(tasks, x) /\ server' = server
  BY <1>2 DEF Calls
<1> HIDE DEF x
<1>5. tasks \in Seq(Elements(tasks))
  BY DEF UiInv, TasksOK
<1>6. PICK t \in DOMAIN tasks' : tasks'[t] = x /\ OnlyRuns(tasks', t)
  BY <1>4, <1>5, OneMore
<1>7. AllFresh(server, v)
  <2>1. AllFresh(server, ui)
    BY QuietFresh DEF InStep
  <2> QED BY <2>1, FreshAlike DEF AllFresh
<1>8. PartsOK(server, v, tasks')
  BY <1>7 DEF PartsOK, AllFresh
<1>9. AloneOK(tasks')
  BY <1>6 DEF AloneOK, OnlyRuns
<1>10. FormNow(server, v.form, tasks')
  BY <1>3, <1>6 DEF FormNow, OnlyRuns, Saving
<1>11. TaskNow(server, v, x)
  <2>1. ReloadsLast(x.then)
    BY <1>3, PlanReloads
  <2>2. WriteNow(server, v, x)
    BY <1>3, <1>7 DEF WriteNow
  <2> QED BY <1>3, <2>1, <2>2 DEF TaskNow
<1>12. \A k \in DOMAIN tasks' : IsRunning(tasks'[k]) => TaskNow(server, v, tasks'[k])
  BY <1>6, <1>11 DEF OnlyRuns
<1>13. NothingYet(v)
  <2>1. v.selectedId = ui.selectedId /\ v.contact = ui.contact /\ v.contactDeals = ui.contactDeals
    BY AlikeFields DEF OfSelected
  <2> QED BY <2>1 DEF InStep, NothingYet
<1>14. InStep(server, v, tasks')
  BY <1>8, <1>9, <1>10, <1>12, <1>13 DEF InStep
<1> QED BY <1>4, <1>14

LEMMA PageSets ==
  ASSUME NEW u, DOMAIN u = PageFields, NEW a
  PROVE  /\ Alike(u, [u EXCEPT !.actNote = a]) /\ [u EXCEPT !.actNote = a].form = u.form
         /\ Alike(u, [u EXCEPT !.dragging = a]) /\ [u EXCEPT !.dragging = a].form = u.form
         /\ [u EXCEPT !.dragging = a].api = u.api
         /\ Alike(u, [u EXCEPT !.form = a, !.formError = Blank])
         /\ [u EXCEPT !.form = a, !.formError = Blank].form = a
BY DEF PageFields, Alike, Parts, OfSelected

LEMMA ClosedAlike ==
  ASSUME NEW u, DOMAIN u = PageFields
  PROVE  /\ Alike(u, Closed(u)) /\ Closed(u).form = NoForm /\ DOMAIN Closed(u) = PageFields
         /\ Closed(u).api = u.api
BY DEF Closed, PageFields, Alike, Parts, OfSelected

(* The user may act, and what that means.                                   *)
MayStep == UiInv /\ InStep(server, ui, tasks) /\ NoneRuns(tasks) /\ ui.api = TRUE

LEMMA UserSees ==
  ASSUME MayStep
  PROVE  /\ AllFresh(server, ui) /\ DOMAIN ui = PageFields /\ NothingYet(ui) /\ ServerOK
         /\ FormNow(server, ui.form, tasks) /\ FormOK(Contacts, Deals, ui.form)
         /\ ui.api = TRUE
BY QuietFresh DEF MayStep, InStep, UiInv, PageOK

LEMMA SelectContactInStep ==
  ASSUME MayStep, NEW c \in DOMAIN server.contact, SelectContact(c)
  PROVE  InStep(server, ui, tasks)'
<1>1. c \in 1..Contacts
  BY UserSees, ServerTypes
<1>2. Select(c) \in Later(Contacts)
  BY <1>1, SelectIsLater
<1>3. ui.form = NoForm /\ Calls(ui, <<Select(c)>>, "none")
  BY DEF SelectContact, AtPage, FormOpen
<1>4. \A f \in Parts : Fresh(server, ui, f)
  BY UserSees DEF AllFresh
<1> QED BY <1>2, <1>3, <1>4, UserSees, ReadsInStep DEF MayStep

LEMMA OnSearchInStep ==
  ASSUME MayStep, NEW text, OnSearch(text)
  PROVE  InStep(server, ui, tasks)'
<1> DEFINE v == [ui EXCEPT !.search = text]
<1>1. ui.form = NoForm /\ Calls(v, <<RefreshContacts(FALSE)>>, "none")
  BY DEF OnSearch, AtPage, FormOpen
<1>2. /\ DOMAIN v = PageFields /\ v.form = ui.form /\ v.selectedId = ui.selectedId
      /\ v.api = TRUE /\ v.allDeals = ui.allDeals /\ v.contact = ui.contact /\ v.contactDeals = ui.contactDeals
      /\ \A f \in OfSelected : v[f] = ui[f]
  BY UserSees DEF PageFields, OfSelected
<1> HIDE DEF v
<1> DEFINE s == RefreshContacts(FALSE)
<1>3. s \in Later(Contacts) /\ s.do = "contacts"
  BY DEF Later, RefreshContacts
<1> HIDE DEF s
<1>4. NothingYet(v)
  BY <1>2, UserSees DEF NothingYet
<1>5. ASSUME NEW f \in Parts
      PROVE  Fresh(server, v, f) \/ Will(v, s, f)
  <2>1. Fresh(server, ui, f)
    BY UserSees DEF AllFresh
  <2>2. CASE f = "contacts"
    BY <1>3, <2>2 DEF Will
  <2>3. CASE f # "contacts"
    BY <1>2, <2>1, <2>3 DEF Fresh
  <2> QED BY <2>2, <2>3
<1>6. Calls(v, <<s>>, "none")
  BY <1>1 DEF s
<1> QED BY <1>1, <1>2, <1>3, <1>4, <1>5, <1>6, ReadsInStep DEF MayStep

LEMMA GoFormContactInStep ==
  ASSUME MayStep, GoFormContact
  PROVE  InStep(server, ui, tasks)'
<1> DEFINE c == ui.form.dealContact
           v == Closed(ui)
<1>1. c \in 1..Contacts
  <2>1. c # 0 /\ c \in 0..Contacts
    BY UserSees DEF GoFormContact, AtDialog, FormOpen, FormOK, None
  <2> HIDE DEF c
  <2> QED BY <2>1
<1>2. Calls(v, <<Select(c)>>, "none")
  BY DEF GoFormContact
<1> HIDE DEF c
<1>3. Select(c) \in Later(Contacts)
  BY <1>1, SelectIsLater
<1>4. Alike(ui, v) /\ v.form = NoForm /\ DOMAIN v = PageFields /\ v.api = TRUE
  BY UserSees, ClosedAlike
<1> HIDE DEF v
<1>5. \A f \in Parts : Fresh(server, v, f)
  BY <1>4, UserSees, FreshAlike DEF AllFresh
<1>6. NothingYet(v)
  <2>1. v.selectedId = ui.selectedId /\ v.contact = ui.contact /\ v.contactDeals = ui.contactDeals
    BY <1>4, AlikeFields DEF OfSelected
  <2> QED BY <2>1, UserSees DEF NothingYet
<1> QED BY <1>2, <1>3, <1>4, <1>5, <1>6, ReadsInStep DEF MayStep

LEMMA TypeNoteInStep ==
  ASSUME MayStep, NEW text, TypeNote(text)
  PROVE  InStep(server, ui, tasks)'
<1> DEFINE u == [ui EXCEPT !.actNote = text]
<1>1. Sets(u)
  BY DEF TypeNote
<1>2. Alike(ui, u) /\ u.form = ui.form
  BY UserSees, PageSets
<1> HIDE DEF u
<1> QED BY <1>1, <1>2, SetsInStep DEF MayStep

LEMMA DragsInStep ==
  ASSUME MayStep, NEW d, Sets([ui EXCEPT !.dragging = d])
  PROVE  InStep(server, ui, tasks)'
<1> DEFINE u == [ui EXCEPT !.dragging = d]
<1>1. Sets(u)
  OBVIOUS
<1>2. Alike(ui, u) /\ u.form = ui.form
  BY UserSees, PageSets
<1> HIDE DEF u
<1> QED BY <1>1, <1>2, SetsInStep DEF MayStep

LEMMA CloseFormInStep ==
  ASSUME MayStep, CloseForm
  PROVE  InStep(server, ui, tasks)'
<1>1. Sets(Closed(ui))
  BY DEF CloseForm
<1> QED BY <1>1, UserSees, ClosedAlike, SetsInStep DEF MayStep

(* A dialog opens with what is stored.                                      *)
LEMMA DialogsInStep ==
  ASSUME MayStep, NEW f, FormRow(server, f), Sets(Opened(f))
  PROVE  InStep(server, ui, tasks)'
<1> DEFINE u == [ui EXCEPT !.form = f, !.formError = Blank]
<1>1. Sets(u)
  BY DEF Opened
<1>2. Alike(ui, u) /\ u.form = f
  BY UserSees, PageSets
<1> HIDE DEF u
<1> QED BY <1>1, <1>2, SetsInStep DEF MayStep

LEMMA NewDialogs ==
  ASSUME MayStep, NewContact \/ OpenDealForm
  PROVE  InStep(server, ui, tasks)'
<1>1. ASSUME NEW kind, NEW values
      PROVE  FormRow(server, Dialog(kind, None, None, values))
  BY DEF FormRow, Dialog, Copied
<1> QED BY <1>1, DialogsInStep DEF NewContact, OpenDealForm

LEMMA EditContactInStep ==
  ASSUME MayStep, EditContact
  PROVE  InStep(server, ui, tasks)'
<1> DEFINE c == ui.selectedId
           f == Dialog("contact", ui.contact.id, None, [name |-> ui.contact.name])
<1>1. c # None
  BY UserSees DEF EditContact, NothingYet
<1>2. ui.contact = Spread(server.contact[c], [id |-> c])
  <2>1. Fresh(server, ui, "contact")
    BY UserSees DEF AllFresh, Parts, OfSelected
  <2>2. ui.contact = Answer(server, "contact", Select(c))
    BY <1>1, <2>1 DEF Fresh, OfSelected
  <2> QED BY <2>2 DEF Answer, Select
<1>3. server.contact[c] \in [name : STRING]
  <2>1. c \in 0..Contacts /\ Contacts \in Nat
    BY Numbers DEF MayStep, UiInv, PageOK
  <2>2. c \in 1..Contacts
    BY <1>1, <2>1 DEF None
  <2> QED BY <2>2, UserSees, ServerTypes
<1> HIDE DEF c
<1>4. ui.contact.id = c /\ ui.contact.name = server.contact[c].name
  BY <1>2, <1>3 DEF Spread
<1>5. FormRow(server, f)
  BY <1>4 DEF FormRow, Dialog, Copied
<1>6. Sets(Opened(f))
  BY DEF EditContact
<1> HIDE DEF f
<1> QED BY <1>5, <1>6, DialogsInStep

LEMMA RowsShown ==
  ASSUME ServerOK, NEW ids, ids \subseteq 1..Deals, NEW d \in DOMAIN DealRows(server, ids)
  PROVE  /\ d \in 1..Deals
         /\ DealRows(server, ids)[d].contact = server.deal[d].contact
         /\ DealRows(server, ids)[d].title = server.deal[d].title
         /\ DealRows(server, ids)[d].stage = server.deal[d].stage
         /\ DealRows(server, ids)[d].close = server.deal[d].close
<1>1. d \in ids /\ server.deal[d] \in [contact : Nat, title : STRING, stage : STRING, close : STRING]
  BY ServerTypes DEF DealRows
<1> QED BY <1>1 DEF DealRows, Spread

LEMMA DealDetailInStep ==
  ASSUME MayStep, NEW ids, ids \subseteq 1..Deals, NEW deals, deals = DealRows(server, ids),
         NEW d, OpenDealDetail(deals, d)
  PROVE  InStep(server, ui, tasks)'
<1> DEFINE f == Dialog("deal", d, deals[d].contact,
                       [title |-> deals[d].title, stage |-> deals[d].stage,
                        close |-> deals[d].close])
<1>1. d \in DOMAIN DealRows(server, ids) /\ Sets(Opened(f))
  BY DEF OpenDealDetail
<1>2. /\ d \in 1..Deals /\ deals[d].contact = server.deal[d].contact
      /\ deals[d].title = server.deal[d].title /\ deals[d].stage = server.deal[d].stage
      /\ deals[d].close = server.deal[d].close
  BY <1>1, RowsShown, UserSees
<1>3. d # None
  <2>1. Deals \in Nat
    BY UserSees, Numbers
  <2> QED BY <1>2, <2>1 DEF None
<1>4. FormRow(server, f)
  BY <1>2, <1>3 DEF FormRow, Dialog, Copied
<1> HIDE DEF f
<1> QED BY <1>1, <1>4, DialogsInStep

LEMMA OpenDealDetailInStep ==
  ASSUME MayStep, NEW d, OpenDealDetail(ui.allDeals, d) \/ OpenDealDetail(ui.contactDeals.rows, d)
  PROVE  InStep(server, ui, tasks)'
<1>1. DOMAIN server.deal = 1..Deals
  BY UserSees, ServerTypes
<1>2. CASE OpenDealDetail(ui.allDeals, d)
  <2>1. Fresh(server, ui, "allDeals")
    BY UserSees DEF AllFresh, Parts
  <2>2. ui.allDeals = DealRows(server, DOMAIN server.deal)
    BY <2>1 DEF Fresh, Answer
  <2> QED BY <1>1, <1>2, <2>2, DealDetailInStep
<1>3. CASE OpenDealDetail(ui.contactDeals.rows, d)
  <2> DEFINE c == ui.selectedId
             ids == OfContact(server, "deal", c)
  <2>1. c # None
    BY <1>3, UserSees DEF OpenDealDetail, NothingYet
  <2>2. Fresh(server, ui, "contactDeals")
    BY UserSees DEF AllFresh, Parts, OfSelected
  <2>3. ui.contactDeals = Answer(server, "contactDeals", Select(c))
    BY <2>1, <2>2 DEF Fresh, OfSelected
  <2>4. ui.contactDeals.rows = DealRows(server, ids)
    BY <2>3 DEF Answer, Select
  <2>5. ids \subseteq 1..Deals
    BY <1>1 DEF OfContact
  <2> HIDE DEF ids
  <2> QED BY <1>3, <2>4, <2>5, DealDetailInStep
<1> QED BY <1>2, <1>3

LEMMA OnFieldChangeInStep ==
  ASSUME MayStep, NEW field, NEW text, OnFieldChange(field, text)
  PROVE  InStep(server, ui, tasks)'
<1> DEFINE f == ui.form
           values == [f.values EXCEPT ![field] = text]
           g == [[f EXCEPT !.values = values] EXCEPT !.touched = f.touched \cup {field}]
           v == [ui EXCEPT !.form = g]
<1>1. /\ DOMAIN ui = PageFields /\ FormOK(Contacts, Deals, f) /\ f # NoForm
      /\ FormRow(server, f)
  BY UserSees DEF OnFieldChange, AtDialog, FormOpen, FormNow
<1>2. DOMAIN f = {"kind", "id", "dealContact", "values", "touched"}
  BY <1>1 DEF FormOK
<1>3. Sets(v)
  <2>1. Sets([ui EXCEPT !.form.values[field] = text, !.form.touched = @ \cup {field}])
    BY DEF OnFieldChange
  <2>2. [ui EXCEPT !.form.values[field] = text, !.form.touched = @ \cup {field}] = v
    BY <1>1, <1>2 DEF PageFields
  <2> HIDE DEF v
  <2> QED BY <2>1, <2>2
<1>4. DOMAIN values = DOMAIN f.values /\ \A x \in DOMAIN f.values \ {field} : values[x] = f.values[x]
  OBVIOUS
<1> HIDE DEF values
<1>5. /\ g.kind = f.kind /\ g.id = f.id /\ g.dealContact = f.dealContact
      /\ g.values = values /\ g.touched = f.touched \cup {field}
  BY <1>2
<1> HIDE DEF g
<1>6. Alike(ui, v) /\ v.form = g
  BY <1>1 DEF PageFields, Alike, Parts, OfSelected
<1> HIDE DEF v, f
<1>7. FormRow(server, g)
  BY <1>1, <1>4, <1>5 DEF FormRow, Copied
<1> QED BY <1>3, <1>6, <1>7, SetsInStep DEF MayStep

(* A save is followed by all the refreshes that it calls for.               *)
LEMMA LogActivityInStep ==
  ASSUME MayStep, LogActivity
  PROVE  InStep(server, ui, tasks)'
<1> DEFINE values == [contact |-> ui.selectedId, note |-> ui.actNote]
           w == Write("activity", None, values, {"note"})
           todo == <<w, ReloadSelected(None)>>
<1>1. ui.form = NoForm /\ Calls(ui, todo, "act")
  BY DEF LogActivity, AtPage, FormOpen
<1> HIDE DEF values
<1>2. w.do = "write" /\ w.kind = "activity" /\ w.id = None
  BY DEF Write
<1>3. todo # << >> /\ Head(todo) = w /\ Tail(todo) = <<ReloadSelected(None)>>
  OBVIOUS
<1> HIDE DEF w, todo
<1>4. PlanOK(server, w, Tail(todo))
  BY <1>2, <1>3 DEF PlanOK
<1>5. Copied(server, w.kind, w.id, w.values, w.touched)
  BY <1>2 DEF Copied
<1>6. Alike(ui, ui)
  BY DEF Alike
<1> QED BY <1>1, <1>2, <1>3, <1>4, <1>5, <1>6, WritesInStep DEF MayStep

LEMMA DropInStep ==
  ASSUME MayStep, NEW stage, Drop(stage)
  PROVE  InStep(server, ui, tasks)'
<1> DEFINE v == [ui EXCEPT !.dragging = None]
           w == Write("deal", ui.dragging, [stage |-> stage], {"stage"})
           todo == <<w>> \o AfterMove
<1>1. ui.form = NoForm /\ Calls(v, todo, "none")
  BY DEF Drop, AtPage, FormOpen
<1>2. Alike(ui, v) /\ v.form = ui.form /\ v.api = TRUE
  BY UserSees, PageSets
<1>3. /\ w.do = "write" /\ w.kind = "deal" /\ DOMAIN w.values = {"stage"} /\ w.touched = {"stage"}
  BY DEF Write
<1> HIDE DEF v, w
<1>4. todo # << >> /\ Head(todo) = w /\ Tail(todo) = AfterMove
  <2>1. AfterMove \in Seq({RefreshDeals, ReloadSelected(None)})
    BY DEF AfterMove
  <2> QED BY <2>1, FirstAndRest
<1> HIDE DEF todo
<1>5. PlanOK(server, w, Tail(todo))
  <2>1. None \in Nat
    BY DEF None
  <2> QED BY <1>3, <1>4, <2>1 DEF PlanOK, AfterMove
<1>6. Copied(server, w.kind, w.id, w.values, w.touched)
  BY <1>3 DEF Copied
<1> QED BY <1>1, <1>2, <1>3, <1>4, <1>5, <1>6, WritesInStep DEF MayStep

LEMMA SubmitFormInStep ==
  ASSUME MayStep, SubmitForm
  PROVE  InStep(server, ui, tasks)'
<1> DEFINE f == ui.form
           w == FormWrite
           rest == AfterSave(f)
           todo == <<w>> \o rest
<1>1. FormOpen /\ Calls(ui, todo, "form")
  BY DEF SubmitForm, AtDialog
<1>2. FormOK(Contacts, Deals, f) /\ f # NoForm /\ FormRow(server, f) /\ Contacts \in Nat /\ Deals \in Nat
  BY <1>1, UserSees, Numbers DEF FormNow, FormOpen
<1>3. /\ w.do = "write" /\ w.kind = f.kind /\ w.id = f.id /\ w.touched = f.touched
      /\ f.id # None => w.values = f.values
  BY DEF FormWrite, Write
<1>4. ThenOK(Contacts, w, rest)
  BY <1>1, AfterSaveOK DEF MayStep
<1> HIDE DEF w
<1>5. PlanOK(server, w, rest)
  <2>1. CASE f.kind = "contact"
    <3>1. f.id \in Nat
      BY <1>2, <2>1 DEF FormOK
    <3> QED BY <1>3, <2>1, <3>1 DEF PlanOK, AfterSave
  <2>2. CASE f.kind = "deal"
    <3>1. f.dealContact \in Nat
      BY <1>2 DEF FormOK
    <3>2. f.dealContact = IF f.id = None THEN None ELSE server.deal[f.id].contact
      BY <1>2, <2>2 DEF FormRow
    <3>3. rest = <<RefreshDeals, ReloadSelected(f.dealContact)>>
      BY <2>2 DEF AfterSave
    <3> HIDE DEF f, rest
    <3> QED BY <1>3, <2>2, <3>1, <3>2, <3>3 DEF PlanOK
  <2> QED BY <1>2, <2>1, <2>2 DEF FormOK
<1> HIDE DEF rest
<1>6. todo # << >> /\ Head(todo) = w /\ Tail(todo) = rest
  <2>1. rest \in Seq(Later(Contacts)) \/ rest \in Seq(Later(Contacts) \cup {Select(None)})
    BY <1>3, <1>4 DEF ThenOK
  <2> QED BY <2>1, FirstAndRest
<1> HIDE DEF todo
<1>7. Copied(server, w.kind, w.id, w.values, w.touched)
  BY <1>2, <1>3 DEF FormRow, Copied
<1>8. Alike(ui, ui)
  BY DEF Alike
<1> QED BY <1>1, <1>2, <1>3, <1>5, <1>6, <1>7, <1>8, WritesInStep DEF MayStep

LEMMA QuietRuns == Quiet <=> NoneRuns(tasks)
BY DEF Quiet, Running, NoneRuns, IsRunning

LEMMA UserInStep ==
  ASSUME Patient, UiInv, ApiOK(ui, tasks), InStep(server, ui, tasks), User
  PROVE  InStep(server, ui, tasks)'
<1> DEFINE Goal == InStep(server, ui, tasks)'
<1> SUFFICES Goal
  OBVIOUS
<1> HIDE DEF Goal
<1>0. NoneRuns(tasks) => ui.api = TRUE
  <2>1. Import("api").do = "import"
    BY DEF Import
  <2> QED BY <2>1 DEF ApiOK, NoneRuns, IsRunning, UiInv, MountOK
<1>1. MayAct => MayStep
  BY <1>0, QuietRuns DEF MayAct, MayStep
<1>2. (AtPage => MayAct) /\ (AtDialog => MayAct)
  BY DEF AtPage, AtDialog
<1>3. ASSUME NEW c \in DOMAIN server.contact, SelectContact(c)
      PROVE  Goal
  BY <1>1, <1>2, <1>3, SelectContactInStep DEF SelectContact, Goal
<1>4. ASSUME NEW text \in Searches, OnSearch(text)
      PROVE  Goal
  BY <1>1, <1>2, <1>4, OnSearchInStep DEF OnSearch, Goal
<1>5. ASSUME NEW text \in Notes, TypeNote(text)
      PROVE  Goal
  BY <1>1, <1>2, <1>5, TypeNoteInStep DEF TypeNote, Goal
<1>6. CASE LogActivity
  BY <1>1, <1>2, <1>6, LogActivityInStep DEF LogActivity, Goal
<1>7. CASE NewContact \/ OpenDealForm
  BY <1>1, <1>2, <1>7, NewDialogs DEF NewContact, OpenDealForm, Goal
<1>8. CASE EditContact
  BY <1>1, <1>2, <1>8, EditContactInStep DEF EditContact, Goal
<1>9. ASSUME NEW stage \in Stages, Drop(stage)
      PROVE  Goal
  BY <1>1, <1>2, <1>9, DropInStep DEF Drop, Goal
<1>10. ASSUME NEW d, OpenDealDetail(ui.allDeals, d) \/ OpenDealDetail(ui.contactDeals.rows, d)
       PROVE  Goal
  <2>1. AtPage
    BY <1>10 DEF OpenDealDetail
  <2> QED BY <1>1, <1>2, <1>10, <2>1, OpenDealDetailInStep DEF Goal
<1>11. ASSUME NEW d, DragStart(d)
       PROVE  Goal
  BY <1>1, <1>2, <1>11, DragsInStep DEF DragStart, Goal
<1>12. ASSUME NEW field \in {"name", "title", "stage", "close"}, NEW text \in Choices(field),
              OnFieldChange(field, text)
       PROVE  Goal
  BY <1>1, <1>2, <1>12, OnFieldChangeInStep DEF OnFieldChange, Goal
<1>13. CASE CloseForm
  BY <1>1, <1>2, <1>13, CloseFormInStep DEF CloseForm, Goal
<1>14. CASE GoFormContact
  BY <1>1, <1>2, <1>14, GoFormContactInStep DEF GoFormContact, Goal
<1>15. CASE SubmitForm
  BY <1>1, <1>2, <1>15, SubmitFormInStep DEF SubmitForm, Goal
<1>16. CASE DragEnd
  BY <1>1, <1>2, <1>16, DragsInStep DEF DragEnd, Goal
<1> QED BY <1>3, <1>4, <1>5, <1>6, <1>7, <1>8, <1>9, <1>10, <1>11, <1>12, <1>13, <1>14, <1>15,
           <1>16 DEF User

-----------------------------------------------------------------------------
(* A request is carried out.                                                *)

SameSteps(T, U) ==
  DOMAIN U = DOMAIN T /\ \A k \in DOMAIN T : U[k].step = T[k].step /\ U[k].then = T[k].then

LEMMA SameStepsKeep ==
  ASSUME NEW T, NEW U, SameSteps(T, U), NEW db, NEW u, NEW f
  PROVE  /\ PartsOK(db, u, T) => PartsOK(db, u, U)
         /\ AloneOK(T) => AloneOK(U)
         /\ FormNow(db, f, T) => FormNow(db, f, U)
         /\ \A k \in DOMAIN U : IsRunning(U[k]) => k \in DOMAIN T /\ IsRunning(T[k])
<1>1. \A k \in DOMAIN T : k \in DOMAIN U /\ IsRunning(U[k]) = IsRunning(T[k])
  BY DEF SameSteps, IsRunning
<1>2. \A k \in DOMAIN T : \A g : Coming(u, T[k], g) => Coming(u, U[k], g)
  BY <1>1 DEF SameSteps, Coming
<1>3. PartsOK(db, u, T) => PartsOK(db, u, U)
  BY <1>1, <1>2 DEF PartsOK
<1>4. AloneOK(T) => AloneOK(U)
  BY <1>1 DEF AloneOK, Apart, SameSteps
<1>5. FormNow(db, f, T) => FormNow(db, f, U)
  BY <1>1 DEF FormNow, Saving, SameSteps
<1> QED BY <1>1, <1>3, <1>4, <1>5 DEF SameSteps

LEMMA OneRuns ==
  ASSUME NEW T, AloneOK(T), NEW t \in DOMAIN T, IsRunning(T[t]),
         T[t].step.do \notin {"deals", "select"}
  PROVE  OnlyRuns(T, t)
BY DEF AloneOK, OnlyRuns, Apart

LEMMA ServeSteps ==
  ASSUME UiInv, NEW t \in DOMAIN tasks, NEW field, Serve(t, field)
  PROVE  /\ SameSteps(tasks, tasks')
         /\ \A k \in DOMAIN tasks \ {t} : tasks'[k] = tasks[k]
         /\ field \notin DOMAIN tasks[t].got /\ field \in Fields(tasks[t].step)
         /\ DOMAIN tasks'[t].got = DOMAIN tasks[t].got \cup {field}
         /\ \A f \in DOMAIN tasks[t].got : tasks'[t].got[f] = tasks[t].got[f]
         /\ IF tasks[t].step.do = "write"
            THEN tasks'[t].got[field].ok <=> Accepted(tasks[t].step)
            ELSE tasks'[t].got[field] = Answer(server, field, tasks[t].step)
         /\ server' = IF tasks[t].step.do = "write" /\ Accepted(tasks[t].step)
                      THEN Carried(tasks[t].step) ELSE server
         /\ ui' = ui
<1> DEFINE s == tasks[t].step
           ok == s.do = "write" /\ Accepted(s)
           answer == IF s.do # "write" THEN Answer(server, field, s)
                     ELSE [ok |-> ok, id |-> IF s.id = None THEN Len(server[s.kind]) + 1 ELSE s.id]
           more == [f \in {field} |-> answer]
           got == Spread(tasks[t].got, more)
           x == [tasks[t] EXCEPT !.got = got]
<1>1. /\ server' = IF ok THEN Carried(s) ELSE server
      /\ tasks' = [tasks EXCEPT ![t].got = got] /\ ui' = ui
      /\ field \in Fields(s) \ DOMAIN tasks[t].got
  BY DEF Serve
<1>2. TaskOK(Contacts, Deals, tasks[t]) /\ tasks \in Seq(Elements(tasks))
  BY DEF UiInv, TasksOK
<1>3. IF s.do = "write" THEN answer.ok <=> Accepted(s) ELSE answer = Answer(server, field, s)
  <2>1. CASE s.do = "write"
    <3>1. answer.ok <=> Accepted(s)
      <4>1. answer.ok = ok
        BY <2>1
      <4> HIDE DEF answer
      <4> QED BY <2>1, <4>1
    <3> HIDE DEF answer, s
    <3> QED BY <2>1, <3>1
  <2> QED BY <2>1
<1> HIDE DEF answer
<1>4. DOMAIN more = {field} /\ more[field] = answer
  OBVIOUS
<1> HIDE DEF more
<1>5. /\ DOMAIN got = DOMAIN tasks[t].got \cup {field} /\ got[field] = answer
      /\ \A f \in DOMAIN tasks[t].got : got[f] = tasks[t].got[f]
  BY <1>1, <1>4 DEF Spread
<1> HIDE DEF got
<1>6. x.step = s /\ x.then = tasks[t].then /\ x.got = got
  BY <1>2 DEF TaskOK
<1>7. tasks' = [tasks EXCEPT ![t] = x]
  BY <1>1
<1> HIDE DEF x
<1>8. /\ DOMAIN tasks' = DOMAIN tasks /\ tasks'[t] = x
      /\ \A k \in DOMAIN tasks \ {t} : tasks'[k] = tasks[k]
  BY <1>2, <1>7, TaskSet
<1>9. SameSteps(tasks, tasks')
  BY <1>6, <1>8 DEF SameSteps
<1> QED BY <1>1, <1>3, <1>5, <1>6, <1>8, <1>9

LEMMA ServeSame ==
  ASSUME UiInv, InStep(server, ui, tasks), NEW t \in DOMAIN tasks, NEW field, Serve(t, field),
         ~(tasks[t].step.do = "write" /\ Accepted(tasks[t].step))
  PROVE  InStep(server, ui, tasks)'
<1> DEFINE s == tasks[t].step
           U == tasks'
<1>1. /\ SameSteps(tasks, U) /\ \A k \in DOMAIN tasks \ {t} : U[k] = tasks[k]
      /\ field \notin DOMAIN tasks[t].got /\ field \in Fields(s)
      /\ DOMAIN U[t].got = DOMAIN tasks[t].got \cup {field}
      /\ \A f \in DOMAIN tasks[t].got : U[t].got[f] = tasks[t].got[f]
      /\ s.do # "write" => U[t].got[field] = Answer(server, field, s)
      /\ s.do = "write" => ~U[t].got[field].ok
      /\ server' = server /\ ui' = ui
  BY ServeSteps
<1>2. IsRunning(tasks[t])
  BY DEF Serve, Running, IsRunning
<1>3. U[t].step = s /\ U[t].then = tasks[t].then
  BY <1>1 DEF SameSteps
<1> HIDE DEF U
<1>4. TaskNow(server, ui, tasks[t])
  BY <1>2 DEF InStep
<1>5. TaskNow(server, ui, U[t])
  <2>1. CASE s.do # "write"
    <3>1. \A f \in DOMAIN U[t].got : U[t].got[f] = Answer(server, f, s)
      BY <1>1, <1>4, <2>1 DEF TaskNow
    <3> QED BY <1>3, <1>4, <2>1, <3>1 DEF TaskNow
  <2>2. CASE s.do = "write"
    <3>1. field = "saved"
      BY <1>1, <2>2 DEF Fields
    <3>2. WriteNow(server, ui, tasks[t])
      BY <1>4, <2>2 DEF TaskNow
    <3>3. WriteNow(server, ui, U[t])
      BY <1>1, <1>3, <2>2, <3>1, <3>2 DEF WriteNow
    <3> QED BY <1>3, <1>4, <2>2, <3>3 DEF TaskNow
  <2> QED BY <2>1, <2>2
<1>6. \A k \in DOMAIN U : IsRunning(U[k]) => TaskNow(server, ui, U[k])
  <2>1. \A k \in DOMAIN U : IsRunning(U[k]) => k \in DOMAIN tasks /\ IsRunning(tasks[k])
    BY <1>1, SameStepsKeep
  <2> QED BY <1>1, <1>5, <2>1 DEF InStep
<1>7. PartsOK(server, ui, U) /\ AloneOK(U) /\ FormNow(server, ui.form, U)
  BY <1>1, SameStepsKeep DEF InStep
<1>8. InStep(server, ui, U)
  BY <1>6, <1>7 DEF InStep
<1> QED BY <1>1, <1>8 DEF U

(* What an accepted write changes in the store, and what it leaves alone.    *)
LEMMA WriteChanges ==
  ASSUME ServerOK, NEW w, WriteOK(Contacts, Deals, w), Accepted(w), server' = Carried(w)
  PROVE  /\ \A kind \in {"contact", "deal", "activity"} \ {w.kind} : server'[kind] = server[kind]
         /\ \A i \in 1..Len(server[w.kind]) : i # w.id => server'[w.kind][i] = server[w.kind][i]
         /\ w.id # None => /\ w.id \in 1..Len(server[w.kind])
                           /\ server'[w.kind][w.id] = Spread(server[w.kind][w.id], w.values)
                           /\ Len(server'[w.kind]) = Len(server[w.kind])
         /\ w.kind = "deal" /\ w.id # None =>
              server'.deal[w.id].contact = server.deal[w.id].contact
<1>1. /\ server \in Tables /\ DOMAIN server = {"contact", "deal", "activity"}
      /\ w.kind \in {"contact", "deal", "activity"}
  BY DEF ServerOK, Tables, WriteOK
<1>2. /\ Grown(server[w.kind], server'[w.kind], w)
      /\ \A kind \in DOMAIN server \ {w.kind} : server'[kind] = server[kind]
  BY <1>1, CarriedTables
<1>3. \E S : /\ server[w.kind] \in Seq(S)
             /\ w.id = None => w.values \in S
             /\ w.id # None => /\ w.id \in 1..Len(server[w.kind])
                               /\ Spread(server[w.kind][w.id], w.values) \in S
  <2>1. Contacts \in Nat /\ Deals \in Nat
    BY Numbers
  <2>2. CASE w.kind = "contact"
    <3>1. server.contact \in Seq([name : STRING])
      BY <1>1 DEF Tables
    <3>2. w.id \in 0..Contacts /\ (IF w.id = None THEN w.values \in [name : STRING]
                                   ELSE Spread(server.contact[w.id], w.values) \in [name : STRING])
      BY <2>2, WrittenRow
    <3>3. w.id # None => w.id \in 1..Len(server.contact)
      BY <2>1, <3>2 DEF Contacts, None
    <3> QED BY <2>2, <3>1, <3>2, <3>3
  <2>3. CASE w.kind = "deal"
    <3> DEFINE S == [contact : Nat, title : STRING, stage : STRING, close : STRING]
    <3>1. server.deal \in Seq(S)
      BY <1>1 DEF Tables
    <3>2. \/ w.id = None /\ w.values \in S
          \/ w.id \in 1..Deals /\ Spread(server.deal[w.id], w.values) \in S
      BY <2>3, WrittenRow
    <3>3. w.id \in 1..Deals => w.id # None
      BY <2>1 DEF None
    <3> HIDE DEF S
    <3> QED BY <2>3, <3>1, <3>2, <3>3 DEF Deals
  <2>4. CASE w.kind = "activity"
    <3> DEFINE S == [contact : Nat, note : STRING]
    <3>1. server.activity \in Seq(S)
      BY <1>1 DEF Tables
    <3>2. w.id = None /\ w.values \in S
      BY <2>4, WrittenRow
    <3> HIDE DEF S
    <3> QED BY <2>4, <3>1, <3>2
  <2> QED BY <1>1, <2>2, <2>3, <2>4
<1>4. PICK S : /\ server[w.kind] \in Seq(S)
               /\ w.id = None => w.values \in S
               /\ w.id # None => /\ w.id \in 1..Len(server[w.kind])
                                 /\ Spread(server[w.kind][w.id], w.values) \in S
  BY <1>3
<1>5. /\ \A i \in 1..Len(server[w.kind]) : i # w.id => server'[w.kind][i] = server[w.kind][i]
      /\ w.id # None => /\ Len(server'[w.kind]) = Len(server[w.kind])
                        /\ server'[w.kind][w.id] = Spread(server[w.kind][w.id], w.values)
  BY <1>2, <1>4, TableGrows
<1>6. w.kind = "deal" /\ w.id # None => server'.deal[w.id].contact = server.deal[w.id].contact
  <2>1. w.kind = "deal" /\ w.id # None =>
          Spread(server.deal[w.id], w.values).contact = server.deal[w.id].contact
    BY WrittenRow
  <2> QED BY <1>5, <2>1
<1> QED BY <1>1, <1>2, <1>4, <1>5, <1>6

LEMMA FreshInTables ==
  ASSUME NEW old, NEW new, NEW u
  PROVE  /\ new.contact = old.contact =>
              /\ Fresh(old, u, "contacts") => Fresh(new, u, "contacts")
              /\ Fresh(old, u, "contact") => Fresh(new, u, "contact")
         /\ new.contact = old.contact /\ new.deal = old.deal =>
              /\ Fresh(old, u, "allDeals") => Fresh(new, u, "allDeals")
              /\ Fresh(old, u, "contactDeals") => Fresh(new, u, "contactDeals")
         /\ new.activity = old.activity =>
              (Fresh(old, u, "activities") => Fresh(new, u, "activities"))
<1>1. \A s : new.contact = old.contact => Answer(new, "contacts", s) = Answer(old, "contacts", s)
                                          /\ Answer(new, "contact", s) = Answer(old, "contact", s)
  BY DEF Answer, Found
<1>2. \A s : new.contact = old.contact /\ new.deal = old.deal =>
               Answer(new, "allDeals", s) = Answer(old, "allDeals", s)
               /\ Answer(new, "contactDeals", s) = Answer(old, "contactDeals", s)
  BY DEF Answer, DealRows, OfContact
<1>3. \A s : new.activity = old.activity =>
               Answer(new, "activities", s) = Answer(old, "activities", s)
  BY DEF Answer, OfContact
<1> QED BY <1>1, <1>2, <1>3 DEF Fresh, OfSelected

(* A deal saved for one contact leaves the deals of another alone.           *)
LEMMA OthersDeals ==
  ASSUME NEW old, NEW new, new.contact = old.contact, DOMAIN new.deal = DOMAIN old.deal, NEW k,
         \A d \in DOMAIN old.deal : d # k => new.deal[d] = old.deal[d],
         new.deal[k].contact = old.deal[k].contact,
         NEW u, u.selectedId # old.deal[k].contact, Fresh(old, u, "contactDeals")
  PROVE  Fresh(new, u, "contactDeals")
<1> DEFINE c == u.selectedId
           ids == OfContact(old, "deal", c)
<1>1. OfContact(new, "deal", c) = ids
  BY DEF OfContact
<1>2. ids \subseteq DOMAIN old.deal \ {k}
  BY DEF OfContact
<1>3. \A d \in ids : new.deal[d] = old.deal[d]
  BY <1>2
<1> HIDE DEF ids
<1>4. DealRows(new, ids) = DealRows(old, ids)
  BY <1>3 DEF DealRows
<1>5. Answer(new, "contactDeals", Select(c)) = Answer(old, "contactDeals", Select(c))
  BY <1>1, <1>4 DEF Answer, Select, ids
<1> QED BY <1>5 DEF Fresh, OfSelected

(* What a write made stale will be fetched by the steps that follow it.     *)
LEMMA WritePlanned ==
  ASSUME UiInv, NEW w, WriteOK(Contacts, Deals, w), Accepted(w), server' = Carried(w),
         AllFresh(server, ui), NEW todo, PlanOK(server, w, todo), NEW f \in Parts
  PROVE  Fresh(server', ui, f) \/ Planned(ui, todo, f)
<1> DEFINE new == server'
<1> SUFFICES Fresh(new, ui, f) \/ Planned(ui, todo, f)
  OBVIOUS
<1>1. /\ ServerOK /\ ServerOK' /\ AllFresh(server, ui)
      /\ \A kind \in {"contact", "deal", "activity"} \ {w.kind} : new[kind] = server[kind]
      /\ \A i \in 1..Len(server[w.kind]) : i # w.id => new[w.kind][i] = server[w.kind][i]
      /\ w.id # None => Len(new[w.kind]) = Len(server[w.kind])
      /\ w.kind = "deal" /\ w.id # None => new.deal[w.id].contact = server.deal[w.id].contact
  BY WriteChanges, CarriedOK DEF UiInv
<1>2. DOMAIN server.deal = 1..Len(server.deal) /\ DOMAIN new.deal = 1..Len(new.deal)
  BY <1>1, LenProperties DEF ServerOK, Tables
<1> HIDE DEF new
<1>3. Fresh(server, ui, f)
  BY <1>1 DEF AllFresh
<1>4. CASE w.kind = "contact"
  <2>1. PICK c \in Nat : todo = <<RefreshContacts(FALSE), Select(c), RefreshDeals>>
    BY <1>4 DEF PlanOK
  <2>2. /\ 1 \in DOMAIN todo /\ todo[1] = RefreshContacts(FALSE)
        /\ 2 \in DOMAIN todo /\ todo[2] = Select(c)
        /\ 3 \in DOMAIN todo /\ todo[3] = RefreshDeals
    BY <2>1
  <2>3. todo[1].do = "contacts" /\ todo[2].do = "select" /\ todo[3].do = "deals"
    BY <2>2 DEF RefreshContacts, Select, RefreshDeals
  <2> QED BY <2>2, <2>3 DEF Planned, Will, Parts
<1>5. CASE w.kind = "deal"
  <2>1. PICK of \in Nat : /\ todo = <<RefreshDeals, ReloadSelected(of)>>
                          /\ of = None \/ (w.id # None /\ of = server.deal[w.id].contact)
    BY <1>5 DEF PlanOK
  <2>2. /\ 1 \in DOMAIN todo /\ todo[1] = RefreshDeals
        /\ 2 \in DOMAIN todo /\ todo[2] = ReloadSelected(of)
    BY <2>1
  <2>3. todo[1].do = "deals" /\ todo[2].do = "reload" /\ todo[2].of = of
    BY <2>2 DEF ReloadSelected, RefreshDeals
  <2>4. new.contact = server.contact /\ new.activity = server.activity
    BY <1>1, <1>5
  <2>5. CASE f = "allDeals"
    BY <2>2, <2>3, <2>5 DEF Planned, Will
  <2>6. CASE f = "contacts"
    BY <1>3, <2>4, <2>6, FreshInTables
  <2>7. CASE f \in OfSelected /\ of \in {None, ui.selectedId}
    BY <2>2, <2>3, <2>7 DEF Planned, Will
  <2>8. CASE f \in OfSelected /\ of \notin {None, ui.selectedId}
    <3>1. w.id # None /\ of = server.deal[w.id].contact /\ ui.selectedId # of
      BY <2>1, <2>8
    <3>2. /\ DOMAIN new.deal = DOMAIN server.deal
          /\ \A d \in DOMAIN server.deal : d # w.id => new.deal[d] = server.deal[d]
          /\ new.deal[w.id].contact = server.deal[w.id].contact
          /\ ui.selectedId # server.deal[w.id].contact
      BY <1>1, <1>2, <1>5, <3>1
    <3>3. Fresh(server, ui, "contactDeals") => Fresh(new, ui, "contactDeals")
      BY <2>4, <3>2, OthersDeals
    <3> QED BY <1>3, <2>4, <2>8, <3>3, FreshInTables DEF OfSelected
  <2> QED BY <2>5, <2>6, <2>7, <2>8 DEF Parts
<1>6. CASE w.kind = "activity"
  <2>1. todo = <<ReloadSelected(None)>>
    BY <1>6 DEF PlanOK
  <2>2. 1 \in DOMAIN todo /\ todo[1] = ReloadSelected(None)
    BY <2>1
  <2>3. todo[1].do = "reload" /\ todo[1].of = None
    BY <2>2 DEF ReloadSelected
  <2>4. CASE f \in OfSelected
    BY <2>2, <2>3, <2>4 DEF Planned, Will
  <2>5. CASE f \in {"contacts", "allDeals"}
    <3>1. new.contact = server.contact /\ new.deal = server.deal
      BY <1>1, <1>6
    <3> QED BY <1>3, <2>5, <3>1, FreshInTables
  <2> QED BY <2>4, <2>5 DEF Parts
<1> QED BY <1>4, <1>5, <1>6 DEF WriteOK

LEMMA FormAfter ==
  ASSUME ServerOK, NEW w, WriteOK(Contacts, Deals, w), Accepted(w), server' = Carried(w),
         NEW f, FormRow(server, f), w.kind = f.kind, w.id = f.id,
         f.id # None => w.values = f.values
  PROVE  FormRow(server', f)
<1> DEFINE new == server'
<1> SUFFICES FormRow(new, f)
  OBVIOUS
<1>1. /\ w.id # None => new[w.kind][w.id] = Spread(server[w.kind][w.id], w.values)
      /\ w.kind = "deal" /\ w.id # None => new.deal[w.id].contact = server.deal[w.id].contact
  BY WriteChanges
<1> HIDE DEF new
<1>2. Copied(new, f.kind, f.id, f.values, f.touched)
  <2> SUFFICES ASSUME f.id # None, NEW g \in DOMAIN f.values \ f.touched
               PROVE  f.values[g] = new[f.kind][f.id][g]
    BY DEF Copied
  <2>1. new[f.kind][f.id] = Spread(server[f.kind][f.id], f.values)
    BY <1>1
  <2> QED BY <2>1 DEF Spread
<1> QED BY <1>1, <1>2 DEF FormRow

LEMMA ServeWrite ==
  ASSUME UiInv, InStep(server, ui, tasks), NEW t \in DOMAIN tasks, NEW field, Serve(t, field),
         tasks[t].step.do = "write", Accepted(tasks[t].step)
  PROVE  InStep(server, ui, tasks)'
<1> DEFINE w == tasks[t].step
           todo == tasks[t].then
           U == tasks'
           new == server'
<1>1. /\ SameSteps(tasks, U) /\ field \notin DOMAIN tasks[t].got /\ field \in Fields(w)
      /\ DOMAIN U[t].got = DOMAIN tasks[t].got \cup {field}
      /\ U[t].got[field].ok /\ server' = Carried(w) /\ ui' = ui
  BY ServeSteps
<1>2. field = "saved"
  BY <1>1 DEF Fields
<1>3. IsRunning(tasks[t])
  BY DEF IsRunning
<1>4. OnlyRuns(tasks, t)
  BY <1>3, OneRuns DEF InStep
<1>5. TaskNow(server, ui, tasks[t])
  BY <1>3 DEF InStep
<1>6. /\ PlanOK(server, w, todo) /\ AllFresh(server, ui) /\ ReloadsLast(todo)
  BY <1>1, <1>2, <1>5 DEF TaskNow, WriteNow
<1>7. ServerOK /\ WriteOK(Contacts, Deals, w)
  BY DEF UiInv, TasksOK, TaskOK, StepOK
<1>8. U[t].step = w /\ U[t].then = todo /\ DOMAIN U = DOMAIN tasks /\ w.do = "write"
  BY <1>1 DEF SameSteps
<1>9. Accepted(w)
  OBVIOUS
<1>10. \A f \in Parts : Fresh(new, ui, f) \/ Planned(ui, todo, f)
  <2> HIDE DEF w, todo
  <2> QED BY <1>1, <1>6, <1>7, <1>9, WritePlanned
<1>11. PlanOK(new, w, todo)
  <2>1. w.kind = "deal" /\ w.id # None => new.deal[w.id].contact = server.deal[w.id].contact
    <3> HIDE DEF w
    <3> QED BY <1>1, <1>7, <1>9, WriteChanges
  <2> HIDE DEF new, w, todo
  <2> QED BY <1>6, <2>1 DEF PlanOK
<1>12. FormNow(new, ui.form, U)
  <2>1. FormNow(server, ui.form, tasks)
    BY DEF InStep
  <2>2. FormNow(server, ui.form, U)
    BY <1>1, <2>1, SameStepsKeep
  <2>3. ui.form # NoForm => FormRow(new, ui.form)
    <3>1. ui.form # NoForm => FormRow(server, ui.form) /\ Saving(ui.form, tasks[t])
      BY <1>3, <2>1 DEF FormNow
    <3>2. ui.form # NoForm => /\ w.kind = ui.form.kind /\ w.id = ui.form.id
                              /\ ui.form.id # None => w.values = ui.form.values
      BY <3>1 DEF Saving
    <3> HIDE DEF w
    <3> QED BY <1>1, <1>7, <1>9, <3>1, <3>2, FormAfter
  <2> HIDE DEF new, U
  <2> QED BY <2>2, <2>3 DEF FormNow
<1> HIDE DEF new, U, w, todo
<1>13. IsRunning(U[t])
  BY <1>8 DEF IsRunning
<1>14. PartsOK(new, ui, U)
  BY <1>8, <1>10, <1>13 DEF PartsOK, Coming
<1>15. AloneOK(U)
  BY <1>1, SameStepsKeep DEF InStep
<1>16. TaskNow(new, ui, U[t])
  BY <1>1, <1>2, <1>6, <1>8, <1>11 DEF TaskNow, WriteNow
<1>17. \A k \in DOMAIN U : IsRunning(U[k]) => TaskNow(new, ui, U[k])
  <2>1. \A k \in DOMAIN U : IsRunning(U[k]) => k \in DOMAIN tasks /\ IsRunning(tasks[k])
    BY <1>1, SameStepsKeep
  <2> QED BY <1>4, <1>16, <2>1 DEF OnlyRuns
<1>18. InStep(new, ui, U)
  BY <1>12, <1>14, <1>15, <1>17 DEF InStep
<1> QED BY <1>1, <1>18 DEF U, new

-----------------------------------------------------------------------------
(* A method goes on with the answers that it has.                           *)

LEMMA ReadSteps ==
  ASSUME UiInv, InStep(server, ui, tasks), NEW t \in DOMAIN tasks, Answered(t),
         tasks[t].step.do # "write"
  PROVE  /\ IsRunning(tasks[t]) /\ tasks[t].step.do \in {"import", "contacts", "deals", "select"}
         /\ tasks[t].step.do = "select" => tasks[t].step.id \in 1..Contacts
         /\ TaskNow(server, ui, tasks[t]) /\ ui.form = NoForm
         /\ DOMAIN tasks[t].got = Fields(tasks[t].step)
         /\ Fields(tasks[t].step) \subseteq Parts \cup {"api", "tests"}
         /\ tasks[t].step.do = "import" => Fields(tasks[t].step) \cap Parts = {}
<1>1. IsRunning(tasks[t]) /\ DOMAIN tasks[t].got = Fields(tasks[t].step)
  BY DEF Answered, Running, IsRunning
<1>2. StepOK(Contacts, Deals, tasks[t].step)
  BY DEF UiInv, TasksOK, TaskOK
<1>3. ui.form = NoForm
  BY <1>1 DEF InStep, FormNow, Saving
<1>4. /\ Fields(tasks[t].step) \subseteq Parts \cup {"api", "tests"}
      /\ tasks[t].step.do = "import" => Fields(tasks[t].step) \cap Parts = {}
  BY <1>1, <1>2 DEF StepOK, IsRunning, Fields, Parts, OfSelected
<1> QED BY <1>1, <1>2, <1>3, <1>4 DEF InStep, StepOK, IsRunning

(* What is shown of the answers is what is stored.                          *)
LEMMA ShownFresh ==
  ASSUME UiInv, InStep(server, ui, tasks), NEW t \in DOMAIN tasks, Answered(t),
         tasks[t].step.do # "write", NEW v, v = Shown(ui, t)
  PROVE  /\ DOMAIN v = PageFields /\ v.form = NoForm
         /\ v.search = ui.search /\ v.selectedId = ui.selectedId /\ NothingYet(v)
         /\ \A f \in Parts : /\ f \in Fields(tasks[t].step) => Fresh(server, v, f)
                             /\ Fresh(server, ui, f) => Fresh(server, v, f)
<1> DEFINE s == tasks[t].step
           got == tasks[t].got
<1>1. /\ DOMAIN ui = PageFields /\ ui.form = NoForm /\ TaskNow(server, ui, tasks[t])
      /\ DOMAIN got = Fields(s) /\ Fields(s) \subseteq Parts \cup {"api", "tests"}
      /\ s.do = "import" => Fields(s) \cap Parts = {}
      /\ s.do \in {"import", "contacts", "deals", "select"} /\ NothingYet(ui)
      /\ s.do = "select" => s.id \in 1..Contacts
  BY ReadSteps DEF UiInv, PageOK, InStep
<1>2. \A f \in Fields(s) : got[f] = Answer(server, f, s)
  BY <1>1 DEF TaskNow
<1>3. v = [f \in DOMAIN ui |-> IF f \in DOMAIN got THEN got[f] ELSE ui[f]]
  BY DEF Shown
<1>4. /\ s.do = "contacts" => s.search = ui.search
      /\ s.do = "select" => s.id = ui.selectedId
  BY <1>1 DEF TaskNow
<1> HIDE DEF s, got
<1>5. DOMAIN v = PageFields /\ \A f \in PageFields :
                                 v[f] = IF f \in Fields(s) THEN Answer(server, f, s) ELSE ui[f]
  BY <1>1, <1>2, <1>3
<1>6. v.search = ui.search /\ v.selectedId = ui.selectedId /\ v.form = ui.form
  BY <1>1, <1>5 DEF PageFields, Parts, OfSelected
<1>7. Parts \subseteq PageFields
  BY DEF PageFields, Parts, OfSelected
<1>8. ASSUME NEW f \in Parts, f \in Fields(s)
      PROVE  Fresh(server, v, f)
  <2>1. v[f] = Answer(server, f, s)
    BY <1>5, <1>7, <1>8
  <2>2. CASE f = "contacts"
    <3>1. s.do = "contacts"
      BY <1>1, <1>8, <2>2 DEF Fields
    <3>2. Answer(server, "contacts", s) = Answer(server, "contacts", [search |-> v.search])
      BY <1>4, <1>6, <3>1 DEF Answer
    <3> QED BY <2>1, <2>2, <3>2 DEF Fresh, OfSelected
  <2>3. CASE f = "allDeals"
    <3>1. Answer(server, "allDeals", s) = Answer(server, "allDeals", << >>)
      BY DEF Answer
    <3> QED BY <2>1, <2>3, <3>1 DEF Fresh, OfSelected
  <2>4. CASE f \in OfSelected
    <3>1. s.do = "select"
      BY <1>1, <1>8, <2>4 DEF Fields, OfSelected
    <3>2. Select(v.selectedId).id = s.id
      BY <1>4, <1>6, <3>1 DEF Select
    <3>3. Answer(server, f, s) = Answer(server, f, Select(v.selectedId))
      BY <2>4, <3>2 DEF Answer, OfSelected
    <3> QED BY <2>1, <2>4, <3>3 DEF Fresh, OfSelected
  <2> QED BY <2>2, <2>3, <2>4 DEF Parts
<1>9. ASSUME NEW f \in Parts, f \notin Fields(s), Fresh(server, ui, f)
      PROVE  Fresh(server, v, f)
  <2>1. v[f] = ui[f]
    BY <1>5, <1>7, <1>9
  <2>2. CASE f = "contacts"
    BY <1>6, <1>9, <2>1, <2>2 DEF Fresh, OfSelected
  <2>3. CASE f # "contacts"
    BY <1>6, <1>9, <2>1, <2>3 DEF Fresh, OfSelected
  <2> QED BY <2>2, <2>3
<1>10. NothingYet(v)
  <2>1. CASE s.do = "select"
    <3>1. v.selectedId # None
      BY <1>1, <1>4, <1>6, <2>1 DEF None
    <3> QED BY <3>1 DEF NothingYet
  <2>2. CASE s.do # "select"
    <3>1. "contact" \notin Fields(s) /\ "contactDeals" \notin Fields(s)
      BY <1>1, <2>2 DEF Fields, Parts, OfSelected
    <3>2. v.contact = ui.contact /\ v.contactDeals = ui.contactDeals
      BY <1>5, <3>1 DEF PageFields
    <3> QED BY <1>1, <1>6, <3>2 DEF NothingYet
  <2> QED BY <2>1, <2>2
<1> QED BY <1>1, <1>5, <1>6, <1>8, <1>9, <1>10 DEF s

LEMMA NotTheFirst ==
  ASSUME NEW n \in Nat, NEW todo \in Seq(Later(n)) \cup Rests
  PROVE  /\ todo \in Seq(Steps(n))
         /\ todo # << >> /\ Head(todo) = RefreshContacts(TRUE) => Tail(todo) = <<RefreshDeals>>
<1>1. CASE todo \in Seq(Later(n))
  <2>1. RefreshContacts(TRUE) \notin Later(n)
    <3>1. RefreshContacts(TRUE).do = "contacts" /\ RefreshContacts(TRUE) # RefreshContacts(FALSE)
      BY DEF RefreshContacts
    <3> QED BY <3>1, Laters
  <2>2. Later(n) \subseteq Steps(n)
    BY DEF Steps
  <2>3. todo # << >> => Head(todo) \in Later(n)
    BY <1>1, HeadAndTail
  <2>4. todo \in Seq(Steps(n))
    <3>1. todo \in [1..Len(todo) -> Later(n)] /\ Len(todo) \in Nat
      BY <1>1, LenProperties
    <3>2. todo \in [1..Len(todo) -> Steps(n)]
      BY <2>2, <3>1
    <3> QED BY <3>1, <3>2, SeqDef
  <2> QED BY <2>1, <2>3, <2>4
<1>2. CASE todo \in Rests
  <2>1. Import("tests") # RefreshContacts(TRUE)
    <3>1. Import("tests").do = "import" /\ RefreshContacts(TRUE).do = "contacts"
      BY DEF Import, RefreshContacts
    <3> QED BY <3>1
  <2> DEFINE S == Steps(n)
             a == Import("tests")
             b == RefreshContacts(TRUE)
             c == RefreshDeals
  <2>2. a \in S /\ b \in S /\ c \in S
    BY DEF Steps, Mounting, Later
  <2>3. todo = <<a, b, c>> \/ todo = <<b, c>>
    BY <1>2 DEF Rests
  <2>4. \/ Head(todo) = a
        \/ Head(todo) = b /\ Tail(todo) = <<c>>
    BY <1>2, RestsBegin
  <2> HIDE DEF S, a, b, c
  <2>5. <<a, b, c>> \in Seq(S) /\ <<b, c>> \in Seq(S)
    BY <2>2
  <2>6. todo \in Seq(S)
    BY <2>3, <2>5
  <2> QED BY <2>1, <2>4, <2>6 DEF S, a, b, c
<1> QED BY <1>1, <1>2

LEMMA TaskReplaced ==
  ASSUME NEW T, T \in Seq(Elements(T)), NEW t \in DOMAIN T, NEW x, NEW U, U = [T EXCEPT ![t] = x],
         OnlyRuns(T, t)
  PROVE  t \in DOMAIN U /\ U[t] = x /\ OnlyRuns(U, t)
BY TaskSet DEF OnlyRuns

(* The steps left ask for the same parts as before the write was answered.  *)
LEMMA LeftPlanned ==
  ASSUME UiInv, NEW t \in DOMAIN tasks, Answered(t),
         tasks[t].step.do = "write" => tasks[t].got.saved.ok,
         ReloadsLast(tasks[t].then)
  PROVE  /\ ReloadsLast(Left(t))
         /\ \A u, f : Planned(u, tasks[t].then, f) => Planned(u, Left(t), f)
<1> DEFINE todo == tasks[t].then
           id == tasks[t].got.saved.id
<1>1. Left(t) = [i \in DOMAIN todo |-> IF todo[i] = Select(None) THEN Select(id) ELSE todo[i]]
  BY DEF Left
<1>2. \A c : Select(c).do = "select"
  BY DEF Select
<1>3. Left(t) \in Seq(Steps(Contacts))
  BY LeftOK, NotTheFirst, Numbers DEF UiInv
<1>4. \E S : todo \in Seq(S)
  <2>1. ThenOK(Contacts, tasks[t].step, todo)
    BY DEF UiInv, TasksOK, TaskOK
  <2>2. todo \in Rests => todo \in Seq(Steps(Contacts))
    BY NotTheFirst, Numbers DEF UiInv
  <2> QED BY <2>1, <2>2 DEF ThenOK
<1>5. DOMAIN todo = 1..Len(todo) /\ Len(todo) \in Nat
  BY <1>4, LenProperties
<1> HIDE DEF todo, id
<1>6. DOMAIN Left(t) = DOMAIN todo
  BY <1>1
<1>7. Len(Left(t)) = Len(todo)
  BY <1>3, <1>5, <1>6, LenProperties
<1>8. \A i \in DOMAIN todo : \/ Left(t)[i] = todo[i]
                             \/ Left(t)[i].do = "select" /\ todo[i].do = "select"
  BY <1>1, <1>2
<1>9. ReloadsLast(Left(t))
  BY <1>6, <1>7, <1>8 DEF ReloadsLast, todo
<1>10. ASSUME NEW u, NEW f, Planned(u, todo, f)
       PROVE  Planned(u, Left(t), f)
  BY <1>6, <1>8, <1>10 DEF Planned, Will
<1> QED BY <1>9, <1>10 DEF todo

(* A read that runs alone goes on.                                          *)
LEMMA ResumeAlone ==
  ASSUME UiInv, InStep(server, ui, tasks), NEW t \in DOMAIN tasks, Answered(t),
         tasks[t].step.do # "write", OnlyRuns(tasks, t), GoesOn(t)
  PROVE  InStep(server, ui, tasks)'
<1> DEFINE v == Shown(ui, t)
           todo == Left(t)
           u == Page(v, todo)
           x == Continued(v, todo, tasks[t].catch)
<1>1. ui' = u /\ tasks' = [tasks EXCEPT ![t] = x] /\ server' = server
  BY DEF GoesOn
<1>2. /\ TaskNow(server, ui, tasks[t]) /\ Contacts \in Nat /\ tasks \in Seq(Elements(tasks))
  BY ReadSteps, Numbers DEF UiInv, TasksOK
<1>3. todo \in Seq(Later(Contacts)) \cup Rests /\ todo = tasks[t].then /\ ReloadsLast(todo)
  BY <1>2, LeftOK DEF TaskNow
<1>4. todo \in Seq(Steps(Contacts))
      /\ (todo # << >> /\ Head(todo) = RefreshContacts(TRUE) => Tail(todo) = <<RefreshDeals>>)
  <2> HIDE DEF todo
  <2> QED BY <1>2, <1>3, NotTheFirst
<1>5. /\ DOMAIN v = PageFields /\ v.form = NoForm /\ NothingYet(v) /\ v.selectedId = ui.selectedId
      /\ \A f \in Parts : /\ f \in Fields(tasks[t].step) => Fresh(server, v, f)
                          /\ Fresh(server, ui, f) => Fresh(server, v, f)
  BY ShownFresh
<1>6. u = Page(v, todo) /\ x = Continued(v, todo, tasks[t].catch)
  OBVIOUS
<1> HIDE DEF u, x, v, todo
<1>7. ASSUME NEW f \in Parts
      PROVE  Fresh(server, v, f) \/ Planned(v, todo, f)
  <2>1. Fresh(server, ui, f) \/ Coming(ui, tasks[t], f)
    BY DEF InStep, PartsOK, OnlyRuns, Coming
  <2>2. Coming(ui, tasks[t], f) => Coming(v, tasks[t], f)
    BY <1>5, ComingStays
  <2> QED BY <1>3, <1>5, <2>1, <2>2 DEF Coming
<1>8. t \in DOMAIN tasks' /\ tasks'[t] = x /\ OnlyRuns(tasks', t)
  BY <1>1, <1>2, TaskReplaced
<1>9. InStep(server, u, tasks')
  BY <1>2, <1>3, <1>4, <1>5, <1>6, <1>7, <1>8, OneForward
<1> QED BY <1>1, <1>9

(* One of the two reads under way as the page opens ends.                    *)
LEMMA ResumeApart ==
  ASSUME UiInv, InStep(server, ui, tasks), NEW t \in DOMAIN tasks, Answered(t),
         tasks[t].step.do # "write", ~OnlyRuns(tasks, t), GoesOn(t)
  PROVE  InStep(server, ui, tasks)'
<1> DEFINE v == Shown(ui, t)
           U == tasks'
<1>1. IsRunning(tasks[t]) /\ ui.form = NoForm /\ TaskNow(server, ui, tasks[t])
  BY ReadSteps
<1>2. PICK y \in DOMAIN tasks \ {t} : IsRunning(tasks[y])
  BY DEF OnlyRuns
<1>3. \A k \in DOMAIN tasks \ {t} : IsRunning(tasks[k]) => Apart(tasks[t], tasks[k])
  BY <1>1 DEF InStep, AloneOK
<1>4. tasks[t].then = << >>
  BY <1>2, <1>3 DEF Apart
<1>5. Left(t) = << >>
  BY <1>4, LeftOK
<1>6. ui' = v /\ tasks' = [tasks EXCEPT ![t] = Ended] /\ server' = server
  BY <1>5 DEF GoesOn, Page, Continued, Over
<1>7. tasks \in Seq(Elements(tasks))
  BY DEF UiInv, TasksOK
<1>8. DOMAIN U = DOMAIN tasks /\ U[t] = Ended /\ \A k \in DOMAIN tasks \ {t} : U[k] = tasks[k]
  BY <1>6, <1>7, TaskSet
<1>9. ~IsRunning(Ended)
  BY DEF IsRunning, Ended
<1>10. /\ v.form = NoForm /\ NothingYet(v) /\ v.selectedId = ui.selectedId /\ v.search = ui.search
       /\ \A f \in Parts : /\ f \in Fields(tasks[t].step) => Fresh(server, v, f)
                           /\ Fresh(server, ui, f) => Fresh(server, v, f)
  BY ShownFresh
<1> HIDE DEF v, U
<1>11. PartsOK(server, v, U)
  <2> SUFFICES ASSUME NEW f \in Parts
               PROVE  Fresh(server, v, f) \/ (\E k \in DOMAIN U : Coming(v, U[k], f))
    BY DEF PartsOK
  <2>1. Fresh(server, ui, f) \/ (\E k \in DOMAIN tasks : Coming(ui, tasks[k], f))
    BY DEF InStep, PartsOK
  <2>2. ASSUME NEW k \in DOMAIN tasks, Coming(ui, tasks[k], f)
        PROVE  Fresh(server, v, f) \/ Coming(v, U[k], f)
    <3>1. CASE k = t
      <4>1. ~Planned(ui, tasks[t].then, f)
        BY <1>4 DEF Planned
      <4> QED BY <1>10, <2>2, <3>1, <4>1 DEF Coming
    <3>2. CASE k # t
      BY <1>8, <1>10, <2>2, <3>2, ComingStays
    <3> QED BY <3>1, <3>2
  <2> QED BY <1>8, <1>10, <2>1, <2>2
<1>12. AloneOK(U)
  BY <1>8, <1>9 DEF InStep, AloneOK
<1>13. FormNow(server, v.form, U)
  BY <1>10 DEF FormNow
<1>14. ASSUME NEW k \in DOMAIN U, IsRunning(U[k])
       PROVE  TaskNow(server, v, U[k])
  <2>1. k \in DOMAIN tasks \ {t} /\ U[k] = tasks[k]
    BY <1>8, <1>9, <1>14
  <2>2. TaskNow(server, ui, tasks[k]) /\ tasks[k].step.do # "write"
    BY <1>3, <1>14, <2>1 DEF InStep, Apart
  <2> QED BY <1>10, <2>1, <2>2 DEF TaskNow
<1>15. InStep(server, v, U)
  BY <1>10, <1>11, <1>12, <1>13, <1>14 DEF InStep
<1> QED BY <1>6, <1>15 DEF U

(* The mount's list selects a contact: two methods run, each with its part. *)
LEMMA ResumeFirst ==
  ASSUME UiInv, InStep(server, ui, tasks), NEW t \in DOMAIN tasks, Answered(t), SelectsFirst(t),
         Resume(t)
  PROVE  InStep(server, ui, tasks)'
<1> DEFINE v == Shown(ui, t)
           got == tasks[t].got
<1>1. /\ IsRunning(tasks[t]) /\ tasks[t].step.do = "contacts" /\ tasks[t].then = <<RefreshDeals>>
      /\ DOMAIN got = {"contacts"} /\ ui.selectedId = None
  BY ReadSteps DEF SelectsFirst, TaskNow, Fields
<1>2. Left(t) = <<RefreshDeals>>
  BY <1>1, LeftOK
<1>3. PICK c \in DOMAIN got.contacts :
         /\ ui' = Page(Clicked(v, Select(c)), Left(t))
         /\ tasks' = Append([tasks EXCEPT ![t] = Continued(Clicked(v, Select(c)), Left(t), tasks[t].catch)],
                            Continued(Clicked(v, Select(c)), <<Select(c)>>, "none"))
         /\ server' = server
  BY DEF Resume
<1>4. c \in 1..Contacts /\ c # None
  <2>1. c \in 1..Contacts
    BY <1>1, <1>3 DEF UiInv, TasksOK, TaskOK, GotOK
  <2>2. Contacts \in Nat
    BY Numbers DEF UiInv
  <2> QED BY <2>1, <2>2 DEF None
<1> DEFINE u == Clicked(v, Select(c))
           y == Continued(u, <<RefreshDeals>>, tasks[t].catch)
           z == Continued(u, <<Select(c)>>, "none")
           T == [tasks EXCEPT ![t] = y]
<1>5. /\ DOMAIN v = PageFields /\ v.form = NoForm /\ NothingYet(v)
      /\ v.selectedId = ui.selectedId /\ v.search = ui.search
      /\ \A f \in Parts : /\ f \in Fields(tasks[t].step) => Fresh(server, v, f)
                          /\ Fresh(server, ui, f) => Fresh(server, v, f)
  BY <1>1, ShownFresh
<1> HIDE DEF v
<1>6. u.contacts = v.contacts /\ u.search = v.search /\ u.form = v.form /\ u.selectedId = c
  <2>1. Select(c).do = "select" /\ Select(c).id = c /\ Begun(v, Select(c)) = Select(c)
    BY DEF Select, Begun
  <2>2. /\ u.selectedId = Begun(v, Select(c)).id
        /\ \A f \in PageFields \ {"selectedId", "actNote", "actError"} : u[f] = v[f]
    <3> DEFINE s == Select(c)
    <3>1. s.do \in {"select", "reload"}
      BY <2>1
    <3> HIDE DEF s
    <3>2. /\ Clicked(v, s).selectedId = Begun(v, s).id
          /\ \A f \in PageFields \ {"selectedId", "actNote", "actError"} : Clicked(v, s)[f] = v[f]
      BY <1>5, <3>1, ClickSets
    <3> QED BY <3>2 DEF s
  <2> HIDE DEF u
  <2> QED BY <2>1, <2>2 DEF PageFields
<1>7. ~Over(u, <<RefreshDeals>>) /\ ~Over(u, <<Select(c)>>)
  BY DEF Over, Skipped, RefreshDeals, Select
<1>8. Page(u, <<RefreshDeals>>) = u
  BY <1>7 DEF Page, Clicked, RefreshDeals
<1>9. /\ y.step = RefreshDeals /\ y.then = << >> /\ y.got = << >>
      /\ z.step = Select(c) /\ z.then = << >> /\ z.got = << >>
  BY <1>7 DEF Continued, Begun, RefreshDeals, Select
<1>10. ui' = u /\ tasks' = Append(T, z) /\ server' = server
  BY <1>2, <1>3, <1>8
<1>11. RefreshDeals.do = "deals" /\ Select(c).do = "select" /\ Select(c).id = c
  BY DEF RefreshDeals, Select
<1>12. T = [tasks EXCEPT ![t] = y]
  OBVIOUS
<1> HIDE DEF u, y, z, T
<1>13. OnlyRuns(tasks, t) /\ tasks \in Seq(Elements(tasks))
  BY <1>1, OneRuns DEF InStep, UiInv, TasksOK
<1>14. /\ T \in Seq(Elements(T)) /\ DOMAIN T = DOMAIN tasks /\ t \in DOMAIN T /\ T[t] = y
       /\ OnlyRuns(T, t)
  BY <1>12, <1>13, TaskSet, TaskReplaced
<1> DEFINE U == tasks'
           l == Len(T) + 1
<1>15. Added(T, z, U)
  BY <1>10, <1>14, TaskAdded
<1>16. DOMAIN T = 1..Len(T) /\ Len(T) \in Nat
  BY <1>14, LenProperties
<1>17. /\ l \in DOMAIN U /\ t \in DOMAIN U /\ l # t /\ U[l] = z /\ U[t] = y
       /\ \A k \in DOMAIN U \ {t, l} : ~IsRunning(U[k])
  <2>1. /\ DOMAIN U = 1..(Len(T) + 1) /\ U[Len(T) + 1] = z
        /\ \A k \in 1..Len(T) : U[k] = T[k]
    BY <1>15 DEF Added
  <2>2. \A k \in DOMAIN U \ {t, l} : k \in DOMAIN T \ {t} /\ U[k] = T[k]
    BY <1>16, <2>1
  <2>3. \A k \in DOMAIN U \ {t, l} : ~IsRunning(U[k])
    BY <1>14, <2>2 DEF OnlyRuns
  <2>4. l # t /\ l \in DOMAIN U /\ t \in DOMAIN U /\ U[t] = y
    BY <1>14, <1>16, <2>1
  <2> QED BY <2>1, <2>3, <2>4
<1> HIDE DEF U, l
<1>18. IsRunning(y) /\ IsRunning(z)
  BY <1>9, <1>11 DEF IsRunning
<1>19. PartsOK(server, u, U)
  <2> SUFFICES ASSUME NEW f \in Parts
               PROVE  Fresh(server, u, f) \/ (\E k \in DOMAIN U : Coming(u, U[k], f))
    BY DEF PartsOK
  <2>1. CASE f = "contacts"
    <3>1. Fresh(server, v, f)
      BY <1>1, <1>5, <2>1 DEF Fields, Parts
    <3> QED BY <1>6, <2>1, <3>1 DEF Fresh, OfSelected
  <2>2. CASE f = "allDeals"
    <3>1. Coming(u, y, f)
      BY <1>9, <1>11, <1>18, <2>2 DEF Coming, Fields
    <3> QED BY <1>17, <3>1
  <2>3. CASE f \in OfSelected
    <3>1. Coming(u, z, f)
      BY <1>9, <1>11, <1>18, <2>3 DEF Coming, Fields, OfSelected
    <3> QED BY <1>17, <3>1
  <2> QED BY <2>1, <2>2, <2>3 DEF Parts
<1>20. AloneOK(U)
  BY <1>9, <1>11, <1>17 DEF AloneOK, Apart
<1>21. FormNow(server, u.form, U) /\ NothingYet(u)
  BY <1>4, <1>5, <1>6 DEF FormNow, NothingYet
<1>22. TaskNow(server, u, y) /\ TaskNow(server, u, z)
  <2>1. ReloadsLast(<< >>)
    BY DEF ReloadsLast
  <2>2. DOMAIN y.got = {} /\ DOMAIN z.got = {}
    BY <1>9
  <2> QED BY <1>6, <1>9, <1>11, <2>1, <2>2 DEF TaskNow
<1>23. InStep(server, u, U)
  BY <1>17, <1>19, <1>20, <1>21, <1>22 DEF InStep
<1> QED BY <1>10, <1>23 DEF U

(* A save is answered: its dialog closes, and the refreshes follow.          *)
LEMMA SavedAlike ==
  ASSUME UiInv, InStep(server, ui, tasks), NEW t \in DOMAIN tasks, IsRunning(tasks[t]),
         tasks[t].step.do = "write", NEW v, v = Saved(ui, tasks[t].step)
  PROVE  Alike(ui, v) /\ v.form = NoForm /\ DOMAIN v = PageFields
<1> DEFINE s == tasks[t].step
           f == ui.form
<1>1. DOMAIN ui = PageFields /\ FormOK(Contacts, Deals, f) /\ WriteOK(Contacts, Deals, s)
  BY DEF UiInv, PageOK, TasksOK, TaskOK, StepOK
<1>2. f # NoForm => Saving(f, tasks[t])
  BY DEF InStep, FormNow
<1>3. CASE s.kind = "activity"
  <2>1. f = NoForm
    BY <1>1, <1>2, <1>3 DEF FormOK, Saving
  <2>2. DOMAIN s.values # {"stage"}
    <3>1. s.values \in [contact : Nat, note : STRING]
      BY <1>1, <1>3 DEF WriteOK
    <3> QED BY <3>1
  <2>3. v = [ui EXCEPT !.actNote = Blank, !.actError = Blank]
    BY <1>3, <2>2 DEF Saved
  <2> HIDE DEF s
  <2> QED BY <1>1, <2>1, <2>3 DEF PageFields, Alike, Parts, OfSelected
<1>4. CASE s.kind # "activity" /\ DOMAIN s.values = {"stage"}
  <2>1. v = ui
    BY <1>4 DEF Saved
  <2>2. f = NoForm
    <3>1. s.kind = "deal" /\ s.id # None
      <4>1. s.values \notin [name : STRING]
            /\ s.values \notin [contact : Nat, title : STRING, stage : STRING, close : STRING]
        BY <1>4
      <4>2. 0 \notin 1..Deals
        BY Numbers DEF UiInv
      <4> HIDE DEF s
      <4> QED BY <1>1, <1>4, <4>1, <4>2 DEF WriteOK, None
    <3>2. ASSUME f # NoForm
          PROVE  FALSE
      <4>1. f.kind = "deal" /\ s.values = f.values
        BY <1>2, <3>1, <3>2 DEF Saving
      <4>2. f.values \in [title : STRING, stage : STRING, close : STRING]
        BY <1>1, <3>2, <4>1 DEF FormOK
      <4> QED BY <1>4, <4>1, <4>2
    <3> QED BY <3>2
  <2>3. Alike(ui, ui)
    BY DEF Alike
  <2> HIDE DEF s
  <2> QED BY <1>1, <2>1, <2>2, <2>3
<1>5. CASE s.kind # "activity" /\ DOMAIN s.values # {"stage"}
  <2>1. v = Closed(ui)
    BY <1>5 DEF Saved
  <2> QED BY <1>1, <2>1, ClosedAlike
<1> QED BY <1>3, <1>4, <1>5

LEMMA ResumeWrite ==
  ASSUME UiInv, InStep(server, ui, tasks), NEW t \in DOMAIN tasks, Answered(t),
         tasks[t].step.do = "write", tasks[t].got.saved.ok, GoesOn(t)
  PROVE  InStep(server, ui, tasks)'
<1> DEFINE v == Shown(ui, t)
           todo == Left(t)
           u == Page(v, todo)
           x == Continued(v, todo, tasks[t].catch)
<1>1. ui' = u /\ tasks' = [tasks EXCEPT ![t] = x] /\ server' = server
  BY DEF GoesOn
<1>2. IsRunning(tasks[t]) /\ TaskNow(server, ui, tasks[t]) /\ OnlyRuns(tasks, t)
  <2>1. IsRunning(tasks[t])
    BY DEF IsRunning
  <2> QED BY <2>1, OneRuns DEF InStep
<1>3. Contacts \in Nat /\ tasks \in Seq(Elements(tasks)) /\ NothingYet(ui)
  BY Numbers DEF UiInv, TasksOK, InStep
<1>4. v = Saved(ui, tasks[t].step)
  BY DEF Shown
<1>5. Alike(ui, v) /\ v.form = NoForm /\ DOMAIN v = PageFields
  BY <1>2, <1>4, SavedAlike
<1>6. /\ todo \in Seq(Later(Contacts)) \cup Rests /\ ReloadsLast(todo)
      /\ \A w, f : Planned(w, tasks[t].then, f) => Planned(w, todo, f)
  BY <1>2, LeftOK, LeftPlanned DEF TaskNow
<1>7. u = Page(v, todo) /\ x = Continued(v, todo, tasks[t].catch)
  OBVIOUS
<1> HIDE DEF u, x, v, todo
<1>8. todo \in Seq(Steps(Contacts))
      /\ (todo # << >> /\ Head(todo) = RefreshContacts(TRUE) => Tail(todo) = <<RefreshDeals>>)
  BY <1>3, <1>6, NotTheFirst
<1>9. NothingYet(v)
  <2>1. v.selectedId = ui.selectedId /\ v.contact = ui.contact /\ v.contactDeals = ui.contactDeals
    BY <1>5, AlikeFields DEF OfSelected
  <2> QED BY <1>3, <2>1 DEF NothingYet
<1>10. ASSUME NEW f \in Parts
       PROVE  Fresh(server, v, f) \/ Planned(v, todo, f)
  <2>1. Fresh(server, ui, f) \/ Coming(ui, tasks[t], f)
    BY <1>2 DEF InStep, PartsOK, OnlyRuns, Coming
  <2>2. Coming(ui, tasks[t], f) => Coming(v, tasks[t], f)
    BY <1>5, AlikeFields, ComingStays
  <2>3. Fields(tasks[t].step) = {"saved"} /\ f # "saved"
    BY DEF Fields, Parts, OfSelected
  <2>4. Coming(v, tasks[t], f) => Planned(v, todo, f)
    BY <1>6, <2>3 DEF Coming
  <2> QED BY <1>5, <2>1, <2>2, <2>4, FreshAlike
<1>11. t \in DOMAIN tasks' /\ tasks'[t] = x /\ OnlyRuns(tasks', t)
  BY <1>1, <1>2, <1>3, TaskReplaced
<1>12. InStep(server, u, tasks')
  BY <1>3, <1>5, <1>6, <1>7, <1>8, <1>9, <1>10, <1>11, OneForward
<1> QED BY <1>1, <1>12

(* A refused save has changed nothing, and nothing was stale before it.     *)
LEMMA RefusedInStep ==
  ASSUME UiInv, InStep(server, ui, tasks), NEW t \in DOMAIN tasks, Refused(t)
  PROVE  InStep(server, ui, tasks)'
<1> DEFINE v == Caught(ui, tasks[t].catch)
           U == tasks'
<1>1. /\ tasks[t].step.do = "write" /\ ~tasks[t].got.saved.ok
      /\ ui' = v /\ tasks' = [tasks EXCEPT ![t] = Ended] /\ server' = server
  BY DEF Refused, CarriedOut, Throws
<1>2. IsRunning(tasks[t])
  BY <1>1 DEF IsRunning
<1>3. TaskNow(server, ui, tasks[t]) /\ OnlyRuns(tasks, t)
  BY <1>1, <1>2, OneRuns DEF InStep
<1>4. AllFresh(server, ui)
  BY <1>1, <1>3 DEF TaskNow, WriteNow
<1>5. DOMAIN ui = PageFields /\ tasks \in Seq(Elements(tasks))
  BY DEF UiInv, PageOK, TasksOK
<1>6. Alike(ui, v) /\ v.form = ui.form
  BY <1>5 DEF Caught, PageFields, Alike, Parts, OfSelected
<1>7. OnlyRuns(U, t) /\ U[t] = Ended
  BY <1>1, <1>3, <1>5, TaskReplaced
<1>8. NoneRuns(U)
  <2>1. ~IsRunning(Ended)
    BY DEF IsRunning, Ended
  <2> QED BY <1>7, <2>1 DEF OnlyRuns, NoneRuns
<1> HIDE DEF U, v
<1>9. FormNow(server, v.form, U)
  BY <1>6, <1>8 DEF InStep, FormNow, NoneRuns
<1>10. InStep(server, ui, U)
  <2>1. PartsOK(server, ui, U)
    BY <1>4 DEF PartsOK, AllFresh
  <2>2. AloneOK(U) /\ \A k \in DOMAIN U : ~IsRunning(U[k])
    BY <1>8 DEF AloneOK, NoneRuns
  <2> QED BY <1>6, <1>9, <2>1, <2>2 DEF InStep
<1>11. InStep(server, v, U)
  BY <1>6, <1>9, <1>10, InStepAlike
<1> QED BY <1>1, <1>11 DEF U

-----------------------------------------------------------------------------
(* StepInv is an invariant.                                                 *)

(* The user writes nothing and loses nothing.                               *)
LEMMA UserOnly ==
  ASSUME User
  PROVE  server' = server /\ lost' = lost
<1>1. \A u, todo, catch : Calls(u, todo, catch) => server' = server /\ lost' = lost
  BY DEF Calls
<1>2. \A u : Sets(u) => server' = server /\ lost' = lost
  BY DEF Sets
<1>3. ASSUME NEW c, SelectContact(c)
      PROVE  server' = server /\ lost' = lost
  BY <1>1, <1>3 DEF SelectContact
<1>4. ASSUME NEW text, OnSearch(text) \/ TypeNote(text)
      PROVE  server' = server /\ lost' = lost
  BY <1>1, <1>2, <1>4 DEF OnSearch, TypeNote
<1>5. CASE LogActivity \/ GoFormContact \/ SubmitForm
  BY <1>1, <1>5 DEF LogActivity, GoFormContact, SubmitForm
<1>6. CASE NewContact \/ EditContact \/ OpenDealForm \/ CloseForm \/ DragEnd
  BY <1>2, <1>6 DEF NewContact, EditContact, OpenDealForm, CloseForm, DragEnd
<1>7. ASSUME NEW stage, Drop(stage)
      PROVE  server' = server /\ lost' = lost
  BY <1>1, <1>7 DEF Drop
<1>8. ASSUME NEW deals, NEW d, OpenDealDetail(deals, d) \/ DragStart(d)
      PROVE  server' = server /\ lost' = lost
  BY <1>2, <1>8 DEF OpenDealDetail, DragStart
<1>9. ASSUME NEW field, NEW text, OnFieldChange(field, text)
      PROVE  server' = server /\ lost' = lost
  BY <1>2, <1>9 DEF OnFieldChange
<1> QED BY <1>3, <1>4, <1>5, <1>6, <1>7, <1>8, <1>9 DEF User

(* Nothing but the import sets this.api, and it is never taken back.        *)
LEMMA KeepsApi ==
  ASSUME NEW u, DOMAIN u = PageFields
  PROVE  /\ \A s : Clicked(u, s).api = u.api
         /\ \A todo : Page(u, todo).api = u.api
         /\ \A catch : Caught(u, catch).api = u.api
         /\ \A s : Saved(u, s).api = u.api
<1>1. \A s : Clicked(u, s).api = u.api
  BY DEF Clicked, PageFields
<1>2. \A todo : Page(u, todo).api = u.api
  BY <1>1 DEF Page
<1>3. \A catch : Caught(u, catch).api = u.api
  BY DEF Caught, PageFields
<1>4. \A s : Saved(u, s).api = u.api
  BY DEF Saved, Closed, PageFields
<1> QED BY <1>1, <1>2, <1>3, <1>4

(* No new task has an answer, and a task that goes on has none yet.         *)
LEMMA NoAnswers ==
  ASSUME NEW u, NEW todo, NEW catch
  PROVE  "api" \notin DOMAIN Continued(u, todo, catch).got /\ "api" \notin DOMAIN Ended.got
BY DEF Continued, Ended

LEMMA ApiCalls ==
  ASSUME UiInv, ApiOK(ui, tasks), NEW v, DOMAIN v = PageFields, v.api = ui.api,
         NEW todo, NEW catch, Calls(v, todo, catch)
  PROVE  ApiOK(ui, tasks)'
<1>1. PICK x : tasks' = Append(tasks, x) /\ "api" \notin DOMAIN x.got
  BY NoAnswers DEF Calls
<1>2. ui'.api = ui.api
  <2>1. DOMAIN Page(v, todo) = PageFields
    BY ClickSets DEF Page
  <2> QED BY <2>1, KeepsApi DEF Calls
<1>3. tasks \in Seq(Elements(tasks)) /\ 1 \in DOMAIN tasks
  BY DEF UiInv, TasksOK, MountOK
<1>4. Added(tasks, x, tasks')
  BY <1>1, <1>3, TaskAdded
<1>5. DOMAIN tasks = 1..Len(tasks) /\ Len(tasks) \in Nat
  BY <1>3, LenProperties
<1>6. tasks'[1] = tasks[1]
  BY <1>3, <1>4, <1>5 DEF Added
<1>7. \A t \in DOMAIN tasks' : tasks'[t] = x \/ (t \in DOMAIN tasks /\ tasks'[t] = tasks[t])
  BY <1>4, <1>5 DEF Added
<1> QED BY <1>1, <1>2, <1>6, <1>7 DEF ApiOK

LEMMA ApiUser ==
  ASSUME UiInv, ApiOK(ui, tasks), User
  PROVE  ApiOK(ui, tasks)'
<1> DEFINE Goal == ApiOK(ui, tasks)'
<1> SUFFICES Goal
  OBVIOUS
<1> HIDE DEF Goal
<1>0. DOMAIN ui = PageFields
  BY DEF UiInv, PageOK
<1>1. \A v : DOMAIN v = PageFields /\ v.api = ui.api /\ Sets(v) => Goal
  BY DEF Sets, ApiOK, Goal
<1>2. \A v, todo, catch : DOMAIN v = PageFields /\ v.api = ui.api /\ Calls(v, todo, catch) => Goal
  BY ApiCalls DEF Goal
<1>3. DOMAIN Closed(ui) = PageFields /\ Closed(ui).api = ui.api
  BY <1>0, ClosedAlike
<1>4. ASSUME NEW c, SelectContact(c)
      PROVE  Goal
  BY <1>0, <1>2, <1>4 DEF SelectContact
<1>5. ASSUME NEW text, OnSearch(text)
      PROVE  Goal
  <2> DEFINE v == [ui EXCEPT !.search = text]
  <2>1. DOMAIN v = PageFields /\ v.api = ui.api
    BY <1>0 DEF PageFields
  <2> QED BY <1>2, <1>5, <2>1 DEF OnSearch
<1>6. ASSUME NEW text, TypeNote(text)
      PROVE  Goal
  <2> DEFINE v == [ui EXCEPT !.actNote = text]
  <2>1. DOMAIN v = PageFields /\ v.api = ui.api
    BY <1>0 DEF PageFields
  <2> QED BY <1>1, <1>6, <2>1 DEF TypeNote
<1>7. ASSUME NEW f, Sets(Opened(f))
      PROVE  Goal
  <2>1. DOMAIN Opened(f) = PageFields /\ Opened(f).api = ui.api
    BY <1>0 DEF Opened, PageFields
  <2> QED BY <1>1, <1>7, <2>1
<1>8. CASE LogActivity \/ SubmitForm
  BY <1>0, <1>2, <1>8 DEF LogActivity, SubmitForm
<1>9. CASE CloseForm \/ GoFormContact
  BY <1>1, <1>2, <1>3, <1>9 DEF CloseForm, GoFormContact
<1>10. CASE NewContact \/ EditContact \/ OpenDealForm
  BY <1>7, <1>10 DEF NewContact, EditContact, OpenDealForm
<1>11. ASSUME NEW deals, NEW d, OpenDealDetail(deals, d)
       PROVE  Goal
  BY <1>7, <1>11 DEF OpenDealDetail
<1>12. ASSUME NEW d
       PROVE  DOMAIN [ui EXCEPT !.dragging = d] = PageFields /\ [ui EXCEPT !.dragging = d].api = ui.api
  BY <1>0 DEF PageFields
<1>13. ASSUME NEW d, DragStart(d) \/ DragEnd
       PROVE  Goal
  BY <1>1, <1>12, <1>13 DEF DragStart, DragEnd
<1>14. ASSUME NEW stage, Drop(stage)
       PROVE  Goal
  BY <1>2, <1>12, <1>14 DEF Drop
<1>15. ASSUME NEW field, NEW text, OnFieldChange(field, text)
       PROVE  Goal
  <2> DEFINE v == [ui EXCEPT !.form.values[field] = text, !.form.touched = @ \cup {field}]
  <2>1. DOMAIN v = PageFields /\ v.api = ui.api
    BY <1>0 DEF PageFields
  <2>2. Sets(v)
    BY <1>15 DEF OnFieldChange
  <2> QED BY <1>1, <2>1, <2>2
<1> QED BY <1>4, <1>5, <1>6, <1>8, <1>9, <1>10, <1>11, <1>13, <1>14, <1>15 DEF User

LEMMA ApiResume ==
  ASSUME UiInv, ApiOK(ui, tasks), NEW t \in DOMAIN tasks, Resume(t)
  PROVE  ApiOK(ui, tasks)'
<1> DEFINE v == Shown(ui, t)
           s == tasks[t].step
           got == tasks[t].got
<1>1. DOMAIN ui = PageFields /\ tasks \in Seq(Elements(tasks)) /\ 1 \in DOMAIN tasks
  BY DEF UiInv, PageOK, TasksOK, MountOK
<1>2. DOMAIN got = Fields(s)
  BY DEF Resume, Answered
<1>3. /\ DOMAIN v = PageFields
      /\ s.do = "write" => v.api = ui.api
      /\ s.do # "write" => v.api = IF "api" \in DOMAIN got THEN got.api ELSE ui.api
  <2>1. CASE s.do = "write"
    <3>1. v = Saved(ui, s)
      BY <2>1 DEF Shown
    <3>2. DOMAIN Saved(ui, s) = PageFields
      BY <1>1 DEF Saved, Closed
    <3> QED BY <1>1, <2>1, <3>1, <3>2, KeepsApi
  <2>2. CASE s.do # "write"
    <3>1. v = [f \in DOMAIN ui |-> IF f \in DOMAIN got THEN got[f] ELSE ui[f]]
      BY <2>2 DEF Shown
    <3> QED BY <1>1, <2>2, <3>1 DEF PageFields
  <2> QED BY <2>1, <2>2
<1>4. v.api = TRUE \/ (v.api = ui.api /\ (s = Import("api") => ui.api = TRUE))
  <2>1. s = Import("api") => "api" \in DOMAIN got /\ s.do # "write"
    BY <1>2 DEF Import, Fields
  <2> QED BY <1>3, <2>1 DEF ApiOK
<1>5. PICK u, x : /\ ui' = u /\ u.api = v.api /\ "api" \notin DOMAIN x.got
                  /\ \/ tasks' = [tasks EXCEPT ![t] = x]
                     \/ \E z : /\ "api" \notin DOMAIN z.got
                               /\ tasks' = Append([tasks EXCEPT ![t] = x], z)
  <2>1. CASE SelectsFirst(t)
    <3>1. PICK c \in DOMAIN got.contacts :
            LET w == Clicked(v, Select(c))
            IN  /\ ui' = Page(w, Left(t))
                /\ tasks' = Append([tasks EXCEPT ![t] = Continued(w, Left(t), @.catch)],
                                   Continued(w, <<Select(c)>>, "none"))
      BY <2>1 DEF Resume
    <3> DEFINE w == Clicked(v, Select(c))
    <3>2. DOMAIN w = PageFields /\ w.api = v.api
      BY <1>3, ClickSets, KeepsApi
    <3>3. Page(w, Left(t)).api = v.api
      BY <3>2, KeepsApi
    <3> HIDE DEF w
    <3> QED BY <3>1, <3>3, NoAnswers DEF w
  <2>2. CASE ~SelectsFirst(t)
    <3>1. GoesOn(t)
      BY <2>2 DEF Resume
    <3>2. Page(v, Left(t)).api = v.api
      BY <1>3, KeepsApi
    <3> QED BY <3>1, <3>2, NoAnswers DEF GoesOn
  <2> QED BY <2>1, <2>2
<1>6. /\ t # 1 => tasks'[1] = tasks[1]
      /\ \A k \in DOMAIN tasks' :
           "api" \notin DOMAIN tasks'[k].got \/ (k \in DOMAIN tasks /\ tasks'[k] = tasks[k])
  <2> DEFINE T == [tasks EXCEPT ![t] = x]
  <2>1. /\ T \in Seq(Elements(T)) /\ DOMAIN T = DOMAIN tasks /\ T[t] = x
        /\ \A k \in DOMAIN tasks \ {t} : T[k] = tasks[k]
    BY <1>1, TaskSet
  <2> HIDE DEF T
  <2>2. CASE tasks' = T
    BY <1>1, <1>5, <2>1, <2>2
  <2>3. CASE \E z : "api" \notin DOMAIN z.got /\ tasks' = Append(T, z)
    <3>1. PICK z : "api" \notin DOMAIN z.got /\ tasks' = Append(T, z)
      BY <2>3
    <3>2. Added(T, z, tasks') /\ DOMAIN T = 1..Len(T) /\ Len(T) \in Nat
      BY <2>1, <3>1, TaskAdded, LenProperties
    <3>3. /\ \A k \in DOMAIN T : tasks'[k] = T[k]
          /\ \A k \in DOMAIN tasks' : tasks'[k] = z \/ k \in DOMAIN T
      BY <3>2 DEF Added
    <3> QED BY <1>1, <1>5, <2>1, <3>1, <3>3
  <2> QED BY <1>5, <2>2, <2>3 DEF T
<1>7. ui'.api = TRUE \/ tasks'[1].step = Import("api")
  <2>1. CASE v.api = TRUE
    BY <1>5, <2>1
  <2>2. CASE v.api # TRUE
    <3>1. ui.api # TRUE /\ tasks[1].step = Import("api")
      BY <1>4, <2>2 DEF ApiOK
    <3>2. t # 1
      BY <1>4, <2>2, <3>1
    <3> QED BY <1>6, <3>1, <3>2
  <2> QED BY <2>1, <2>2
<1> QED BY <1>6, <1>7 DEF ApiOK

LEMMA ApiNext ==
  ASSUME UiInv, ~lost => ApiOK(ui, tasks), [Next]_vars, ~lost'
  PROVE  ApiOK(ui, tasks)'
<1>1. DOMAIN ui = PageFields /\ tasks \in Seq(Elements(tasks)) /\ 1 \in DOMAIN tasks
  BY DEF UiInv, PageOK, TasksOK, MountOK
<1>2. CASE User
  BY <1>2, UserOnly, ApiUser
<1>3. ASSUME NEW t \in DOMAIN tasks, NEW field, Serve(t, field)
      PROVE  ApiOK(ui, tasks)'
  <2>1. ApiOK(ui, tasks) /\ ui' = ui
    BY <1>3 DEF Serve
  <2>2. /\ SameSteps(tasks, tasks')
        /\ \A k \in DOMAIN tasks \ {t} : tasks'[k] = tasks[k]
        /\ field \in Fields(tasks[t].step)
        /\ DOMAIN tasks'[t].got = DOMAIN tasks[t].got \cup {field}
        /\ \A f \in DOMAIN tasks[t].got : tasks'[t].got[f] = tasks[t].got[f]
        /\ tasks[t].step.do # "write" =>
             tasks'[t].got[field] = Answer(server, field, tasks[t].step)
    BY <1>3, ServeSteps
  <2>3. tasks'[1].step = tasks[1].step
    BY <1>1, <2>2 DEF SameSteps
  <2>4. "api" \in DOMAIN tasks'[t].got => tasks'[t].got.api = TRUE
    <3>1. CASE "api" \in DOMAIN tasks[t].got
      BY <2>1, <2>2, <3>1 DEF ApiOK
    <3>2. CASE field = "api"
      <4>1. tasks[t].step.do # "write"
        BY <2>2, <3>2 DEF Fields
      <4> QED BY <2>2, <3>2, <4>1 DEF Answer
    <3> QED BY <2>2, <3>1, <3>2
  <2>5. \A k \in DOMAIN tasks' : k \in DOMAIN tasks
    BY <2>2 DEF SameSteps
  <2> QED BY <2>1, <2>2, <2>3, <2>4, <2>5 DEF ApiOK
<1>4. ASSUME NEW t \in DOMAIN tasks, Resume(t)
      PROVE  ApiOK(ui, tasks)'
  <2>1. ~lost
    BY <1>4 DEF Resume, GoesOn
  <2> QED BY <1>4, <2>1, ApiResume
<1>5. ASSUME NEW t \in DOMAIN tasks, Refused(t)
      PROVE  ApiOK(ui, tasks)'
  <2>1. /\ ApiOK(ui, tasks) /\ tasks[t].step.do = "write"
        /\ ui' = Caught(ui, tasks[t].catch) /\ tasks' = [tasks EXCEPT ![t] = Ended]
    BY <1>5 DEF Refused, Throws, CarriedOut
  <2>2. ui'.api = ui.api
    BY <1>1, <2>1, KeepsApi
  <2>3. DOMAIN tasks' = DOMAIN tasks /\ tasks'[t] = Ended
        /\ \A k \in DOMAIN tasks \ {t} : tasks'[k] = tasks[k]
    BY <1>1, <2>1, TaskSet
  <2>4. tasks[1].step = Import("api") => t # 1
    BY <2>1 DEF Import
  <2>5. "api" \notin DOMAIN Ended.got
    BY NoAnswers
  <2>6. ui'.api = TRUE \/ tasks'[1].step = Import("api")
    BY <1>1, <2>1, <2>2, <2>3, <2>4 DEF ApiOK
  <2> QED BY <2>1, <2>3, <2>5, <2>6 DEF ApiOK
<1>6. ASSUME NEW t \in DOMAIN tasks, Lose(t)
      PROVE  FALSE
  BY <1>6 DEF Lose
<1>7. CASE vars' = vars
  BY <1>7 DEF vars
<1> QED BY <1>2, <1>3, <1>4, <1>5, <1>6, <1>7 DEF Next, Network, Rest

LEMMA StepInit == Init => StepInv
<1> SUFFICES ASSUME Init
             PROVE  StepInv
  OBVIOUS
<1>1. UiInv
  BY UiInit
<1> DEFINE u == Page(NewPage, Mount)
           x == Continued(NewPage, Mount, "none")
           U == <<x>>
<1>2. ui = u /\ tasks = U
  BY DEF Init
<1>3. /\ RefreshContacts(TRUE).do = "contacts" /\ RefreshDeals.do = "deals"
      /\ Import("api").do = "import" /\ Import("tests").do = "import"
  BY DEF RefreshContacts, RefreshDeals, Import
<1>5. /\ Mount \in Seq(Steps(0)) /\ DOMAIN Mount = 1..4 /\ Mount # << >> /\ Head(Mount) = Import("api")
      /\ Mount[1] = Import("api") /\ Mount[2] = Import("tests")
      /\ Mount[3] = RefreshContacts(TRUE) /\ Mount[4] = RefreshDeals
  <2> DEFINE S == Steps(0)
             a == Import("api")
             b == Import("tests")
             c == RefreshContacts(TRUE)
             d == RefreshDeals
  <2>1. a \in S /\ b \in S /\ c \in S /\ d \in S
    BY DEF Steps, Later, Mounting
  <2>2. Mount = <<a, b, c, d>>
    BY DEF Mount
  <2> HIDE DEF S, a, b, c, d
  <2>3. <<a, b, c, d>> \in Seq(S) /\ DOMAIN <<a, b, c, d>> = 1..4
    BY <2>1
  <2>4. Mount[1] = a /\ Mount[2] = b /\ Mount[3] = c /\ Mount[4] = d /\ Mount # << >> /\ Head(Mount) = a
    BY <2>2
  <2> QED BY <2>2, <2>3, <2>4 DEF S, a, b, c, d
<1>6. ReloadsLast(Mount)
  <2>1. \A i \in 1..4 : i = 1 \/ i = 2 \/ i = 3 \/ i = 4
    OBVIOUS
  <2> QED BY <1>3, <1>5, <2>1 DEF ReloadsLast
<1>7. /\ DOMAIN NewPage = PageFields /\ NewPage.form = NoForm /\ NewPage.selectedId = None
      /\ NothingYet(NewPage)
  BY DEF NewPage, PageFields, NothingYet
<1>8. ASSUME NEW f \in Parts
      PROVE  Fresh(server, NewPage, f) \/ Planned(NewPage, Mount, f)
  <2>1. CASE f = "contacts"
    <3>2. Will(NewPage, Mount[3], f)
      BY <1>3, <1>5, <2>1 DEF Will
    <3>3. 3 \in DOMAIN Mount
      BY <1>5
    <3> QED BY <3>2, <3>3 DEF Planned
  <2>2. CASE f = "allDeals"
    <3>1. 4 \in DOMAIN Mount /\ Will(NewPage, Mount[4], f)
      BY <1>3, <1>5, <2>2 DEF Will
    <3> QED BY <3>1 DEF Planned
  <2>3. CASE f \in OfSelected
    BY <1>7, <2>3 DEF Fresh, OfSelected
  <2> QED BY <2>1, <2>2, <2>3 DEF Parts
<1>9. 1 \in DOMAIN U /\ U[1] = x /\ OnlyRuns(U, 1)
  BY DEF OnlyRuns
<1>10. u = Page(NewPage, Mount) /\ x = Continued(NewPage, Mount, "none")
  OBVIOUS
<1>11. ApiOK(u, U)
  <2>1. ~Over(NewPage, Mount)
    BY <1>3, <1>5 DEF Over, Skipped
  <2>2. x.step = Import("api") /\ x.got = << >>
    BY <1>3, <1>5, <2>1 DEF Continued, Begun
  <2> QED BY <1>9, <2>2 DEF ApiOK
<1> HIDE DEF u, x, U
<1>12. Head(Mount) # RefreshContacts(TRUE)
  BY <1>3, <1>5
<1>13. InStep(server, u, U)
  BY <1>5, <1>6, <1>7, <1>8, <1>9, <1>10, <1>12, OneForward
<1> QED BY <1>1, <1>2, <1>11, <1>13 DEF StepInv

LEMMA StepNext == StepInv /\ [Next]_vars => StepInv'
<1> SUFFICES ASSUME StepInv, [Next]_vars
             PROVE  StepInv'
  OBVIOUS
<1>1. UiInv /\ UiInv'
  BY UiNext DEF StepInv
<1> DEFINE Goal == Patient /\ ~lost' => InStep(server, ui, tasks)'
<1>0. ~lost' => ApiOK(ui, tasks)'
  BY ApiNext DEF StepInv
<1> SUFFICES Goal
  BY <1>0, <1>1 DEF StepInv
<1>2. /\ Patient /\ ~lost => InStep(server, ui, tasks)
      /\ ~lost => ApiOK(ui, tasks)
  BY DEF StepInv
<1>3. CASE User
  BY <1>1, <1>2, <1>3, UserOnly, UserInStep
<1>4. ASSUME NEW t \in DOMAIN tasks, Network(t) \/ Lose(t)
      PROVE  Goal
  <2>1. ASSUME NEW field, Serve(t, field)
        PROVE  Goal
    <3>1. lost' = lost
      BY <2>1 DEF Serve
    <3> QED BY <1>1, <1>2, <2>1, <3>1, ServeSame, ServeWrite
  <2>2. CASE Resume(t)
    <3>1. lost' = lost /\ Answered(t)
      BY <2>2 DEF Resume, GoesOn
    <3>2. CASE SelectsFirst(t)
      BY <1>1, <1>2, <2>2, <3>1, <3>2, ResumeFirst
    <3>3. CASE ~SelectsFirst(t)
      <4>1. GoesOn(t) /\ (tasks[t].step.do = "write" => tasks[t].got.saved.ok)
        BY <2>2, <3>3 DEF Resume, CarriedOut
      <4> QED BY <1>1, <1>2, <3>1, <4>1, ResumeWrite, ResumeAlone, ResumeApart
    <3> QED BY <3>2, <3>3
  <2>3. CASE Refused(t)
    <3>1. lost' = lost
      BY <2>3 DEF Refused
    <3> QED BY <1>1, <1>2, <2>3, <3>1, RefusedInStep
  <2>4. CASE Lose(t)
    <3>1. lost'
      BY <2>4 DEF Lose
    <3> QED BY <3>1
  <2> QED BY <1>4, <2>1, <2>2, <2>3, <2>4 DEF Network
<1>5. CASE vars' = vars
  <2>1. server' = server /\ ui' = ui /\ tasks' = tasks /\ lost' = lost
    BY <1>5 DEF vars
  <2> QED BY <1>2, <2>1
<1>6. CASE Rest
  BY <1>5, <1>6 DEF Rest
<1> QED BY <1>3, <1>4, <1>5, <1>6 DEF Next

THEOREM StepInvariant == Spec => []StepInv
BY StepInit, StepNext, PTL DEF Spec

(* Read your writes, for a user who waits: once every method has ended, and *)
(* nothing was lost, the page shows what is stored (submitForm, drop and    *)
(* logActivity refresh all that they change).                               *)
THEOREM OwnWritesShown ==
  ASSUME Patient
  PROVE  Spec => []ShowsOwnWrites
<1>1. StepInv => ShowsOwnWrites
  <2> SUFFICES ASSUME StepInv, Quiet, ~lost
               PROVE  /\ ui.contacts = Answer(server, "contacts", [search |-> ui.search])
                      /\ ui.allDeals = Answer(server, "allDeals", << >>)
                      /\ ui.selectedId # None =>
                           \A field \in {"contact", "activities", "contactDeals"} :
                             ui[field] = Answer(server, field, Select(ui.selectedId))
    BY DEF ShowsOwnWrites
  <2>1. AllFresh(server, ui)
    BY QuietRuns, QuietFresh DEF StepInv, InStep
  <2>2. {"contacts", "allDeals"} \cup OfSelected = Parts
    BY DEF Parts
  <2>3. Fresh(server, ui, "contacts") /\ Fresh(server, ui, "allDeals")
        /\ \A f \in OfSelected : Fresh(server, ui, f)
    BY <2>1, <2>2 DEF AllFresh
  <2>4. ui.contacts = Answer(server, "contacts", [search |-> ui.search])
        /\ ui.allDeals = Answer(server, "allDeals", << >>)
    BY <2>3 DEF Fresh
  <2>5. ui.selectedId # None =>
          \A f \in OfSelected : ui[f] = Answer(server, f, Select(ui.selectedId))
    BY <2>3 DEF Fresh
  <2> QED BY <2>4, <2>5 DEF OfSelected
<1> QED BY <1>1, StepInvariant, PTL

(* A save takes nothing back: a field of a stored row changes only by a     *)
(* save whose user set that field, although dialogs send every field        *)
(* (openContactForm, openDealDetail, submitForm).                           *)
THEOREM UntouchedFieldsKept ==
  ASSUME Patient
  PROVE  Spec => UntouchedKept
<1>1. ASSUME StepInv, [Next]_vars, ~lost, NEW kind \in {"contact", "deal"},
             NEW i \in DOMAIN server[kind], NEW f \in DOMAIN server[kind][i],
             server'[kind][i][f] # server[kind][i][f]
      PROVE  \E w \in Saves : w.kind = kind /\ w.id = i /\ f \in w.touched
  <2>1. UiInv /\ InStep(server, ui, tasks)
    BY <1>1 DEF StepInv
  <2>2. server' # server
    BY <1>1
  <2>2a. PICK t \in DOMAIN tasks : \E field \in Fields(tasks[t].step) : Serve(t, field)
    <3>1. ~User /\ ~Rest /\ vars' # vars
      BY <2>2, UserOnly DEF Rest, vars
    <3>2. \A t \in DOMAIN tasks : ~Resume(t) /\ ~Refused(t) /\ ~Lose(t)
      BY <2>2 DEF Resume, GoesOn, Refused, Lose, Throws
    <3> QED BY <1>1, <3>1, <3>2 DEF Next, Network
  <2>3. PICK field \in Fields(tasks[t].step) : Serve(t, field)
    BY <2>2a
  <2> DEFINE w == tasks[t].step
  <2>4. w.do = "write" /\ Accepted(w) /\ server' = Carried(w) /\ field = "saved"
        /\ field \notin DOMAIN tasks[t].got
    <3>1. /\ server' = IF w.do = "write" /\ Accepted(w) THEN Carried(w) ELSE server
          /\ field \notin DOMAIN tasks[t].got /\ field \in Fields(w)
      BY <2>1, <2>3, ServeSteps
    <3> QED BY <2>2, <3>1 DEF Fields
  <2>5. IsRunning(tasks[t])
    BY <2>4 DEF IsRunning
  <2>6. Copied(server, w.kind, w.id, w.values, w.touched)
    BY <2>1, <2>4, <2>5 DEF InStep, TaskNow, WriteNow
  <2>7. ServerOK /\ WriteOK(Contacts, Deals, w) /\ w \in Saves
    BY <2>1, <2>4 DEF UiInv, TasksOK, TaskOK, StepOK, Saves
  <2> HIDE DEF w
  <2>8. /\ \A k \in {"contact", "deal", "activity"} \ {w.kind} : server'[k] = server[k]
        /\ \A j \in 1..Len(server[w.kind]) : j # w.id => server'[w.kind][j] = server[w.kind][j]
        /\ w.id # None => server'[w.kind][w.id] = Spread(server[w.kind][w.id], w.values)
    BY <2>4, <2>7, WriteChanges
  <2>9. w.kind = kind
    BY <1>1, <2>8
  <2>10. i \in 1..Len(server[kind]) /\ i # None
    <3>1. DOMAIN server.contact = 1..Len(server.contact) /\ DOMAIN server.deal = 1..Len(server.deal)
          /\ Len(server.contact) \in Nat /\ Len(server.deal) \in Nat
      BY <2>7, LenProperties DEF ServerOK, Tables
    <3> QED BY <1>1, <3>1 DEF None
  <2>11. w.id = i
    BY <1>1, <2>8, <2>9, <2>10
  <2>12. server'[kind][i] = Spread(server[kind][i], w.values)
    BY <2>8, <2>9, <2>10, <2>11
  <2>13. f \in DOMAIN w.values /\ w.values[f] # server[kind][i][f]
    BY <1>1, <2>12 DEF Spread
  <2>14. f \in w.touched
    BY <2>6, <2>9, <2>10, <2>11, <2>13 DEF Copied
  <2> QED BY <2>7, <2>9, <2>11, <2>14
<1>2. StepInv /\ [Next]_vars =>
        [~lost => \A kind \in {"contact", "deal"} : \A i \in DOMAIN server[kind] :
           \A f \in DOMAIN server[kind][i] :
             server'[kind][i][f] # server[kind][i][f]
               => \E w \in Saves : w.kind = kind /\ w.id = i /\ f \in w.touched]_vars
  BY <1>1
<1> QED BY <1>2, StepInvariant, PTL DEF Spec, UntouchedKept

-----------------------------------------------------------------------------
(* No save crosses over to another row, for any user.                       *)
(*                                                                          *)
(* The argument follows the values: what the server answers it had stored,  *)
(* so what a method has received, what the page shows, what a dialog copies *)
(* from the page and what a save sends all agree with a row that the memory *)
(* holds, of the same kind and under the same id.                           *)

Agrees(H, kind, id, values, fields) ==
  \E h \in H : h.kind = kind /\ h.id = id /\ \A f \in fields : values[f] = h.row[f]

ContactTold(H, c) == c.id # None => Agrees(H, "contact", c.id, c, {"name"})

DealsTold(H, deals) ==
  \A d \in DOMAIN deals : Agrees(H, "deal", d, deals[d], {"title", "stage", "close"})

(* Of a dialog as of a write.                                               *)
ValuesTold(H, f) == f.id # None => Agrees(H, f.kind, f.id, f.values, DOMAIN f.values \ f.touched)

PageTold(H, u) ==
  /\ ContactTold(H, u.contact) /\ DealsTold(H, u.allDeals) /\ DealsTold(H, u.contactDeals.rows)
  /\ u.form # NoForm => ValuesTold(H, u.form)

GotTold(H, g) ==
  /\ "contact" \in DOMAIN g => ContactTold(H, g.contact)
  /\ "allDeals" \in DOMAIN g => DealsTold(H, g.allDeals)
  /\ "contactDeals" \in DOMAIN g => DealsTold(H, g.contactDeals.rows)

TaskTold(H, x) == (x.step.do = "write" => ValuesTold(H, x.step)) /\ GotTold(H, x.got)

AllTold(H, u, T) == PageTold(H, u) /\ \A t \in DOMAIN T : TaskTold(H, T[t])

SavesInv == UiInv /\ RowsOf(server) \subseteq had /\ AllTold(had, ui, tasks)

LEMMA ToldMore ==
  ASSUME NEW H, NEW G, H \subseteq G, NEW u, NEW T, AllTold(H, u, T)
  PROVE  AllTold(G, u, T)
<1>1. \A kind, id, values, fields : Agrees(H, kind, id, values, fields)
                                      => Agrees(G, kind, id, values, fields)
  BY DEF Agrees
<1>2. \A c : ContactTold(H, c) => ContactTold(G, c)
  BY <1>1 DEF ContactTold
<1>3. \A deals : DealsTold(H, deals) => DealsTold(G, deals)
  BY <1>1 DEF DealsTold
<1>4. \A f : ValuesTold(H, f) => ValuesTold(G, f)
  BY <1>1 DEF ValuesTold
<1>5. PageTold(G, u)
  BY <1>2, <1>3, <1>4 DEF AllTold, PageTold
<1>6. \A x : TaskTold(H, x) => TaskTold(G, x)
  BY <1>2, <1>3, <1>4 DEF TaskTold, GotTold
<1> QED BY <1>5, <1>6 DEF AllTold

(* What the server answers is told by the rows it has stored.               *)
LEMMA RowsTold ==
  ASSUME ServerOK, RowsOf(server) \subseteq had
  PROVE  /\ \A c \in 1..Contacts : [kind |-> "contact", id |-> c, row |-> server.contact[c]] \in had
         /\ \A d \in 1..Deals : [kind |-> "deal", id |-> d, row |-> server.deal[d]] \in had
<1>1. DOMAIN server.contact = 1..Contacts /\ DOMAIN server.deal = 1..Deals
  BY ServerTypes
<1> DEFINE R(kind) == {[kind |-> kind, id |-> i, row |-> server[kind][i]] : i \in DOMAIN server[kind]}
<1>2. \A kind \in {"contact", "deal"} : \A h \in R(kind) : h \in RowsOf(server)
  <2> SUFFICES ASSUME NEW kind \in {"contact", "deal"}, NEW h \in R(kind)
               PROVE  h \in RowsOf(server)
    OBVIOUS
  <2>1. RowsOf(server) = UNION {R(k) : k \in {"contact", "deal", "activity"}}
    BY DEF RowsOf
  <2> HIDE DEF R
  <2> QED BY <2>1
<1>3. /\ \A c \in DOMAIN server.contact :
           [kind |-> "contact", id |-> c, row |-> server.contact[c]] \in R("contact")
      /\ \A d \in DOMAIN server.deal :
           [kind |-> "deal", id |-> d, row |-> server.deal[d]] \in R("deal")
  OBVIOUS
<1> HIDE DEF R
<1> QED BY <1>1, <1>2, <1>3

LEMMA DealRowsTold ==
  ASSUME ServerOK, RowsOf(server) \subseteq had, NEW ids, ids \subseteq 1..Deals
  PROVE  DealsTold(had, DealRows(server, ids))
<1> SUFFICES ASSUME NEW d \in DOMAIN DealRows(server, ids)
             PROVE  Agrees(had, "deal", d, DealRows(server, ids)[d], {"title", "stage", "close"})
  BY DEF DealsTold
<1> DEFINE h == [kind |-> "deal", id |-> d, row |-> server.deal[d]]
           values == DealRows(server, ids)[d]
<1>1. /\ d \in 1..Deals /\ values.title = server.deal[d].title
      /\ values.stage = server.deal[d].stage /\ values.close = server.deal[d].close
  BY RowsShown
<1>2. h \in had
  BY <1>1, RowsTold
<1>3. h.kind = "deal" /\ h.id = d /\ h.row = server.deal[d]
  OBVIOUS
<1> HIDE DEF h, values
<1>4. Agrees(had, "deal", d, values, {"title", "stage", "close"})
  BY <1>1, <1>2, <1>3 DEF Agrees
<1> QED BY <1>4 DEF values

LEMMA AnswerTold ==
  ASSUME ServerOK, RowsOf(server) \subseteq had, NEW s, StepOK(Contacts, Deals, s), NEW field \in Fields(s)
  PROVE  /\ field = "contact" => ContactTold(had, Answer(server, field, s))
         /\ field = "allDeals" => DealsTold(had, Answer(server, field, s))
         /\ field = "contactDeals" => DealsTold(had, Answer(server, field, s).rows)
<1>1. CASE field = "contact"
  <2>1. s.id \in 1..Contacts
    BY <1>1 DEF Fields, StepOK
  <2> DEFINE c == Answer(server, field, s)
             h == [kind |-> "contact", id |-> s.id, row |-> server.contact[s.id]]
  <2>2. server.contact[s.id] \in [name : STRING]
    BY <2>1, ServerTypes
  <2>3. c.id = s.id /\ c.name = server.contact[s.id].name
    BY <1>1, <2>2 DEF Answer, Spread
  <2>4. h \in had /\ h.kind = "contact" /\ h.id = s.id /\ h.row = server.contact[s.id]
    BY <2>1, RowsTold
  <2> HIDE DEF c, h
  <2>5. ContactTold(had, c)
    BY <2>3, <2>4 DEF ContactTold, Agrees
  <2> QED BY <1>1, <2>5 DEF c
<1>2. CASE field = "allDeals"
  <2>1. Answer(server, field, s) = DealRows(server, 1..Deals)
    BY <1>2, ServerTypes DEF Answer
  <2> QED BY <1>2, <2>1, DealRowsTold
<1>3. CASE field = "contactDeals"
  <2> DEFINE ids == OfContact(server, "deal", s.id)
  <2>1. ids \subseteq 1..Deals
    BY ServerTypes DEF OfContact
  <2>2. Answer(server, field, s).rows = DealRows(server, ids)
    BY <1>3 DEF Answer
  <2> HIDE DEF ids
  <2> QED BY <1>3, <2>1, <2>2, DealRowsTold
<1> QED BY <1>1, <1>2, <1>3

(* Pages that show and edit the same rows.                                  *)
SameRows(u, v) ==
  v.contact = u.contact /\ v.allDeals = u.allDeals /\ v.contactDeals = u.contactDeals

LEMMA ToldAlike ==
  ASSUME NEW u, DOMAIN u = PageFields
  PROVE  /\ \A s : SameRows(u, Clicked(u, s)) /\ Clicked(u, s).form = u.form
         /\ \A todo : SameRows(u, Page(u, todo)) /\ Page(u, todo).form = u.form
         /\ \A catch : SameRows(u, Caught(u, catch)) /\ Caught(u, catch).form = u.form
         /\ SameRows(u, Closed(u)) /\ Closed(u).form = NoForm
<1>1. \A s : SameRows(u, Clicked(u, s)) /\ Clicked(u, s).form = u.form
  BY ClickSets DEF SameRows, PageFields
<1>2. \A todo : SameRows(u, Page(u, todo)) /\ Page(u, todo).form = u.form
  BY <1>1 DEF Page, SameRows
<1>3. \A catch : SameRows(u, Caught(u, catch)) /\ Caught(u, catch).form = u.form
  BY DEF SameRows, Caught, PageFields
<1>4. SameRows(u, Closed(u)) /\ Closed(u).form = NoForm
  BY DEF SameRows, Closed, PageFields
<1> QED BY <1>1, <1>2, <1>3, <1>4

(* Going on never begins with a save.                                       *)
LEMMA ReadsOn ==
  ASSUME NEW n \in Nat, NEW m \in Nat, NEW u, PageOK(n, m, u), NEW catch,
         NEW todo \in Seq(Later(n)) \cup Rests
  PROVE  Continued(u, todo, catch).step.do # "write"
<1> DEFINE x == Continued(u, todo, catch)
<1>1. CASE Over(u, todo)
  BY <1>1 DEF Continued, Ended
<1>2. CASE ~Over(u, todo)
  <2>1. todo # << >> /\ ~Skipped(u, Head(todo)) /\ x.step = Begun(u, Head(todo))
    BY <1>2 DEF Over, Continued
  <2>2. Head(todo) \in Later(n) \cup Mounting
    BY <2>1, HeadAndTail, RestsBegin DEF Mounting
  <2> HIDE DEF x
  <2>3. x.step.do # "write"
    BY <2>1, <2>2, BegunOK
  <2> QED BY <2>3 DEF x
<1> QED BY <1>1, <1>2

(* A method that goes on reads; its writes come first.                      *)
LEMMA GoesOnReads ==
  ASSUME NEW n \in Nat, NEW m \in Nat, NEW u, PageOK(n, m, u), NEW catch,
         NEW todo \in Seq(Later(n)) \cup Rests
  PROVE  TaskTold(had, Continued(u, todo, catch))
<1> DEFINE x == Continued(u, todo, catch)
<1>1. x.got = << >>
  BY DEF Continued, Ended
<1>2. x.step.do # "write"
  BY ReadsOn
<1>3. GotTold(had, << >>)
  BY DEF GotTold
<1> HIDE DEF x
<1>4. TaskTold(had, x)
  BY <1>1, <1>2, <1>3 DEF TaskTold
<1> QED BY <1>4 DEF x

LEMMA WritesFirst ==
  ASSUME NEW u, NEW catch, NEW w, w.do = "write", ValuesTold(had, w),
         NEW todo, todo # << >>, Head(todo) = w
  PROVE  TaskTold(had, Continued(u, todo, catch))
<1> DEFINE x == Continued(u, todo, catch)
<1>1. x.step = w /\ x.got = << >>
  BY DEF Continued, Over, Skipped, Begun
<1>2. GotTold(had, << >>)
  BY DEF GotTold
<1> HIDE DEF x
<1>3. TaskTold(had, x)
  BY <1>1, <1>2 DEF TaskTold
<1> QED BY <1>3 DEF x

LEMMA EndedTold == TaskTold(had, Ended)
BY DEF TaskTold, GotTold, Ended

LEMMA SetsTold ==
  ASSUME AllTold(had, ui, tasks), NEW u, Sets(u), SameRows(ui, u),
         u.form \in {NoForm, ui.form} \/ ValuesTold(had, u.form)
  PROVE  AllTold(had, ui', tasks')
<1>1. ui' = u /\ tasks' = tasks
  BY DEF Sets
<1>2. PageTold(had, u)
  BY DEF AllTold, PageTold, SameRows
<1> QED BY <1>1, <1>2 DEF AllTold

LEMMA CallsTold ==
  ASSUME UiInv, AllTold(had, ui, tasks), NEW u, DOMAIN u = PageFields, SameRows(ui, u),
         u.form \in {NoForm, ui.form}, NEW todo, NEW catch, Calls(u, todo, catch),
         TaskTold(had, Continued(u, todo, catch))
  PROVE  AllTold(had, ui', tasks')
<1>1. PICK x : tasks' = Append(tasks, x) /\ TaskTold(had, x)
  BY EndedTold DEF Calls
<1>2. SameRows(ui, ui') /\ ui'.form = u.form
  <2> DEFINE v == Page(u, todo)
  <2>1. DOMAIN v = PageFields
    BY ClickSets DEF Page
  <2>2. SameRows(ui, v) /\ v.form = u.form
    BY ToldAlike DEF SameRows
  <2>3. SameRows(ui, Caught(v, catch)) /\ Caught(v, catch).form = u.form
    <3> HIDE DEF v
    <3> QED BY <2>1, <2>2, ToldAlike DEF SameRows
  <2>4. ui' = v \/ ui' = Caught(v, catch)
    BY DEF Calls
  <2> HIDE DEF v
  <2> QED BY <2>2, <2>3, <2>4
<1>3. PageTold(had, ui')
  BY <1>2 DEF AllTold, PageTold, SameRows
<1>4. tasks \in Seq(Elements(tasks))
  BY DEF UiInv, TasksOK
<1>5. Added(tasks, x, tasks') /\ DOMAIN tasks = 1..Len(tasks) /\ Len(tasks) \in Nat
  BY <1>1, <1>4, TaskAdded, LenProperties
<1>6. \A t \in DOMAIN tasks' : tasks'[t] = x \/ (t \in DOMAIN tasks /\ tasks'[t] = tasks[t])
  BY <1>5 DEF Added
<1> QED BY <1>1, <1>3, <1>6 DEF AllTold

LEMMA ReadsTold ==
  ASSUME SavesInv, NEW u, PageOK(Contacts, Deals, u), SameRows(ui, u), u.form \in {NoForm, ui.form},
         NEW s \in Later(Contacts), NEW catch, Calls(u, <<s>>, catch)
  PROVE  AllTold(had, ui', tasks')
<1> DEFINE todo == <<s>>
<1>1. todo \in Seq(Later(Contacts)) /\ Contacts \in Nat /\ Deals \in Nat
  BY Numbers DEF SavesInv, UiInv
<1>2. Calls(u, todo, catch)
  OBVIOUS
<1> HIDE DEF todo
<1>3. TaskTold(had, Continued(u, todo, catch))
  BY <1>1, GoesOnReads
<1> QED BY <1>2, <1>3, CallsTold DEF SavesInv, PageOK

LEMMA UserTold ==
  ASSUME SavesInv, User
  PROVE  AllTold(had, ui', tasks')
<1> DEFINE Goal == AllTold(had, ui', tasks')
<1> SUFFICES Goal
  OBVIOUS
<1> HIDE DEF Goal
<1>1. /\ UiInv /\ AllTold(had, ui, tasks) /\ PageTold(had, ui) /\ PageOK(Contacts, Deals, ui)
      /\ DOMAIN ui = PageFields /\ Contacts \in Nat /\ Deals \in Nat
  BY Numbers DEF SavesInv, AllTold, UiInv, PageOK
<1>2. SameRows(ui, ui) /\ SameRows(ui, Closed(ui)) /\ Closed(ui).form = NoForm
  BY <1>1, ToldAlike DEF SameRows
<1>3. ASSUME NEW c \in DOMAIN server.contact, SelectContact(c)
      PROVE  Goal
  <2>1. Select(c) \in Later(Contacts)
    BY <1>1, SelectIsLater, ServerTypes DEF UiInv
  <2> QED BY <1>1, <1>2, <1>3, <2>1, ReadsTold DEF SelectContact, Goal
<1>4. ASSUME NEW text \in Searches, OnSearch(text)
      PROVE  Goal
  <2> DEFINE v == [ui EXCEPT !.search = text]
  <2>1. SameRows(ui, v) /\ v.form = ui.form /\ DOMAIN v = PageFields
    BY <1>1 DEF SameRows, PageFields
  <2>2. PageOK(Contacts, Deals, v)
    <3>1. /\ v.contacts = ui.contacts /\ v.allDeals = ui.allDeals /\ v.contact = ui.contact
          /\ v.activities = ui.activities /\ v.contactDeals = ui.contactDeals
          /\ v.selectedId = ui.selectedId /\ v.dragging = ui.dragging
          /\ v.actNote = ui.actNote /\ v.actError = ui.actError /\ v.formError = ui.formError
      BY <1>1 DEF PageFields
    <3> HIDE DEF v
    <3> QED BY <1>1, <2>1, <3>1 DEF PageOK
  <2>3. Calls(v, <<RefreshContacts(FALSE)>>, "none")
    BY <1>4 DEF OnSearch
  <2>4. RefreshContacts(FALSE) \in Later(Contacts)
    BY DEF Later
  <2> HIDE DEF v
  <2> QED BY <2>1, <2>2, <2>3, <2>4, ReadsTold DEF Goal
<1>5. ASSUME NEW text, TypeNote(text)
      PROVE  Goal
  <2> DEFINE v == [ui EXCEPT !.actNote = text]
  <2>1. SameRows(ui, v) /\ v.form = ui.form
    BY <1>1 DEF SameRows, PageFields
  <2> QED BY <1>1, <1>5, <2>1, SetsTold DEF TypeNote, Goal
<1>6. CASE LogActivity
  <2> DEFINE w == Write("activity", None, [contact |-> ui.selectedId, note |-> ui.actNote], {"note"})
             todo == <<w, ReloadSelected(None)>>
  <2>1. w.do = "write" /\ ValuesTold(had, w)
    BY DEF Write, ValuesTold
  <2>2. todo # << >> /\ Head(todo) = w
    OBVIOUS
  <2>3. Calls(ui, todo, "act")
    BY <1>6 DEF LogActivity
  <2> HIDE DEF w, todo
  <2> QED BY <1>1, <1>2, <2>1, <2>2, <2>3, WritesFirst, CallsTold DEF Goal
<1>7. ASSUME NEW f, ValuesTold(had, f), Sets(Opened(f))
      PROVE  Goal
  <2>1. SameRows(ui, Opened(f)) /\ Opened(f).form = f
    BY <1>1 DEF SameRows, Opened, PageFields
  <2> QED BY <1>1, <1>7, <2>1, SetsTold DEF Goal
<1>8. CASE NewContact \/ OpenDealForm
  <2>1. \A kind, values : ValuesTold(had, Dialog(kind, None, None, values))
    BY DEF ValuesTold, Dialog
  <2> QED BY <1>7, <1>8, <2>1 DEF NewContact, OpenDealForm
<1>9. CASE EditContact
  <2> DEFINE f == Dialog("contact", ui.contact.id, None, [name |-> ui.contact.name])
  <2>1. ContactTold(had, ui.contact) /\ ui.contact.id # None
    BY <1>1, <1>9 DEF PageTold, EditContact
  <2>2. PICK h \in had : h.kind = "contact" /\ h.id = ui.contact.id /\ h.row.name = ui.contact.name
    BY <2>1 DEF ContactTold, Agrees
  <2>3. /\ f.kind = "contact" /\ f.id = ui.contact.id /\ DOMAIN f.values = {"name"}
        /\ f.values.name = ui.contact.name
    BY DEF Dialog
  <2>4. Sets(Opened(f))
    BY <1>9 DEF EditContact
  <2> HIDE DEF f
  <2>5. ValuesTold(had, f)
    BY <2>2, <2>3 DEF ValuesTold, Agrees
  <2> QED BY <1>7, <2>4, <2>5
<1>10. ASSUME NEW stage, Drop(stage)
       PROVE  Goal
  <2> DEFINE v == [ui EXCEPT !.dragging = None]
             w == Write("deal", ui.dragging, [stage |-> stage], {"stage"})
             todo == <<w>> \o AfterMove
  <2>1. SameRows(ui, v) /\ v.form = ui.form /\ DOMAIN v = PageFields
    BY <1>1 DEF SameRows, PageFields
  <2>2. /\ w.do = "write" /\ w.kind = "deal" /\ w.id = ui.dragging
        /\ DOMAIN w.values \ w.touched = {}
    BY DEF Write
  <2>3. ValuesTold(had, w)
    <3>1. ui.dragging \in 1..Deals
      <4>1. ui.dragging # 0 /\ ui.dragging \in 0..Deals
        BY <1>1, <1>10 DEF Drop, PageOK, None
      <4> QED BY <1>1, <4>1
    <3>2. PICK h \in had : h.kind = "deal" /\ h.id = ui.dragging
      <4>1. [kind |-> "deal", id |-> ui.dragging, row |-> server.deal[ui.dragging]] \in had
        BY <3>1, RowsTold DEF SavesInv, UiInv
      <4> QED BY <4>1
    <3> HIDE DEF w
    <3> QED BY <2>2, <3>2 DEF ValuesTold, Agrees
  <2>4. todo # << >> /\ Head(todo) = w
    <3>1. AfterMove \in Seq({RefreshDeals, ReloadSelected(None)})
      BY DEF AfterMove
    <3> HIDE DEF w
    <3> QED BY <3>1, FirstAndRest
  <2>5. Calls(v, todo, "none")
    BY <1>10 DEF Drop
  <2> HIDE DEF v, w, todo
  <2>6. TaskTold(had, Continued(v, todo, "none"))
    BY <2>2, <2>3, <2>4, WritesFirst
  <2> QED BY <1>1, <2>1, <2>5, <2>6, CallsTold DEF Goal
<1>11. ASSUME NEW deals, DealsTold(had, deals), NEW d, OpenDealDetail(deals, d)
       PROVE  Goal
  <2> DEFINE f == Dialog("deal", d, deals[d].contact,
                         [title |-> deals[d].title, stage |-> deals[d].stage,
                          close |-> deals[d].close])
  <2>1. d \in DOMAIN deals /\ Sets(Opened(f))
    BY <1>11 DEF OpenDealDetail
  <2>2. PICK h \in had : /\ h.kind = "deal" /\ h.id = d /\ h.row.title = deals[d].title
                         /\ h.row.stage = deals[d].stage /\ h.row.close = deals[d].close
    BY <1>11, <2>1 DEF DealsTold, Agrees
  <2>3. /\ f.kind = "deal" /\ f.id = d /\ DOMAIN f.values = {"title", "stage", "close"}
        /\ f.values.title = deals[d].title /\ f.values.stage = deals[d].stage
        /\ f.values.close = deals[d].close
    BY DEF Dialog
  <2> HIDE DEF f
  <2>4. ValuesTold(had, f)
    BY <2>2, <2>3 DEF ValuesTold, Agrees
  <2> QED BY <1>7, <2>1, <2>4
<1>12. DealsTold(had, ui.allDeals) /\ DealsTold(had, ui.contactDeals.rows)
  BY <1>1 DEF PageTold
<1>13. ASSUME NEW d, DragStart(d) \/ DragEnd
       PROVE  Goal
  <2>1. ASSUME NEW e
        PROVE  SameRows(ui, [ui EXCEPT !.dragging = e]) /\ [ui EXCEPT !.dragging = e].form = ui.form
    BY <1>1 DEF SameRows, PageFields
  <2> QED BY <1>1, <1>13, <2>1, SetsTold DEF DragStart, DragEnd, Goal
<1>14. ASSUME NEW field, NEW text, OnFieldChange(field, text)
       PROVE  Goal
  <2> DEFINE f == ui.form
             values == [f.values EXCEPT ![field] = text]
             g == [[f EXCEPT !.values = values] EXCEPT !.touched = f.touched \cup {field}]
             v == [ui EXCEPT !.form = g]
  <2>1. FormOK(Contacts, Deals, f) /\ f # NoForm /\ ValuesTold(had, f)
    BY <1>1, <1>14 DEF OnFieldChange, AtDialog, FormOpen, PageOK, PageTold
  <2>2. DOMAIN f = {"kind", "id", "dealContact", "values", "touched"}
    BY <2>1 DEF FormOK
  <2>3. Sets(v)
    <3>1. Sets([ui EXCEPT !.form.values[field] = text, !.form.touched = @ \cup {field}])
      BY <1>14 DEF OnFieldChange
    <3>2. [ui EXCEPT !.form.values[field] = text, !.form.touched = @ \cup {field}] = v
      BY <1>1, <2>2 DEF PageFields
    <3> HIDE DEF v
    <3> QED BY <3>1, <3>2
  <2>4. /\ DOMAIN values = DOMAIN f.values
        /\ \A x \in DOMAIN f.values \ {field} : values[x] = f.values[x]
    OBVIOUS
  <2> HIDE DEF values
  <2>5. /\ g.kind = f.kind /\ g.id = f.id /\ g.values = values
        /\ g.touched = f.touched \cup {field}
    BY <2>2
  <2> HIDE DEF g
  <2>6. SameRows(ui, v) /\ v.form = g
    BY <1>1 DEF SameRows, PageFields
  <2> HIDE DEF v, f
  <2>7. ValuesTold(had, g)
    BY <2>1, <2>4, <2>5 DEF ValuesTold, Agrees
  <2> QED BY <1>1, <2>3, <2>6, <2>7, SetsTold DEF Goal
<1>15. CASE CloseForm
  BY <1>1, <1>2, <1>15, SetsTold DEF CloseForm, Goal
<1>16. CASE GoFormContact
  <2> DEFINE c == ui.form.dealContact
  <2>1. c \in 1..Contacts
    <3>1. c # 0 /\ c \in 0..Contacts
      BY <1>1, <1>16 DEF GoFormContact, AtDialog, FormOpen, FormOK, None, PageOK
    <3> HIDE DEF c
    <3> QED BY <1>1, <3>1
  <2>2. Calls(Closed(ui), <<Select(c)>>, "none")
    BY <1>16 DEF GoFormContact
  <2> HIDE DEF c
  <2>3. Select(c) \in Later(Contacts)
    BY <2>1, SelectIsLater
  <2>4. PageOK(Contacts, Deals, Closed(ui))
    BY <1>1, ClosedOK
  <2> QED BY <1>2, <2>2, <2>3, <2>4, ReadsTold DEF Goal
<1>17. CASE SubmitForm
  <2> DEFINE f == ui.form
             w == FormWrite
             rest == AfterSave(f)
             todo == <<w>> \o rest
  <2>1. FormOpen /\ Calls(ui, todo, "form")
    BY <1>17 DEF SubmitForm, AtDialog
  <2>2. f # NoForm /\ ValuesTold(had, f)
    BY <1>1, <2>1 DEF FormOpen, PageTold
  <2>3. /\ w.do = "write" /\ w.kind = f.kind /\ w.id = f.id /\ w.touched = f.touched
        /\ f.id # None => w.values = f.values
    BY DEF FormWrite, Write
  <2>4. ThenOK(Contacts, w, rest)
    BY <1>1, <2>1, AfterSaveOK
  <2> HIDE DEF w, rest
  <2>5. ValuesTold(had, w)
    BY <2>2, <2>3 DEF ValuesTold
  <2>6. todo # << >> /\ Head(todo) = w
    <3>1. rest \in Seq(Later(Contacts)) \/ rest \in Seq(Later(Contacts) \cup {Select(None)})
      BY <2>3, <2>4 DEF ThenOK
    <3> QED BY <3>1, FirstAndRest
  <2> HIDE DEF todo
  <2> QED BY <1>1, <1>2, <2>1, <2>3, <2>5, <2>6, WritesFirst, CallsTold DEF Goal
<1> QED BY <1>3, <1>4, <1>5, <1>6, <1>8, <1>9, <1>10, <1>11, <1>12, <1>13, <1>14, <1>15, <1>16,
           <1>17 DEF User

LEMMA ServeTold ==
  ASSUME SavesInv, NEW t \in DOMAIN tasks, NEW field, Serve(t, field)
  PROVE  AllTold(had, ui', tasks')
<1> DEFINE x == tasks[t]
           y == tasks'[t]
<1>1. /\ SameSteps(tasks, tasks') /\ \A k \in DOMAIN tasks \ {t} : tasks'[k] = tasks[k]
      /\ field \in Fields(x.step)
      /\ DOMAIN y.got = DOMAIN x.got \cup {field}
      /\ \A f \in DOMAIN x.got : y.got[f] = x.got[f]
      /\ x.step.do # "write" => y.got[field] = Answer(server, field, x.step)
      /\ ui' = ui
  BY ServeSteps DEF SavesInv
<1>2. StepOK(Contacts, Deals, x.step) /\ ServerOK /\ RowsOf(server) \subseteq had
  BY DEF SavesInv, UiInv, TasksOK, TaskOK
<1>3. y.step = x.step /\ DOMAIN tasks' = DOMAIN tasks
  BY <1>1 DEF SameSteps
<1>4. TaskTold(had, x) /\ PageTold(had, ui)
  BY DEF SavesInv, AllTold
<1>5. GotTold(had, y.got)
  <2>1. CASE x.step.do = "write"
    <3>1. field = "saved"
      BY <1>1, <2>1 DEF Fields
    <3> HIDE DEF x, y
    <3> QED BY <1>1, <1>4, <3>1 DEF TaskTold, GotTold
  <2>2. CASE x.step.do # "write"
    <3>1. /\ field = "contact" => ContactTold(had, y.got[field])
          /\ field = "allDeals" => DealsTold(had, y.got[field])
          /\ field = "contactDeals" => DealsTold(had, y.got[field].rows)
      BY <1>1, <1>2, <2>2, AnswerTold
    <3> HIDE DEF x, y
    <3> QED BY <1>1, <1>4, <3>1 DEF TaskTold, GotTold
  <2> QED BY <2>1, <2>2
<1> HIDE DEF x, y
<1>6. TaskTold(had, y)
  BY <1>3, <1>4, <1>5 DEF TaskTold
<1> QED BY <1>1, <1>3, <1>4, <1>6 DEF SavesInv, AllTold, y

LEMMA ShownTold ==
  ASSUME SavesInv, NEW t \in DOMAIN tasks, Answered(t)
  PROVE  PageTold(had, Shown(ui, t)) /\ DOMAIN Shown(ui, t) = PageFields
<1> DEFINE s == tasks[t].step
           got == tasks[t].got
           v == Shown(ui, t)
<1>1. /\ DOMAIN ui = PageFields /\ StepOK(Contacts, Deals, s) /\ DOMAIN got = Fields(s)
      /\ PageTold(had, ui) /\ GotTold(had, got)
  BY DEF SavesInv, UiInv, PageOK, TasksOK, TaskOK, Answered, AllTold, TaskTold
<1>2. CASE s.do = "write"
  <2>1. v = Saved(ui, s)
    BY <1>2 DEF Shown
  <2> DEFINE a == [ui EXCEPT !.actNote = Blank, !.actError = Blank]
  <2>2. SameRows(ui, a) /\ a.form = ui.form /\ DOMAIN a = PageFields
    BY <1>1 DEF SameRows, PageFields
  <2>3. SameRows(ui, Closed(ui)) /\ Closed(ui).form = NoForm /\ DOMAIN Closed(ui) = PageFields
    BY <1>1, ToldAlike DEF Closed
  <2>4. v = a \/ v = ui \/ v = Closed(ui)
    BY <2>1 DEF Saved
  <2> HIDE DEF v, a
  <2>5. PageTold(had, v) /\ DOMAIN v = PageFields
    BY <1>1, <2>2, <2>3, <2>4 DEF PageTold, SameRows
  <2> QED BY <2>5 DEF v
<1>3. CASE s.do # "write"
  <2>1. v = [f \in DOMAIN ui |-> IF f \in DOMAIN got THEN got[f] ELSE ui[f]]
    BY <1>3 DEF Shown
  <2>2. "form" \notin DOMAIN got
    BY <1>1, <1>3 DEF Fields, StepOK
  <2> HIDE DEF v, s, got
  <2>3. /\ DOMAIN v = PageFields /\ v.form = ui.form
        /\ \A f \in PageFields : v[f] = IF f \in DOMAIN got THEN got[f] ELSE ui[f]
    BY <1>1, <2>1, <2>2 DEF PageFields
  <2>4. /\ v.contact = IF "contact" \in DOMAIN got THEN got.contact ELSE ui.contact
        /\ v.allDeals = IF "allDeals" \in DOMAIN got THEN got.allDeals ELSE ui.allDeals
        /\ v.contactDeals = IF "contactDeals" \in DOMAIN got THEN got.contactDeals ELSE ui.contactDeals
    BY <2>3 DEF PageFields
  <2>5. PageTold(had, v)
    BY <1>1, <2>3, <2>4 DEF PageTold, GotTold
  <2> QED BY <2>3, <2>5 DEF v
<1> QED BY <1>2, <1>3

LEMMA ResumeTold ==
  ASSUME SavesInv, NEW t \in DOMAIN tasks, Resume(t)
  PROVE  AllTold(had, ui', tasks')
<1> DEFINE v == Shown(ui, t)
           n == Contacts
           m == Deals
<1>1. /\ Answered(t) /\ (tasks[t].step.do = "write" => tasks[t].got.saved.ok) /\ UiInv
      /\ \A k \in DOMAIN tasks : TaskTold(had, tasks[k])
  BY DEF Resume, CarriedOut, SavesInv, AllTold
<1>2. /\ PageTold(had, v) /\ DOMAIN v = PageFields /\ PageOK(n, m, v)
      /\ Left(t) \in Seq(Later(n)) \cup Rests /\ n \in Nat /\ m \in Nat
      /\ tasks \in Seq(Elements(tasks))
  BY <1>1, ShownTold, ShownOK, LeftOK, Numbers DEF UiInv, TasksOK
<1>3. CASE ~SelectsFirst(t)
  <2> DEFINE x == Continued(v, Left(t), tasks[t].catch)
  <2>1. ui' = Page(v, Left(t)) /\ tasks' = [tasks EXCEPT ![t] = x]
    BY <1>3 DEF Resume, GoesOn
  <2>2. TaskTold(had, x)
    BY <1>2, GoesOnReads
  <2>3. SameRows(v, ui') /\ ui'.form = v.form
    BY <1>2, <2>1, ToldAlike
  <2> HIDE DEF x, v
  <2>4. DOMAIN tasks' = DOMAIN tasks /\ tasks'[t] = x
        /\ \A k \in DOMAIN tasks \ {t} : tasks'[k] = tasks[k]
    BY <1>2, <2>1, TaskSet
  <2>5. PageTold(had, ui')
    BY <1>2, <2>3 DEF PageTold, SameRows
  <2> QED BY <1>1, <2>2, <2>4, <2>5 DEF AllTold
<1>4. CASE SelectsFirst(t)
  <2>1. PICK c \in DOMAIN tasks[t].got.contacts :
          LET u == Clicked(v, Select(c))
          IN  /\ ui' = Page(u, Left(t))
              /\ tasks' = Append([tasks EXCEPT ![t] = Continued(u, Left(t), @.catch)],
                                 Continued(u, <<Select(c)>>, "none"))
    BY <1>4 DEF Resume
  <2> DEFINE u == Clicked(v, Select(c))
             x == Continued(u, Left(t), tasks[t].catch)
             z == Continued(u, <<Select(c)>>, "none")
             T == [tasks EXCEPT ![t] = x]
  <2>2. ui' = Page(u, Left(t)) /\ tasks' = Append(T, z)
    BY <2>1
  <2>3. c \in 1..n
    <3>1. tasks[t].step.do = "contacts" /\ DOMAIN tasks[t].got = Fields(tasks[t].step)
      BY <1>1, <1>4 DEF SelectsFirst, Answered
    <3>2. "contacts" \in DOMAIN tasks[t].got
      BY <3>1 DEF Fields
    <3>3. GotOK(Contacts, Deals, tasks[t].step, tasks[t].got)
      BY <1>1 DEF UiInv, TasksOK, TaskOK
    <3> QED BY <3>2, <3>3 DEF GotOK
  <2>4. Select(c) \in Later(n) /\ <<Select(c)>> \in Seq(Later(n))
    BY <2>3, SelectIsLater
  <2>5. PageOK(n, m, u) /\ SameRows(v, u) /\ u.form = v.form
    <3>1. ~Skipped(v, Select(c))
      BY DEF Skipped, Select
    <3>2. PageOK(n, m, Clicked(v, Select(c)))
      BY <1>2, <2>4, <3>1, BegunOK
    <3> QED BY <1>2, <3>2, ToldAlike
  <2> HIDE DEF u, v
  <2>6. TaskTold(had, x) /\ TaskTold(had, z)
    BY <1>2, <2>4, <2>5, GoesOnReads
  <2>7. DOMAIN u = PageFields
    BY <2>5 DEF PageOK
  <2>8. SameRows(u, ui') /\ ui'.form = u.form
    BY <2>2, <2>7, ToldAlike
  <2>9. PageTold(had, ui')
    BY <1>2, <2>5, <2>8 DEF PageTold, SameRows
  <2>10. T = [tasks EXCEPT ![t] = x]
    OBVIOUS
  <2> HIDE DEF x, z, T
  <2>11. /\ T \in Seq(Elements(T)) /\ DOMAIN T = DOMAIN tasks /\ T[t] = x
         /\ \A k \in DOMAIN tasks \ {t} : T[k] = tasks[k]
    BY <1>2, <2>10, TaskSet
  <2>12. Added(T, z, tasks') /\ DOMAIN T = 1..Len(T) /\ Len(T) \in Nat
    BY <2>2, <2>11, TaskAdded, LenProperties
  <2>13. \A k \in DOMAIN tasks' : tasks'[k] = z \/ (k \in DOMAIN T /\ tasks'[k] = T[k])
    BY <2>12 DEF Added
  <2> QED BY <1>1, <2>6, <2>9, <2>11, <2>13 DEF AllTold
<1> QED BY <1>3, <1>4

LEMMA ThrowsTold ==
  ASSUME SavesInv, NEW t \in DOMAIN tasks, Throws(t)
  PROVE  AllTold(had, ui', tasks')
<1>1. ui' = Caught(ui, tasks[t].catch) /\ tasks' = [tasks EXCEPT ![t] = Ended]
  BY DEF Throws
<1>2. tasks \in Seq(Elements(tasks)) /\ DOMAIN ui = PageFields /\ AllTold(had, ui, tasks)
  BY DEF SavesInv, UiInv, TasksOK, PageOK
<1>3. SameRows(ui, ui') /\ ui'.form = ui.form
  BY <1>1, <1>2, ToldAlike
<1>4. PageTold(had, ui')
  BY <1>2, <1>3 DEF AllTold, PageTold, SameRows
<1>5. DOMAIN tasks' = DOMAIN tasks /\ tasks'[t] = Ended
      /\ \A k \in DOMAIN tasks \ {t} : tasks'[k] = tasks[k]
  BY <1>1, <1>2, TaskSet
<1> QED BY <1>2, <1>4, <1>5, EndedTold DEF AllTold

LEMMA SavesInit_Inv == SavesInit => SavesInv
<1> SUFFICES ASSUME SavesInit
             PROVE  SavesInv
  OBVIOUS
<1>1. UiInv /\ had = RowsOf(server)
  BY UiInit DEF SavesInit
<1> DEFINE u == Page(NewPage, Mount)
           x == Continued(NewPage, Mount, "none")
<1>2. ui = u /\ tasks = <<x>>
  BY DEF SavesInit, Init
<1>3. /\ DOMAIN NewPage = PageFields /\ NewPage.form = NoForm /\ NewPage.contact.id = None
      /\ DOMAIN NewPage.allDeals = {} /\ DOMAIN NewPage.contactDeals.rows = {}
  BY DEF NewPage, PageFields
<1>4. SameRows(NewPage, u) /\ u.form = NoForm
  BY <1>3, ToldAlike
<1>5. PageTold(had, u)
  <2> HIDE DEF u
  <2> QED BY <1>3, <1>4 DEF PageTold, SameRows, ContactTold, DealsTold
<1>6. TaskTold(had, x)
  <2>1. Mount # << >> /\ Head(Mount) = Import("api")
    BY DEF Mount
  <2>2. Import("api").do = "import"
    BY DEF Import
  <2>3. x.step.do # "write" /\ x.got = << >>
    BY <2>1, <2>2 DEF Continued, Ended, Begun
  <2>4. GotTold(had, << >>)
    BY DEF GotTold
  <2> HIDE DEF x
  <2> QED BY <2>3, <2>4 DEF TaskTold
<1> HIDE DEF u, x
<1>7. \A t \in DOMAIN tasks : TaskTold(had, tasks[t])
  BY <1>2, <1>6
<1> QED BY <1>1, <1>2, <1>5, <1>7 DEF SavesInv, AllTold

LEMMA SavesInv_Next == SavesInv /\ [SavesNext]_<<vars, had>> => SavesInv'
<1> SUFFICES ASSUME SavesInv, [SavesNext]_<<vars, had>>
             PROVE  SavesInv'
  OBVIOUS
<1>1. [Next]_vars /\ (had' = had \cup RowsOf(server') \/ (had' = had /\ server' = server))
  BY DEF SavesNext, vars
<1>2. UiInv'
  BY <1>1, UiNext DEF SavesInv
<1>3. RowsOf(server') \subseteq had' /\ had \subseteq had'
  BY <1>1 DEF SavesInv
<1>4. RowsOf(server)' = RowsOf(server')
  BY DEF RowsOf
<1>5. AllTold(had, ui', tasks')
  <2>1. CASE vars' = vars
    BY <2>1 DEF vars, SavesInv
  <2>2. ASSUME NEW t \in DOMAIN tasks, Network(t) \/ Lose(t)
        PROVE  AllTold(had, ui', tasks')
    BY <2>2, ServeTold, ResumeTold, ThrowsTold DEF Network, Refused, Lose
  <2> QED BY <1>1, <2>1, <2>2, UserTold DEF Next, Rest
<1>6. AllTold(had', ui', tasks')
  BY <1>3, <1>5, ToldMore
<1>7. AllTold(had, ui, tasks)'
  BY <1>6 DEF AllTold, PageTold, TaskTold, GotTold, ContactTold, DealsTold, ValuesTold, Agrees
<1> QED BY <1>2, <1>3, <1>4, <1>7 DEF SavesInv

(* A save of a stored row carries the values of that very row, for every    *)
(* user, patient or not, and whatever is lost (openContactForm,             *)
(* openDealDetail, submitForm, drop, select and the two refreshes).         *)
THEOREM SavesStayOnTheirRow == SavesSpec => []NoCrossedSave
<1>1. SavesInv => NoCrossedSave
  <2> SUFFICES ASSUME SavesInv, NEW w \in Saves, w.id # None
               PROVE  \E h \in had : /\ h.kind = w.kind /\ h.id = w.id
                                     /\ \A f \in DOMAIN w.values \ w.touched : w.values[f] = h.row[f]
    BY DEF NoCrossedSave
  <2>1. PICK t \in DOMAIN tasks : w = tasks[t].step /\ tasks[t].step.do = "write"
    BY DEF Saves
  <2>2. ValuesTold(had, w)
    BY <2>1 DEF SavesInv, AllTold, TaskTold
  <2> QED BY <2>2 DEF ValuesTold, Agrees
<1> QED BY <1>1, SavesInit_Inv, SavesInv_Next, PTL DEF SavesSpec
-----------------------------------------------------------------------------
(* A user who waits submits one dialog at a time, with nothing else under   *)
(* way.                                                                     *)

Submits(x) == x.step.do = "write" /\ x.catch = "form"

SubmitsAlone ==
  \A t \in DOMAIN tasks : Submits(tasks[t]) =>
    ui.form # NoForm /\ \A s \in DOMAIN tasks \ {t} : ~Running(s)

AloneInv == UiInv /\ SubmitsAlone

(* After a method that runs has gone on, no dialog is being submitted.      *)
LEMMA ResumeEndsSubmit ==
  ASSUME AloneInv, NEW t \in DOMAIN tasks, Resume(t), NEW k \in DOMAIN tasks'
  PROVE  ~Submits(tasks'[k])
<1> DEFINE v == Shown(ui, t)
           n == Contacts
           m == Deals
<1>1. /\ Answered(t) /\ Running(t) /\ UiInv
      /\ (tasks[t].step.do = "write" => tasks[t].got.saved.ok)
  BY DEF Resume, CarriedOut, AloneInv, Answered
<1>2. /\ PageOK(n, m, v) /\ Left(t) \in Seq(Later(n)) \cup Rests /\ n \in Nat /\ m \in Nat
      /\ tasks \in Seq(Elements(tasks))
  BY <1>1, ShownOK, LeftOK, Numbers DEF UiInv, TasksOK
<1>3. \A j \in DOMAIN tasks \ {t} : ~Submits(tasks[j])
  BY <1>1 DEF AloneInv, SubmitsAlone
<1>4. CASE ~SelectsFirst(t)
  <2> DEFINE x == Continued(v, Left(t), tasks[t].catch)
  <2>1. tasks' = [tasks EXCEPT ![t] = x]
    BY <1>4 DEF Resume, GoesOn
  <2>2. x.step.do # "write"
    BY <1>2, ReadsOn
  <2> HIDE DEF x
  <2> QED BY <1>2, <1>3, <2>1, <2>2, TaskSet DEF Submits
<1>5. CASE SelectsFirst(t)
  <2>1. PICK c \in DOMAIN tasks[t].got.contacts :
          LET u == Clicked(v, Select(c))
          IN  tasks' = Append([tasks EXCEPT ![t] = Continued(u, Left(t), @.catch)],
                              Continued(u, <<Select(c)>>, "none"))
    BY <1>5 DEF Resume
  <2> DEFINE u == Clicked(v, Select(c))
             x == Continued(u, Left(t), tasks[t].catch)
             z == Continued(u, <<Select(c)>>, "none")
             T == [tasks EXCEPT ![t] = x]
  <2>2. tasks' = Append(T, z)
    BY <2>1
  <2>3. c \in 1..n
    <3>1. tasks[t].step.do = "contacts" /\ DOMAIN tasks[t].got = Fields(tasks[t].step)
      BY <1>1, <1>5 DEF SelectsFirst, Answered
    <3>2. "contacts" \in DOMAIN tasks[t].got
      BY <3>1 DEF Fields
    <3>3. GotOK(Contacts, Deals, tasks[t].step, tasks[t].got)
      BY <1>1 DEF UiInv, TasksOK, TaskOK
    <3> QED BY <3>2, <3>3 DEF GotOK
  <2>4. Select(c) \in Later(n) /\ <<Select(c)>> \in Seq(Later(n))
    BY <2>3, SelectIsLater
  <2>5. PageOK(n, m, u)
    <3>1. ~Skipped(v, Select(c))
      BY DEF Skipped, Select
    <3> QED BY <1>2, <2>4, <3>1, BegunOK
  <2> HIDE DEF u
  <2>6. x.step.do # "write" /\ z.step.do # "write"
    BY <1>2, <2>4, <2>5, ReadsOn
  <2> HIDE DEF x, z
  <2>7. /\ T \in Seq(Elements(T)) /\ DOMAIN T = DOMAIN tasks /\ T[t] = x
        /\ \A j \in DOMAIN tasks \ {t} : T[j] = tasks[j]
    BY <1>2, TaskSet
  <2> HIDE DEF T
  <2>8. Added(T, z, tasks') /\ DOMAIN T = 1..Len(T)
    BY <2>2, <2>7, TaskAdded, SeqOfElements
  <2>9. \A j \in 1..Len(T) : ~Submits(tasks'[j])
    BY <1>3, <2>6, <2>7, <2>8 DEF Added, Submits
  <2>10. ~Submits(tasks'[Len(T) + 1])
    BY <2>6, <2>8 DEF Added, Submits
  <2>11. Len(T) \in Nat
    BY <2>7, SeqOfElements
  <2> QED BY <2>8, <2>9, <2>10, <2>11 DEF Added
<1> QED BY <1>4, <1>5

(* A save that fails leaves its dialog open, and is over.                   *)
LEMMA ThrowsLeavesForm ==
  ASSUME AloneInv, NEW t \in DOMAIN tasks, Running(t), Throws(t)
  PROVE  ui'.form = ui.form /\ \A k \in DOMAIN tasks' : ~Submits(tasks'[k])
<1>1. DOMAIN ui = PageFields /\ tasks \in Seq(Elements(tasks))
  BY DEF AloneInv, UiInv, PageOK, TasksOK
<1>2. ui'.form = ui.form
  BY <1>1 DEF Throws, Caught, PageFields
<1>3. tasks' = [tasks EXCEPT ![t] = Ended] /\ ~Submits(Ended)
  BY DEF Throws, Ended, Submits
<1>4. DOMAIN tasks' = DOMAIN tasks /\ tasks'[t] = Ended
      /\ \A j \in DOMAIN tasks \ {t} : tasks'[j] = tasks[j]
  BY <1>1, <1>3, TaskSet
<1>5. \A j \in DOMAIN tasks \ {t} : ~Submits(tasks[j])
  BY DEF AloneInv, SubmitsAlone
<1> QED BY <1>2, <1>3, <1>4, <1>5

LEMMA UserSubmits ==
  ASSUME AloneInv, User, Quiet
  PROVE  SubmitsAlone'
<1> DEFINE Goal == SubmitsAlone'
<1> SUFFICES Goal
  OBVIOUS
<1> HIDE DEF Goal
<1>1. \A t \in DOMAIN tasks : ~Running(t) /\ ~Submits(tasks[t])
  BY DEF Quiet, Running, Submits
<1>2. ASSUME NEW u, Sets(u)
      PROVE  Goal
  <2>1. tasks' = tasks
    BY <1>2 DEF Sets
  <2> QED BY <1>1, <2>1 DEF Goal, SubmitsAlone
<1>3. ASSUME NEW x, tasks' = Append(tasks, x), Submits(x) => ui'.form # NoForm
      PROVE  Goal
  <2>1. Added(tasks, x, tasks') /\ DOMAIN tasks = 1..Len(tasks) /\ Len(tasks) \in Nat
    BY <1>3, TaskAdded, SeqOfElements DEF AloneInv, UiInv, TasksOK
  <2>2. \A t \in 1..Len(tasks) : ~Submits(tasks'[t]) /\ tasks'[t].step.do = "none"
    BY <1>1, <2>1 DEF Added, Running
  <2>3. \A t \in DOMAIN tasks' : Submits(tasks'[t]) =>
          ui'.form # NoForm /\ \A s \in DOMAIN tasks' \ {t} : tasks'[s].step.do = "none"
    BY <1>3, <2>1, <2>2 DEF Added
  <2> QED BY <2>3 DEF Goal, SubmitsAlone, Running
<1>4. ASSUME NEW u, NEW todo, NEW catch, catch # "form", Calls(u, todo, catch)
      PROVE  Goal
  <2> DEFINE x == IF u.api THEN Continued(u, todo, catch) ELSE Ended
  <2>1. tasks' = Append(tasks, x)
    BY <1>4 DEF Calls
  <2>2. ~Submits(x)
    BY <1>4 DEF Submits, Continued, Ended
  <2> HIDE DEF x
  <2> QED BY <1>3, <2>1, <2>2
<1>5. CASE SubmitForm
  <2> DEFINE w == FormWrite
             todo == <<w>> \o AfterSave(ui.form)
             x == IF ui.api THEN Continued(ui, todo, "form") ELSE Ended
  <2>1. tasks' = Append(tasks, x) /\ ui.form # NoForm
        /\ (ui.api => ui' = Page(ui, todo))
    BY <1>5 DEF SubmitForm, Calls, AtDialog, FormOpen
  <2>2. todo # << >> /\ Head(todo) = w
    BY DEF AfterSave
  <2>3. w.do = "write"
    BY DEF FormWrite, Write
  <2> HIDE DEF w, todo
  <2>4. Page(ui, todo) = ui
    BY <2>2, <2>3 DEF Page, Over, Clicked
  <2>5. ~Submits(Ended)
    BY DEF Submits, Ended
  <2>6. Submits(x) => ui'.form # NoForm
    BY <2>1, <2>4, <2>5
  <2> HIDE DEF x
  <2> QED BY <1>3, <2>1, <2>6
<1>6. CASE LogActivity
  BY <1>4, <1>6 DEF LogActivity
<1>7. ASSUME NEW stage, Drop(stage)
      PROVE  Goal
  BY <1>4, <1>7 DEF Drop
<1>8. ASSUME NEW c, SelectContact(c)
      PROVE  Goal
  BY <1>4, <1>8 DEF SelectContact
<1>9. ASSUME NEW text, OnSearch(text)
      PROVE  Goal
  BY <1>4, <1>9 DEF OnSearch
<1>10. CASE GoFormContact
  BY <1>4, <1>10 DEF GoFormContact
<1>11. CASE NewContact \/ EditContact \/ OpenDealForm \/ CloseForm \/ DragEnd
  BY <1>2, <1>11 DEF NewContact, EditContact, OpenDealForm, CloseForm, DragEnd
<1>12. ASSUME NEW deals, NEW d, OpenDealDetail(deals, d)
       PROVE  Goal
  BY <1>2, <1>12 DEF OpenDealDetail
<1>13. ASSUME NEW d, DragStart(d)
       PROVE  Goal
  BY <1>2, <1>13 DEF DragStart
<1>14. ASSUME NEW text, TypeNote(text)
       PROVE  Goal
  BY <1>2, <1>14 DEF TypeNote
<1>15. ASSUME NEW field, NEW text, OnFieldChange(field, text)
       PROVE  Goal
  BY <1>2, <1>15 DEF OnFieldChange
<1> QED
  BY <1>5, <1>6, <1>7, <1>8, <1>9, <1>10, <1>11, <1>12, <1>13, <1>14, <1>15 DEF User

LEMMA ServeSubmits ==
  ASSUME AloneInv, NEW t \in DOMAIN tasks, NEW field, Serve(t, field)
  PROVE  SubmitsAlone'
<1>1. ui' = ui /\ tasks \in Seq(Elements(tasks))
  BY DEF Serve, AloneInv, UiInv, TasksOK
<1>2. PICK g : tasks' = [tasks EXCEPT ![t].got = g]
  BY DEF Serve
<1>3. DOMAIN tasks' = DOMAIN tasks
      /\ \A j \in DOMAIN tasks : tasks'[j].step = tasks[j].step /\ tasks'[j].catch = tasks[j].catch
  <2> DEFINE x == [tasks[t] EXCEPT !.got = g]
  <2>1. x.step = tasks[t].step /\ x.catch = tasks[t].catch
    BY DEF AloneInv, UiInv, TasksOK, TaskOK
  <2>2. tasks' = [tasks EXCEPT ![t] = x]
    BY <1>2
  <2> HIDE DEF x
  <2> QED BY <1>1, <2>1, <2>2, TaskSet
<1> QED BY <1>1, <1>3 DEF AloneInv, SubmitsAlone, Submits, Running

LEMMA WaitingUser ==
  ASSUME Patient, User
  PROVE  Quiet
<1>1. MayAct => Quiet
  BY DEF MayAct
<1>2. (AtPage => MayAct) /\ (AtDialog => MayAct)
  BY DEF AtPage, AtDialog
<1> QED
  BY <1>1, <1>2, Zenon
     DEF User, SelectContact, OnSearch, TypeNote, LogActivity, NewContact, EditContact,
         OpenDealForm, Drop, OpenDealDetail, DragStart, OnFieldChange, CloseForm,
         GoFormContact, SubmitForm, DragEnd

(* For a user who waits, a dialog that is submitted closes only because its *)
(* save was carried out, also when requests and answers are lost            *)
(* (submitForm, request()).                                                 *)
THEOREM DialogsCloseWhenSaved ==
  ASSUME Patient
  PROVE  Spec => ClosedWhenSaved
<1>1. Init => AloneInv
  <2> SUFFICES ASSUME Init PROVE AloneInv
    OBVIOUS
  <2>1. UiInv /\ DOMAIN tasks = {1} /\ tasks[1].catch = "none"
    <3>1. tasks = <<Continued(NewPage, Mount, "none")>>
      BY DEF Init
    <3>2. Continued(NewPage, Mount, "none").catch = "none"
      BY DEF Continued, Ended
    <3> QED BY <3>1, <3>2, UiInit
  <2> QED BY <2>1 DEF AloneInv, SubmitsAlone, Submits
<1>2. AloneInv /\ [Next]_vars => AloneInv'
  <2> SUFFICES ASSUME AloneInv, [Next]_vars PROVE SubmitsAlone'
    BY UiNext DEF AloneInv
  <2>1. CASE UNCHANGED vars
    BY <2>1 DEF vars, AloneInv, SubmitsAlone, Running
  <2>2. ASSUME NEW t \in DOMAIN tasks, Running(t), Throws(t)
        PROVE  SubmitsAlone'
    BY <2>2, ThrowsLeavesForm DEF SubmitsAlone
  <2>3. ASSUME NEW t \in DOMAIN tasks, Network(t) \/ Lose(t)
        PROVE  SubmitsAlone'
    <3>1. CASE Resume(t)
      BY <3>1, ResumeEndsSubmit DEF SubmitsAlone
    <3>2. CASE Refused(t) \/ Lose(t)
      BY <2>2, <3>2 DEF Refused, Lose, Answered
    <3> QED BY <2>3, <3>1, <3>2, ServeSubmits DEF Network
  <2> QED BY <2>1, <2>3, UserSubmits, WaitingUser DEF Next, Rest
<1>3. ASSUME AloneInv, [Next]_vars, NEW t \in DOMAIN tasks, Submitting(t), ui'.form = NoForm
      PROVE  DOMAIN tasks[t].got = {"saved"} /\ tasks[t].got.saved.ok
  <2>1. /\ Submits(tasks[t]) /\ Running(t) /\ ui.form # NoForm
        /\ \A s \in DOMAIN tasks \ {t} : ~Running(s)
    BY <1>3 DEF AloneInv, SubmitsAlone, Submitting, Submits, Running
  <2>2. ui' # ui
    BY <1>3, <2>1
  <2>3. ~User
    BY <2>1, WaitingUser DEF Quiet
  <2>4. PICK s \in DOMAIN tasks : Network(s) \/ Lose(s)
    BY <1>3, <2>2, <2>3 DEF Next, Rest, vars
  <2>5. \A field : ~Serve(s, field)
    BY <2>2 DEF Serve
  <2>6. Running(s) /\ ~(Refused(s) \/ Lose(s))
    <3>1. ASSUME Refused(s) \/ Lose(s) PROVE FALSE
      BY <1>3, <2>1, <3>1, ThrowsLeavesForm DEF Refused, Lose, Answered
    <3> QED BY <2>4, <2>5, <3>1 DEF Network, Resume, Answered
  <2>7. s = t /\ Resume(t)
    BY <2>1, <2>4, <2>5, <2>6 DEF Network
  <2>8. Fields(tasks[t].step) = {"saved"}
    BY <1>3 DEF Submitting, Fields
  <2> QED BY <1>3, <2>7, <2>8 DEF Resume, Answered, CarriedOut, Submitting
<1>4. AloneInv /\ [Next]_vars =>
        [\A t \in DOMAIN tasks : Submitting(t) /\ ui'.form = NoForm
           => DOMAIN tasks[t].got = {"saved"} /\ tasks[t].got.saved.ok]_vars
  BY <1>3
<1> QED BY <1>1, <1>2, <1>4, PTL DEF Spec, ClosedWhenSaved
=============================================================================
