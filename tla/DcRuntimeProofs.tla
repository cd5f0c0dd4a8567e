--------------------------- MODULE DcRuntimeProofs ---------------------------
(***************************************************************************)
(* What the registry keeps of a stream and what the mounted instances show  *)
(* and call: DcRuntime's safety properties, for every set of DCs, files and *)
(* host calls.                                                              *)
(***************************************************************************)
EXTENDS DcRuntime, SequenceTheorems, FiniteSetTheorems, TLAPS

-----------------------------------------------------------------------------
(* The registry holds what the page, the files and the host have given it.  *)

Given ==
  {EmptyTpl, NoTpl, NoClass, Inline.tpl, Inline.js, 0, TRUE, FALSE}
    \cup {Disk[n].tpl : n \in Names} \cup {Disk[n].js : n \in Names}
    \cup {u.content : u \in Pushes} \cup {u.streaming : u \in Pushes}

Entries ==
  [html : Given, tpl : Given, Logic : Given, logicError : BOOLEAN,
   htmlStreaming : Given, jsStreaming : Given, fetched : BOOLEAN, props : Given]

Registries == [Names -> Entries]

(* A DC that has been streamed has content: its file has nothing to add.    *)
StreamInv ==
  /\ reg \in Registries
  /\ pushed \in [count : Nat, html : SUBSET Names, js : SUBSET Names]
  /\ \A n \in Names \ {Root} : /\ n \in pushed.html => reg[n].html # EmptyTpl
                               /\ n \in pushed.js => reg[n].Logic # NoClass

-----------------------------------------------------------------------------
(* What the updates of an entry change.                                     *)

(* Only the entry of n changes, and of it neither template nor class but as *)
(* said.                                                                    *)
LEMMA UpdateHtmlEffect ==
  ASSUME NEW R \in Registries, NEW n \in Names, NEW t \in Given
  PROVE  /\ UpdateHtml(R, n, t) \in Registries
         /\ UpdateHtml(R, n, t)[n].html = t
         /\ UpdateHtml(R, n, t)[n].Logic = R[n].Logic
         /\ \A m \in Names \ {n} : UpdateHtml(R, n, t)[m] = R[m]
<1> DEFINE e == [R[n] EXCEPT !.html = t,
                             !.tpl = IF t.fault = "compile" THEN @ ELSE t]
<1>1. R[n] \in Entries
  BY DEF Registries
<1>2. e \in Entries /\ e.html = t /\ e.Logic = R[n].Logic
  BY <1>1 DEF Entries
<1>3. UpdateHtml(R, n, t) = [R EXCEPT ![n] = e]
  BY DEF UpdateHtml, Registries
<1> HIDE DEF e
<1> QED BY <1>2, <1>3 DEF Registries

LEMMA UpdateJsEffect ==
  ASSUME NEW R \in Registries, NEW n \in Names, NEW c \in Given
  PROVE  /\ UpdateJs(R, n, c) \in Registries
         /\ UpdateJs(R, n, c)[n].html = R[n].html
         /\ UpdateJs(R, n, c)[n].Logic \in {R[n].Logic, c}
         /\ \A m \in Names \ {n} : UpdateJs(R, n, c)[m] = R[m]
<1> DEFINE e == IF c.fault = "eval" THEN [R[n] EXCEPT !.logicError = TRUE]
                ELSE [R[n] EXCEPT !.logicError = FALSE, !.Logic = c]
<1>1. R[n] \in Entries
  BY DEF Registries
<1>2. e \in Entries /\ e.html = R[n].html /\ e.Logic \in {R[n].Logic, c}
  BY <1>1 DEF Entries
<1>3. UpdateJs(R, n, c) = [R EXCEPT ![n] = e]
  BY DEF UpdateJs, Registries
<1> HIDE DEF e
<1> QED BY <1>2, <1>3 DEF Registries

(* A file fills in a template or a class that is missing, and no more.      *)
LEMMA SiblingEffect ==
  ASSUME NEW R \in Registries, NEW n \in Names
  PROVE  /\ Sibling(R, n) \in Registries
         /\ R[n].html # EmptyTpl => Sibling(R, n)[n].html = R[n].html
         /\ R[n].Logic # NoClass => Sibling(R, n)[n].Logic = R[n].Logic
         /\ \A m \in Names \ {n} : Sibling(R, n)[m] = R[m]
<1> DEFINE S == IF GivesTpl(R, n) THEN UpdateHtml(R, n, Disk[n].tpl) ELSE R
<1>1. Disk[n].tpl \in Given /\ Disk[n].js \in Given
  BY DEF Given
<1>2. /\ S \in Registries /\ S[n].Logic = R[n].Logic
      /\ R[n].html # EmptyTpl => S[n].html = R[n].html
      /\ \A m \in Names \ {n} : S[m] = R[m]
  BY <1>1, UpdateHtmlEffect DEF GivesTpl
<1>3. Sibling(R, n) = IF GivesJs(R, n) THEN UpdateJs(S, n, Disk[n].js) ELSE S
  BY DEF Sibling
<1> HIDE DEF S
<1> QED BY <1>1, <1>2, <1>3, UpdateJsEffect DEF GivesJs

(* A host call gives one entry a template or a class, or neither.           *)
LEMMA DcUpdateEffect ==
  ASSUME NEW R \in Registries, NEW u \in Pushes, u.call \in {"html", "js", "props"}
  PROVE  /\ DcUpdate(R, u) \in Registries
         /\ \A m \in Names \ {u.name} : DcUpdate(R, u)[m] = R[m]
         /\ DcUpdate(R, u)[u.name].html = IF u.call = "html" THEN u.content
                                                             ELSE R[u.name].html
         /\ \/ DcUpdate(R, u)[u.name].Logic = R[u.name].Logic
            \/ DcUpdate(R, u)[u.name].Logic # NoClass
<1> DEFINE n == u.name
           Q == IF u.streaming THEN [R EXCEPT ![n].fetched = TRUE] ELSE R
           H == [Q EXCEPT ![n].htmlStreaming = u.streaming]
           J == [Q EXCEPT ![n].jsStreaming = u.streaming]
           P == [Q EXCEPT ![n].props = u.content]
<1>1. n \in Names /\ u.content \in Given /\ u.streaming \in Given
  BY RuntimeAssumption DEF Given
<1>2. /\ Q \in Registries /\ Q[n].html = R[n].html /\ Q[n].Logic = R[n].Logic
      /\ \A m \in Names \ {n} : Q[m] = R[m]
  <2> HIDE DEF n
  <2> QED BY <1>1 DEF Registries, Entries
<1> HIDE DEF Q
<1>3. CASE u.call = "html"
  <2>1. /\ H \in Registries /\ H[n].Logic = Q[n].Logic
        /\ \A m \in Names \ {n} : H[m] = Q[m]
    <3> HIDE DEF n
    <3> QED BY <1>1, <1>2 DEF Registries, Entries
  <2>2. DcUpdate(R, u) = UpdateHtml(H, n, u.content)
    BY <1>3 DEF DcUpdate, Q
  <2> HIDE DEF H
  <2> QED BY <1>1, <1>2, <1>3, <2>1, <2>2, UpdateHtmlEffect
<1>4. CASE u.call = "js"
  <2>1. /\ J \in Registries /\ J[n].Logic = Q[n].Logic /\ J[n].html = Q[n].html
        /\ \A m \in Names \ {n} : J[m] = Q[m]
    <3> HIDE DEF n
    <3> QED BY <1>1, <1>2 DEF Registries, Entries
  <2>2. DcUpdate(R, u) = IF u.streaming THEN J ELSE UpdateJs(J, n, u.content)
    BY <1>4 DEF DcUpdate, Q
  <2>3. ~ u.streaming => u.content # NoClass
    BY <1>4, RuntimeAssumption
  <2> HIDE DEF J
  <2> QED BY <1>1, <1>2, <1>4, <2>1, <2>2, <2>3, UpdateJsEffect
<1>5. CASE u.call = "props"
  <2>1. /\ P \in Registries /\ P[n].Logic = Q[n].Logic /\ P[n].html = Q[n].html
        /\ \A m \in Names \ {n} : P[m] = Q[m]
    <3> HIDE DEF n
    <3> QED BY <1>1, <1>2 DEF Registries, Entries
  <2>2. DcUpdate(R, u) = P
    BY <1>5 DEF DcUpdate, Q
  <2> HIDE DEF P
  <2> QED BY <1>2, <1>5, <2>1, <2>2
<1> QED BY <1>3, <1>4, <1>5

-----------------------------------------------------------------------------
(* The steps that are no host call keep the templates and classes of        *)
(* streamed siblings.                                                       *)

Kept ==
  \A n \in Names \ {Root} :
    /\ n \in pushed.html => reg'[n].html = reg[n].html
    /\ n \in pushed.js   => reg'[n].Logic = reg[n].Logic

LEMMA CommitKeeps ==
  ASSUME StreamInv, Commit
  PROVE  reg' \in Registries /\ Kept /\ pushed' = pushed
<1>1. PICK new : reg' = [n \in Names |-> [reg[n] EXCEPT !.fetched = @ \/ n \in new]]
  BY DEF Commit, CommitOf, Fetch
<1>2. ASSUME NEW n \in Names
      PROVE  reg'[n] \in Entries /\ reg'[n].html = reg[n].html /\ reg'[n].Logic = reg[n].Logic
  <2>1. reg[n] \in Entries
    BY DEF StreamInv, Registries
  <2>2. reg'[n] = [reg[n] EXCEPT !.fetched = @ \/ n \in new]
    BY <1>1
  <2> QED BY <2>1, <2>2 DEF Entries
<1>3. reg' \in Registries
  BY <1>1, <1>2 DEF Registries
<1> QED BY <1>2, <1>3 DEF Kept, Commit

LEMMA RawArrivesKeeps ==
  ASSUME StreamInv, RawArrives
  PROVE  reg' \in Registries /\ Kept /\ pushed' = pushed
<1>1. Root \in Names /\ Disk[Root].tpl \in Given
  BY RuntimeAssumption DEF Given
<1>2. reg' = UpdateHtml(reg, Root, Disk[Root].tpl) /\ pushed' = pushed
  BY DEF RawArrives
<1> QED BY <1>1, <1>2, UpdateHtmlEffect DEF StreamInv, Kept

LEMMA SiblingArrivesKeeps ==
  ASSUME StreamInv, NEW n \in Names, SiblingArrives(n)
  PROVE  reg' \in Registries /\ Kept /\ pushed' = pushed
<1>1. reg' = Sibling(reg, n) /\ pushed' = pushed
  BY DEF SiblingArrives
<1> QED BY <1>1, SiblingEffect DEF StreamInv, Kept

(* A host call counts, so it is no step that leaves the history alone.      *)
LEMMA HostPushKeeps ==
  ASSUME StreamInv, NEW u \in Pushes, HostPush(u)
  PROVE  StreamInv' /\ pushed' # pushed
<1>1. u.call \in {"html", "js", "props"} /\ reg' = DcUpdate(reg, u) /\ u.name \in Names
  BY RuntimeAssumption DEF HostPush
<1>2. /\ reg' \in Registries /\ \A m \in Names \ {u.name} : reg'[m] = reg[m]
      /\ reg'[u.name].html = IF u.call = "html" THEN u.content ELSE reg[u.name].html
      /\ reg'[u.name].Logic = reg[u.name].Logic \/ reg'[u.name].Logic # NoClass
  BY <1>1, DcUpdateEffect DEF StreamInv
<1>3. /\ pushed'.count = pushed.count + 1
      /\ pushed'.html = IF u.call # "html" THEN pushed.html
                        ELSE (pushed.html \ {u.name})
                             \cup {n \in {u.name} : u.content # EmptyTpl}
      /\ pushed'.js = IF reg'[u.name].Logic # reg[u.name].Logic
                      THEN pushed.js \cup {u.name} ELSE pushed.js
      /\ pushed' = [count |-> pushed'.count, html |-> pushed'.html, js |-> pushed'.js]
  BY DEF HostPush
<1>4. pushed' \in [count : Nat, html : SUBSET Names, js : SUBSET Names]
  BY <1>1, <1>3 DEF StreamInv
<1>5. ASSUME NEW n \in Names \ {Root}
      PROVE  /\ n \in pushed'.html => reg'[n].html # EmptyTpl
             /\ n \in pushed'.js => reg'[n].Logic # NoClass
  <2>1. CASE n = u.name
    BY <1>2, <1>3, <2>1 DEF StreamInv
  <2>2. CASE n # u.name
    BY <1>2, <1>3, <2>2 DEF StreamInv
  <2> QED BY <2>1, <2>2
<1>6. pushed' # pushed
  BY <1>3 DEF StreamInv
<1> QED BY <1>2, <1>4, <1>5, <1>6 DEF StreamInv

LEMMA SetPropsKeeps ==
  ASSUME StreamInv, NEW u \in Pushes, SetProps(u)
  PROVE  StreamInv' /\ pushed' # pushed
<1>1. /\ reg' = [reg EXCEPT ![u.name].props = u.content]
      /\ pushed' = [pushed EXCEPT !.count = @ + 1]
  BY DEF SetProps
<1>2. u.name \in Names /\ u.content \in Given
  BY RuntimeAssumption DEF Given
<1>3. ASSUME NEW n \in Names
      PROVE  /\ reg'[n] \in Entries /\ reg'[n].html = reg[n].html
             /\ reg'[n].Logic = reg[n].Logic
  <2>1. reg[n] \in Entries /\ reg \in [Names -> Entries]
    BY DEF StreamInv, Registries
  <2>2. reg'[n] = IF n = u.name THEN [reg[n] EXCEPT !.props = u.content] ELSE reg[n]
    BY <1>1, <1>2, <2>1
  <2> QED BY <1>2, <2>1, <2>2 DEF Entries
<1>4. reg' \in Registries
  BY <1>1, <1>3 DEF StreamInv, Registries
<1>5. /\ pushed' \in [count : Nat, html : SUBSET Names, js : SUBSET Names]
      /\ pushed'.html = pushed.html /\ pushed'.js = pushed.js
      /\ pushed'.count = pushed.count + 1
  BY <1>1 DEF StreamInv
<1>6. pushed' # pushed
  BY <1>5 DEF StreamInv
<1> QED BY <1>3, <1>4, <1>5, <1>6 DEF StreamInv

(* Every step is a host call or keeps what was streamed.                    *)
LEMMA StepKeeps ==
  ASSUME StreamInv, Next
  PROVE  StreamInv' /\ (pushed' = pushed => Kept)
<1>1. ASSUME reg' \in Registries, Kept, pushed' = pushed
      PROVE  StreamInv' /\ Kept
  BY <1>1 DEF StreamInv, Kept
<1>2. ASSUME UNCHANGED <<reg, pushed>>
      PROVE  StreamInv' /\ Kept
  BY <1>2 DEF StreamInv, Kept
<1>3. CASE Commit
  BY <1>1, <1>3, CommitKeeps
<1>4. CASE RunEffects \/ Resolved
  BY <1>2, <1>4 DEF RunEffects, Resolved
<1>5. CASE RawArrives
  BY <1>1, <1>5, RawArrivesKeeps
<1>6. CASE \E n \in Names : SiblingArrives(n)
  BY <1>1, <1>6, SiblingArrivesKeeps
<1>7. CASE \E n \in Names \cup {"raw"} : FetchFails(n)
  BY <1>2, <1>7 DEF FetchFails
<1>8. CASE \E u \in Pushes : HostPush(u) \/ SetProps(u)
  BY <1>8, HostPushKeeps, SetPropsKeeps
<1>9. CASE \E p \in DOMAIN inst : SetState(p)
  BY <1>2, <1>9 DEF SetState
<1> QED BY <1>3, <1>4, <1>5, <1>6, <1>7, <1>8, <1>9 DEF Next

LEMMA InitStreamInv == Init => StreamInv
<1> SUFFICES ASSUME Init PROVE StreamInv
  OBVIOUS
<1> DEFINE R == [[n \in Names |-> NewEntry] EXCEPT ![Root].fetched = TRUE]
<1>1. Root \in Names /\ Inline.tpl \in Given /\ Inline.js \in Given
  BY RuntimeAssumption DEF Given
<1>2. NewEntry \in Entries
  BY DEF NewEntry, Entries, Given
<1>3. R \in Registries
  <2>1. [NewEntry EXCEPT !.fetched = TRUE] \in Entries
    BY <1>2 DEF Entries
  <2>2. R = [n \in Names |-> IF n = Root THEN [NewEntry EXCEPT !.fetched = TRUE]
                                          ELSE NewEntry]
    BY <1>1
  <2> QED BY <1>2, <2>1, <2>2 DEF Registries
<1>4. reg = Adopted(R, Root, Inline)
  BY DEF Init
<1> HIDE DEF R
<1>5. reg \in Registries
  BY <1>1, <1>3, <1>4, UpdateHtmlEffect, UpdateJsEffect DEF Adopted
<1> QED BY <1>5 DEF Init, StreamInv

-----------------------------------------------------------------------------
(* Whatever files arrive late, and in whatever order, the template and the  *)
(* class that a host has streamed into a sibling stay until the host        *)
(* streams again (adoptSiblingFile, ensureFetched).                         *)
THEOREM StreamsAreKept == Spec => StreamKept
<1> DEFINE KeptUnlessPushed ==
      pushed' = pushed =>
       \A n \in Names \ {Root} :
         /\ n \in pushed.html => reg'[n].html = reg[n].html
         /\ n \in pushed.js   => reg'[n].Logic = reg[n].Logic
<1>1. StreamInv /\ [Next]_vars => StreamInv' /\ [KeptUnlessPushed]_vars
  <2>1. CASE Next
    BY <2>1, StepKeeps DEF Kept
  <2>2. CASE UNCHANGED vars
    BY <2>2 DEF vars, StreamInv
  <2> QED BY <2>1, <2>2
<1> QED BY <1>1, InitStreamInv, PTL DEF Spec, StreamKept

-----------------------------------------------------------------------------
(* What the mounted instances keep.                                         *)

Fields == {"cls", "ran", "hook", "state", "needs", "err", "failed", "memo", "tries", "past", "view"}

Whole(i) == DOMAIN i = Fields /\ i = [f \in Fields |-> i[f]]

(* Reconciling i with the class c would leave it alone.                     *)
Settled(i, c) == c = i.cls \/ (i.memo /\ c = i.failed)

Paired(i) == /\ i.needs \in BOOLEAN
             /\ i.hook = IF i.needs THEN << >> ELSE <<"mount">>

Histories == {<< >>, <<"mount", "unmount">>}

(* An instance at p of an entry r, whatever is due.                         *)
Healthy(p, i, r) ==
  /\ Whole(i)
  /\ i.tries = 0 \/ (i.tries = 1 /\ Settled(i, r.Logic))
  /\ Paired(i)
  /\ i.past \subseteq Histories
  /\ i.view.is = "tpl" => ~Circular(p)

(* It shows what a render would show, and renders nothing new.              *)
Current(p, i, r) ==
  IF Circular(p) THEN i.view = [is |-> "circular"]
  ELSE IF i.err  THEN i.view = [is |-> "error"]
  ELSE /\ Settled(i, r.Logic)
       /\ i.view = IF r.tpl = NoTpl THEN [is |-> "placeholder"]
                   ELSE IF r.tpl.fault = "render" THEN [is |-> "threw"]
                   ELSE TplView(r, i)
       /\ r.tpl # NoTpl => r.tpl.fault # "child"

Calm(p, i, r) == Current(p, i, r) /\ (i.needs => i.err \/ r.tpl = NoTpl)

(* A path ends where a DC comes back.                                       *)
IsPath(p) ==
  /\ p \in Seq(Names) /\ p # << >>
  /\ \A j, k \in 1..Len(p) - 1 : p[j] = p[k] => j = k

Pages ==
  [state : {"up", "blank"}, subscribed : BOOLEAN, due : BOOLEAN, props : Given, missed : BOOLEAN]

InstInv ==
  /\ \A p \in DOMAIN inst :
       /\ IsPath(p) /\ Healthy(p, inst[p], reg[Last(p)])
       /\ p \in due \/ Above(p) \cap due # {} \/ Calm(p, inst[p], reg[Last(p)])
  /\ gone \subseteq Histories /\ page \in Pages
  /\ page.subscribed /\ ~page.due => page.props = reg[Root].props \/ page.missed

-----------------------------------------------------------------------------
(* What rendering does to an instance.                                      *)

LEMMA MakeLogicFields ==
  ASSUME NEW i, Whole(i), NEW c
  PROVE  LET m == MakeLogic(i, c)
         IN  /\ Whole(m) /\ m.hook = << >> /\ m.tries = i.tries + 1
             /\ Settled(m, c)
             /\ m.state = i.state /\ m.needs = i.needs /\ m.err = i.err
             /\ m.past = i.past /\ m.view = i.view
BY DEF MakeLogic, Whole, Fields, Settled

LEMMA AppendOne ==
  ASSUME NEW x, NEW y
  PROVE  Append(<<x>>, y) = <<x, y>>
<1> DEFINE S == {x, y}
<1>1. <<x>> \in Seq(S) /\ Len(<<x>>) = 1 /\ <<x>>[1] = x /\ y \in S
  OBVIOUS
<1>2. /\ Append(<<x>>, y) \in Seq(S) /\ Len(Append(<<x>>, y)) = 2
      /\ Append(<<x>>, y)[1] = x /\ Append(<<x>>, y)[2] = y
  BY <1>1, AppendProperties
<1>3. <<x, y>> \in Seq(S) /\ Len(<<x, y>>) = 2 /\ <<x, y>>[1] = x /\ <<x, y>>[2] = y
  OBVIOUS
<1> HIDE DEF S
<1>4. \A i \in 1..2 : Append(<<x>>, y)[i] = <<x, y>>[i]
  BY <1>2, <1>3
<1> QED BY <1>2, <1>3, <1>4, SeqEqual

LEMMA EndedIsHistory ==
  ASSUME NEW i, Paired(i)
  PROVE  Ended(i) \in Histories
BY AppendOne DEF Paired, Ended, Histories

LEMMA ReconciledFields ==
  ASSUME NEW i, Whole(i), NEW c
  PROVE  LET j == Reconciled(i, c)
         IN  /\ Whole(j) /\ Settled(j, c)
             /\ j.state = i.state /\ j.err = i.err /\ j.view = i.view
             /\ Settled(i, c) => j = i
             /\ Paired(i) => Paired(j)
             /\ Paired(i) /\ i.past \subseteq Histories => j.past \subseteq Histories
             /\ i.tries = 0 => j.tries \in {0, 1}
<1> DEFINE e == [i EXCEPT !.past = @ \cup {Ended(i)}, !.needs = TRUE]
<1>1. CASE Settled(i, c)
  BY <1>1 DEF Reconciled, Settled
<1>2. CASE ~Settled(i, c)
  <2>1. /\ Whole(e) /\ e.past = i.past \cup {Ended(i)} /\ e.needs = TRUE
        /\ e.state = i.state /\ e.err = i.err /\ e.view = i.view /\ e.tries = i.tries
    BY DEF Whole, Fields
  <2>2. Reconciled(i, c) = MakeLogic(e, c)
    BY <1>2 DEF Reconciled, Settled
  <2> HIDE DEF e
  <2>3. /\ Whole(MakeLogic(e, c)) /\ Settled(MakeLogic(e, c), c)
        /\ MakeLogic(e, c).hook = << >> /\ MakeLogic(e, c).tries = e.tries + 1
        /\ MakeLogic(e, c).state = e.state /\ MakeLogic(e, c).needs = e.needs
        /\ MakeLogic(e, c).err = e.err /\ MakeLogic(e, c).past = e.past
        /\ MakeLogic(e, c).view = e.view
    BY <2>1, MakeLogicFields
  <2>4. Paired(MakeLogic(e, c))
    BY <2>1, <2>3 DEF Paired
  <2>5. Paired(i) /\ i.past \subseteq Histories => MakeLogic(e, c).past \subseteq Histories
    BY <2>1, <2>3, EndedIsHistory
  <2> QED BY <1>2, <2>1, <2>2, <2>3, <2>4, <2>5
<1> QED BY <1>1, <1>2

(* j is i with the view v and the error e.                                  *)
Shown(j, i, v, e) ==
  /\ Whole(j) /\ j.view = v /\ j.err = e
  /\ j.state = i.state /\ j.cls = i.cls /\ j.failed = i.failed /\ j.memo = i.memo
  /\ j.tries = i.tries /\ j.hook = i.hook /\ j.needs = i.needs /\ j.past = i.past

(* The logic of i may have been tried once, and is then what is asked for.  *)
TriedOnce(i, c) == i.tries = 0 \/ (i.tries = 1 /\ Settled(i, c))

LEMMA ShownCarries ==
  ASSUME NEW j, NEW i, NEW v, NEW e, Shown(j, i, v, e)
  PROVE  /\ Paired(i) => Paired(j)
         /\ \A c : Settled(i, c) => Settled(j, c)
         /\ \A c : TriedOnce(i, c) => TriedOnce(j, c)
BY DEF Shown, Paired, Settled, TriedOnce

(* j comes of rendering i at p, for the entry r.                            *)
Follows(p, j, i, r) ==
  /\ Whole(j) /\ j.state = i.state /\ Current(p, j, r)
  /\ j.view.is = "tpl" => ~Circular(p)
  /\ Paired(i) => Paired(j)
  /\ Paired(i) /\ i.past \subseteq Histories => j.past \subseteq Histories
  /\ Settled(i, r.Logic) => j.hook = i.hook /\ j.needs = i.needs /\ j.past = i.past
  /\ TriedOnce(i, r.Logic) => TriedOnce(j, r.Logic)

LEMMA RenderEffect ==
  ASSUME NEW p, NEW i, Whole(i)
  PROVE  Follows(p, Render(p, i), i, reg[Last(p)])
<1> DEFINE r == reg[Last(p)]
           k == Reconciled(i, r.Logic)
           j == Render(p, i)
           say(w) == [is |-> w]
<1>1. /\ Whole(k) /\ Settled(k, r.Logic) /\ k.state = i.state /\ k.err = i.err
      /\ Settled(i, r.Logic) => k = i
      /\ Paired(i) => Paired(k)
      /\ Paired(i) /\ i.past \subseteq Histories => k.past \subseteq Histories
      /\ TriedOnce(i, r.Logic) => TriedOnce(k, r.Logic)
  BY ReconciledFields DEF TriedOnce
<1> HIDE DEF k, r
<1>2. CASE Circular(p)
  <2>1. j = [i EXCEPT !.view = say("circular")]
    BY <1>2 DEF Render
  <2> HIDE DEF j
  <2>2. Shown(j, i, say("circular"), i.err)
    BY <2>1 DEF Whole, Fields, Shown
  <2>3. Current(p, j, r)
    BY <1>2, <2>2 DEF Current, Shown
  <2>4. /\ j.view.is # "tpl" /\ Whole(j) /\ j.state = i.state /\ j.past = i.past
        /\ j.hook = i.hook /\ j.needs = i.needs
    BY <2>2 DEF Shown
  <2>5. (Paired(i) => Paired(j)) /\ (TriedOnce(i, r.Logic) => TriedOnce(j, r.Logic))
    BY <2>2, ShownCarries
  <2>6. Follows(p, j, i, r)
    BY <2>3, <2>4, <2>5 DEF Follows
  <2> QED BY <2>6 DEF j, r
<1>3. CASE ~Circular(p) /\ i.err
  <2>1. j = [i EXCEPT !.view = say("error")]
    BY <1>3 DEF Render
  <2> HIDE DEF j
  <2>2. Shown(j, i, say("error"), i.err)
    BY <2>1 DEF Whole, Fields, Shown
  <2>3. Current(p, j, r)
    BY <1>3, <2>2 DEF Current, Shown
  <2>4. /\ Whole(j) /\ j.state = i.state /\ j.past = i.past
        /\ j.hook = i.hook /\ j.needs = i.needs
    BY <2>2 DEF Shown
  <2>5. (Paired(i) => Paired(j)) /\ (TriedOnce(i, r.Logic) => TriedOnce(j, r.Logic))
    BY <2>2, ShownCarries
  <2>6. Follows(p, j, i, r)
    BY <1>3, <2>3, <2>4, <2>5 DEF Follows
  <2> QED BY <2>6 DEF j, r
<1>4. CASE ~Circular(p) /\ ~i.err
  <2>1. \/ r.tpl = NoTpl /\ j = [k EXCEPT !.view = say("placeholder")]
        \/ r.tpl # NoTpl /\ r.tpl.fault = "render" /\ j = [k EXCEPT !.view = say("threw")]
        \/ /\ r.tpl # NoTpl /\ r.tpl.fault = "child"
           /\ j = [k EXCEPT !.view = say("error"), !.err = TRUE]
        \/ /\ r.tpl # NoTpl /\ r.tpl.fault \notin {"render", "child"}
           /\ j = [k EXCEPT !.view = TplView(r, k)]
    BY <1>4 DEF Render, r, k
  <2> HIDE DEF j
  <2>2. \E v, e : Shown(j, k, v, e) /\ Current(p, j, r)
    <3>1. CASE r.tpl = NoTpl /\ j = [k EXCEPT !.view = say("placeholder")]
      <4>1. Shown(j, k, say("placeholder"), k.err)
        BY <1>1, <3>1 DEF Whole, Fields, Shown
      <4>2. Settled(j, r.Logic) /\ j.view = say("placeholder") /\ ~j.err
        <5>1. Settled(j, r.Logic)
          BY <1>1, <4>1, ShownCarries
        <5> QED BY <1>1, <1>4, <4>1, <5>1 DEF Shown
      <4>3. Current(p, j, r)
        BY <1>4, <3>1, <4>2 DEF Current
      <4> QED BY <4>1, <4>3
    <3>2. CASE r.tpl # NoTpl /\ r.tpl.fault = "render" /\ j = [k EXCEPT !.view = say("threw")]
      <4>1. Shown(j, k, say("threw"), k.err)
        BY <1>1, <3>2 DEF Whole, Fields, Shown
      <4>2. Settled(j, r.Logic) /\ j.view = say("threw") /\ ~j.err
        <5>1. Settled(j, r.Logic)
          BY <1>1, <4>1, ShownCarries
        <5> QED BY <1>1, <1>4, <4>1, <5>1 DEF Shown
      <4>3. Current(p, j, r)
        BY <1>4, <3>2, <4>2 DEF Current
      <4> QED BY <4>1, <4>3
    <3>3. CASE r.tpl # NoTpl /\ r.tpl.fault = "child"
               /\ j = [k EXCEPT !.view = say("error"), !.err = TRUE]
      <4>1. Shown(j, k, say("error"), TRUE)
        BY <1>1, <3>3 DEF Whole, Fields, Shown
      <4>2. Current(p, j, r)
        BY <1>4, <4>1 DEF Current, Shown
      <4> QED BY <4>1, <4>2
    <3>4. CASE r.tpl # NoTpl /\ r.tpl.fault \notin {"render", "child"}
               /\ j = [k EXCEPT !.view = TplView(r, k)]
      <4> DEFINE v == TplView(r, k)
      <4> HIDE DEF v
      <4>1. Shown(j, k, v, k.err)
        BY <1>1, <3>4 DEF Whole, Fields, Shown, v
      <4>2. Settled(j, r.Logic) /\ j.view = v /\ ~j.err
        <5>1. Settled(j, r.Logic)
          BY <1>1, <4>1, ShownCarries
        <5> QED BY <1>1, <1>4, <4>1, <5>1 DEF Shown
      <4>3. TplView(r, j) = v
        BY <4>1 DEF TplView, Shown, v
      <4>4. Current(p, j, r)
        BY <1>4, <3>4, <4>2, <4>3 DEF Current
      <4> QED BY <4>1, <4>4
    <3> QED BY <2>1, <3>1, <3>2, <3>3, <3>4
  <2>3. PICK v, e : Shown(j, k, v, e) /\ Current(p, j, r)
    BY <2>2
  <2>4. /\ Whole(j) /\ j.state = i.state /\ j.past = k.past
        /\ j.hook = k.hook /\ j.needs = k.needs
    BY <1>1, <2>3 DEF Shown
  <2>5. (Paired(k) => Paired(j)) /\ (TriedOnce(k, r.Logic) => TriedOnce(j, r.Logic))
    BY <2>3, ShownCarries
  <2>6. Follows(p, j, i, r)
    BY <1>1, <1>4, <2>3, <2>4, <2>5 DEF Follows
  <2> QED BY <2>6 DEF j, r
<1> QED BY <1>2, <1>3, <1>4

(* What React keeps of the mounted instances, with what it may change.      *)
Handed(was) ==
  /\ DOMAIN was \subseteq DOMAIN inst
  /\ \A p \in DOMAIN was : was[p] = inst[p] \/ (Due(p) /\ was[p] = Retried(inst[p]))
  /\ \A p \in DOMAIN inst \ DOMAIN was : \E m \in Movable : m = p \/ m \in Above(p)

LEMMA WasIsHanded ==
  ASSUME NEW moved \in SUBSET Movable, NEW fresh \in SUBSET Failing
  PROVE  Handed(Was(moved, fresh))
<1> DEFINE was == Was(moved, fresh)
           D == {q \in DOMAIN inst : q \notin moved /\ Above(q) \cap moved = {}}
<1>1. was = [p \in D |-> IF p \in fresh \/ RootProps(p) THEN Retried(inst[p]) ELSE inst[p]]
  BY DEF Was
<1> HIDE DEF was
<1>2. \A p \in fresh : Due(p)
  BY DEF Failing, Due
<1>3. \A p : RootProps(p) => Due(p)
  BY DEF RootProps, Due
<1>4. DOMAIN was = D /\ \A p \in D : was[p] = IF p \in fresh \/ RootProps(p)
                                              THEN Retried(inst[p]) ELSE inst[p]
  BY <1>1
<1>5. \A p \in DOMAIN inst \ D : \E m \in Movable : m = p \/ m \in Above(p)
  OBVIOUS
<1> HIDE DEF D
<1>6. D \subseteq DOMAIN inst
  BY DEF D
<1>7. Handed(was)
  BY <1>2, <1>3, <1>4, <1>5, <1>6 DEF Handed
<1> QED BY <1>7 DEF was

(* New props: the failed constructor is forgotten.                          *)
LEMMA HandedFields ==
  ASSUME NEW was, Handed(was), NEW p \in DOMAIN was, Whole(inst[p])
  PROVE  LET j == was[p]
             i == inst[p]
         IN  /\ Whole(j) /\ j.state = i.state /\ j.past = i.past /\ j.view = i.view
             /\ Paired(i) => Paired(j)
             /\ \A c : TriedOnce(i, c) => TriedOnce(j, c)
<1> DEFINE i == inst[p]
           j == Retried(i)
<1>1. /\ Whole(j) /\ j.state = i.state /\ j.past = i.past /\ j.view = i.view
      /\ j.hook = i.hook /\ j.needs = i.needs /\ j.tries = 0
  <2> HIDE DEF i
  <2> QED BY DEF Whole, Fields, Retried, i
<1>2. was[p] = i \/ was[p] = j
  BY DEF Handed
<1> HIDE DEF j
<1> QED BY <1>1, <1>2 DEF Paired, TriedOnce

LEMMA NewInstanceFields ==
  Whole(NewInstance) /\ NewInstance.tries = 0 /\ NewInstance.past = {}
    /\ NewInstance.needs = FALSE
BY DEF NewInstance, Whole, Fields

(* The instance at p after its own render.                                  *)
LEMMA AfterRenderEffect ==
  ASSUME InstInv, NEW was, Handed(was), NEW p
  PROVE  LET t == AfterRender(was, p)
             r == reg[Last(p)]
         IN  /\ Whole(t) /\ TriedOnce(t, r.Logic) /\ t.past \subseteq Histories
             /\ t.view.is = "tpl" => ~Circular(p)
             /\ p \in DOMAIN was => Paired(t) /\ t.state = inst[p].state
             /\ p \notin DOMAIN was => t.hook = << >> /\ t.needs = FALSE
             /\ Rendered(was, p) => Current(p, t, r)
             /\ ~Rendered(was, p) => t = inst[p]
<1> DEFINE t == AfterRender(was, p)
           r == reg[Last(p)]
<1>1. CASE p \notin DOMAIN was
  <2> DEFINE m == MakeLogic(NewInstance, r.Logic)
  <2>1. /\ Whole(m) /\ m.hook = << >> /\ m.tries = 1 /\ Settled(m, r.Logic)
        /\ m.needs = FALSE /\ m.past = {}
    BY MakeLogicFields, NewInstanceFields
  <2>2. t = Render(p, m)
    BY <1>1 DEF AfterRender
  <2> HIDE DEF m
  <2>3. Follows(p, t, m, r)
    BY <2>1, <2>2, RenderEffect
  <2> HIDE DEF t, r
  <2>4. /\ Whole(t) /\ TriedOnce(t, r.Logic) /\ t.past = {} /\ t.hook = << >>
        /\ t.needs = FALSE /\ Current(p, t, r) /\ (t.view.is = "tpl" => ~Circular(p))
    BY <2>1, <2>3 DEF Follows, TriedOnce
  <2>5. Rendered(was, p)
    BY <1>1 DEF Rendered
  <2> QED BY <1>1, <2>4, <2>5 DEF t, r
<1>2. CASE p \in DOMAIN was
  <2>1. p \in DOMAIN inst /\ Healthy(p, inst[p], r)
    BY <1>2 DEF Handed, InstInv
  <2> HIDE DEF r
  <2>2. /\ Whole(inst[p]) /\ TriedOnce(inst[p], r.Logic) /\ Paired(inst[p])
        /\ inst[p].past \subseteq Histories
        /\ inst[p].view.is = "tpl" => ~Circular(p)
    BY <2>1 DEF Healthy, TriedOnce
  <2>3. CASE Rendered(was, p)
    <3> DEFINE m == was[p]
    <3>1. /\ Whole(m) /\ m.state = inst[p].state /\ m.past = inst[p].past
          /\ Paired(m) /\ TriedOnce(m, r.Logic)
      BY <1>2, <2>2, HandedFields
    <3>2. t = Render(p, m)
      BY <1>2, <2>3 DEF AfterRender
    <3> HIDE DEF m, t
    <3>3. Follows(p, t, m, r)
      BY <3>1, <3>2, RenderEffect DEF r
    <3>4. /\ Whole(t) /\ TriedOnce(t, r.Logic) /\ t.past \subseteq Histories
          /\ Current(p, t, r) /\ (t.view.is = "tpl" => ~Circular(p))
          /\ Paired(t) /\ t.state = inst[p].state
      BY <2>2, <3>1, <3>3 DEF Follows
    <3> QED BY <1>2, <2>3, <3>4 DEF t, r
  <2>4. CASE ~Rendered(was, p)
    <3>1. t = inst[p]
      <4>1. t = was[p] /\ ~Due(p)
        BY <1>2, <2>4 DEF AfterRender, Rendered
      <4> QED BY <1>2, <4>1 DEF Handed
    <3> QED BY <1>2, <2>2, <2>4, <3>1 DEF r
  <2> QED BY <2>3, <2>4
<1> QED BY <1>1, <1>2

(* What lifecycle methods change: what is not mounted yet may be.           *)
LEMMA LifecycleEffect ==
  ASSUME NEW was, NEW p, NEW i, Whole(i),
         p \in DOMAIN was => Paired(i),
         p \notin DOMAIN was => i.hook = << >> /\ i.needs = FALSE
  PROVE  LET j == Lifecycle(was, p, i)
         IN  /\ Whole(j) /\ Paired(j) /\ j.past = i.past /\ j.state = i.state
             /\ j.view = i.view /\ j.err = i.err /\ j.cls = i.cls /\ j.failed = i.failed
             /\ j.memo = i.memo /\ j.tries = i.tries
             /\ j.needs => i.needs
             /\ Rendered(was, p) => (j.needs => j.err \/ reg[Last(p)].tpl = NoTpl)
<1> DEFINE j == Lifecycle(was, p, i)
           a == [i EXCEPT !.hook = Append(@, "mount")]
           b == [i EXCEPT !.hook = Append(@, "mount"), !.needs = FALSE]
<1>1. /\ Whole(a) /\ a.past = i.past /\ a.state = i.state /\ a.needs = i.needs
      /\ a.view = i.view /\ a.err = i.err /\ a.cls = i.cls /\ a.failed = i.failed
      /\ a.memo = i.memo /\ a.tries = i.tries /\ a.hook = Append(i.hook, "mount")
  BY DEF Whole, Fields
<1>2. /\ Whole(b) /\ b.past = i.past /\ b.state = i.state /\ b.needs = FALSE
      /\ b.view = i.view /\ b.err = i.err /\ b.cls = i.cls /\ b.failed = i.failed
      /\ b.memo = i.memo /\ b.tries = i.tries /\ b.hook = Append(i.hook, "mount")
  BY DEF Whole, Fields
<1>3. Append(<< >>, "mount") = <<"mount">>
  OBVIOUS
<1>4. CASE p \notin DOMAIN was
  <2>1. j = a
    BY <1>4 DEF Lifecycle
  <2> HIDE DEF j, a, b
  <2> QED BY <1>1, <1>3, <1>4, <2>1 DEF Paired, j
<1>5. CASE p \in DOMAIN was /\ Rendered(was, p) /\ i.needs /\ ~i.err /\ reg[Last(p)].tpl # NoTpl
  <2>1. j = b
    BY <1>5 DEF Lifecycle
  <2> HIDE DEF j, a, b
  <2> QED BY <1>2, <1>3, <1>5, <2>1 DEF Paired, j
<1>6. CASE p \in DOMAIN was
           /\ ~(Rendered(was, p) /\ i.needs /\ ~i.err /\ reg[Last(p)].tpl # NoTpl)
  <2>1. j = i
    BY <1>6 DEF Lifecycle
  <2> HIDE DEF j, a, b
  <2> QED BY <1>6, <2>1 DEF j
<1> QED BY <1>4, <1>5, <1>6

-----------------------------------------------------------------------------
(* The rendered tree.                                                       *)

LEMMA PathFacts ==
  ASSUME NEW was, NEW p \in Paths(was)
  PROVE  /\ p \in Seq(Names) /\ Len(p) \in Nat \ {0} /\ p[1] = Root
         /\ Last(p) \in Names
         /\ \A k \in 1..Len(p) - 1 : AfterRender(was, SubSeq(p, 1, k)).view.is = "tpl"
<1>1. PICK d \in 1..MaxDepth : p \in [1..d -> Names]
  BY DEF Paths
<1>2. d \in Nat \ {0}
  BY <1>1, RuntimeAssumption
<1>3. p \in Seq(Names) /\ Len(p) = d
  BY <1>1, <1>2
<1>4. Last(p) \in Names
  BY <1>1, <1>2, <1>3 DEF Last
<1>5. ASSUME NEW k \in 1..Len(p) - 1
      PROVE  AfterRender(was, SubSeq(p, 1, k)).view.is = "tpl"
  <2> DEFINE q == SubSeq(p, 1, k)
  <2>1. SubSeq(p, 1, k + 1) \in Imports(q, AfterRender(was, q))
    BY <1>5 DEF Paths
  <2> HIDE DEF q
  <2>2. AfterRender(was, q).view.is = "tpl"
    BY <2>1 DEF Imports
  <2> QED BY <2>2 DEF q
<1>6. p[1] = Root
  BY DEF Paths
<1> QED BY <1>2, <1>3, <1>4, <1>5, <1>6

LEMMA Prefix ==
  ASSUME NEW S, NEW p \in Seq(S), NEW k \in 1..Len(p)
  PROVE  /\ SubSeq(p, 1, k) \in Seq(S) /\ Len(SubSeq(p, 1, k)) = k
         /\ \A j \in 1..k : SubSeq(p, 1, k)[j] = p[j]
<1>1. Len(p) \in Nat
  BY LenProperties
<1> QED BY <1>1, SubSeqProperties

(* A path goes on below an instance that shows a template, so below none    *)
(* that is circular.                                                        *)
LEMMA PathsArePaths ==
  ASSUME InstInv, NEW was, Handed(was), NEW p \in Paths(was)
  PROVE  IsPath(p)
<1>1. /\ p \in Seq(Names) /\ Len(p) \in Nat \ {0}
      /\ \A k \in 1..Len(p) - 1 : AfterRender(was, SubSeq(p, 1, k)).view.is = "tpl"
  BY PathFacts
<1>2. ASSUME NEW k \in 1..Len(p) - 1, NEW j \in 1..k - 1
      PROVE  p[j] # p[k]
  <2> DEFINE q == SubSeq(p, 1, k)
  <2>1. k \in 1..Len(p) /\ j \in 1..k /\ k \in 1..k
    BY <1>1
  <2>2. Len(q) = k /\ q[j] = p[j] /\ q[k] = p[k]
    BY <1>1, <2>1, Prefix
  <2>3. ~Circular(q)
    BY <1>1, AfterRenderEffect
  <2> HIDE DEF q
  <2>4. Last(q) # q[j]
    BY <2>2, <2>3 DEF Circular
  <2> QED BY <2>2, <2>4 DEF Last
<1>3. ASSUME NEW j \in 1..Len(p) - 1, NEW k \in 1..Len(p) - 1, p[j] = p[k]
      PROVE  j = k
  <2>1. j \in Nat /\ k \in Nat /\ 1 <= j /\ 1 <= k
    BY <1>1
  <2>2. CASE j < k
    <3>1. j \in 1..k - 1
      BY <2>1, <2>2
    <3> QED BY <1>2, <1>3, <3>1
  <2>3. CASE k < j
    <3>1. k \in 1..j - 1
      BY <2>1, <2>3
    <3> QED BY <1>2, <1>3, <3>1
  <2> QED BY <2>1, <2>2, <2>3
<1>4. p # << >>
  BY <1>1
<1> QED BY <1>1, <1>3, <1>4 DEF IsPath

LEMMA Below ==
  ASSUME NEW n \in Nat \ {0}, n # 1
  PROVE  n - 1 \in 1..n - 1
OBVIOUS

(* An instance above another one is not circular.                           *)
LEMMA AboveNotCircular ==
  ASSUME InstInv, NEW was, Handed(was), NEW p \in Paths(was), p # <<Root>>
  PROVE  ~Circular(Front(p))
<1>1. /\ p \in Seq(Names) /\ Len(p) \in Nat \ {0} /\ p[1] = Root
      /\ \A k \in 1..Len(p) - 1 : AfterRender(was, SubSeq(p, 1, k)).view.is = "tpl"
  BY PathFacts
<1>2. Len(p) # 1
  <2> SUFFICES ASSUME Len(p) = 1 PROVE FALSE
    OBVIOUS
  <2>1. <<Root>> \in Seq(Names) /\ Len(<<Root>>) = 1 /\ <<Root>>[1] = Root
    BY RuntimeAssumption
  <2>2. p = <<Root>>
    BY <1>1, <2>1, SeqEqual
  <2> QED BY <2>2
<1>3. Len(p) - 1 \in 1..Len(p) - 1
  BY <1>1, <1>2, Below
<1>4. AfterRender(was, Front(p)).view.is = "tpl"
  BY <1>1, <1>3 DEF Front
<1> QED BY <1>4, AfterRenderEffect

-----------------------------------------------------------------------------
(* A commit.                                                                *)

(* The entries r and s ask for the same of an instance.                     *)
SameEntry(r, s) ==
  /\ r.Logic = s.Logic /\ r.tpl = s.tpl /\ r.logicError = s.logicError
  /\ r.htmlStreaming = s.htmlStreaming /\ r.jsStreaming = s.jsStreaming

(* The instances j and i show the same, with the same logic.                *)
Alike(j, i) ==
  /\ j.view = i.view /\ j.err = i.err /\ j.cls = i.cls /\ j.failed = i.failed
  /\ j.memo = i.memo /\ j.tries = i.tries

LEMMA SameEntryCarries ==
  ASSUME NEW p, NEW i, NEW r, NEW s, SameEntry(r, s)
  PROVE  /\ Healthy(p, i, r) => Healthy(p, i, s)
         /\ Current(p, i, r) => Current(p, i, s)
         /\ Calm(p, i, r) => Calm(p, i, s)
<1>1. TplView(r, i) = TplView(s, i)
  BY DEF TplView, SameEntry
<1>2. Current(p, i, r) => Current(p, i, s)
  BY <1>1 DEF Current, SameEntry
<1> QED BY <1>2 DEF Healthy, Calm, SameEntry

LEMMA AlikeCarries ==
  ASSUME NEW p, NEW j, NEW i, NEW r, Alike(j, i)
  PROVE  /\ Current(p, i, r) => Current(p, j, r)
         /\ TriedOnce(i, r.Logic) => TriedOnce(j, r.Logic)
<1>1. TplView(r, i) = TplView(r, j)
  BY DEF TplView, Alike
<1>2. Settled(i, r.Logic) => Settled(j, r.Logic)
  BY DEF Settled, Alike
<1> QED BY <1>1, <1>2 DEF Current, TriedOnce, Alike

(* The parts of a commit, by name.                                          *)
Threw(was) == {p \in Paths(was) : AfterRender(was, p).view.is = "threw"}

Crashed(was) == {Front(p) : p \in Threw(was) \ {<<Root>>}}

Staying(was) == IF <<Root>> \in Threw(was) THEN {} ELSE {p \in Paths(was) : Above(p) \cap Crashed(was) = {}}

AfterCrash(was, p) ==
  IF p \in Crashed(was) THEN [AfterRender(was, p) EXCEPT !.err = TRUE, !.view = [is |-> "error"]]
  ELSE AfterRender(was, p)

Left(was, p) == IF p \in Paths(was) \cap DOMAIN was THEN AfterRender(was, p) ELSE inst[p]

(* React chooses what it keeps.                                             *)
LEMMA CommitHands ==
  ASSUME Commit
  PROVE  due' = {} /\ pushed' = pushed /\ \E was : Handed(was) /\ CommitOf(was)
<1>1. PICK moved \in SUBSET Movable, fresh \in SUBSET Failing : CommitOf(Was(moved, fresh))
  BY DEF Commit
<1>2. Handed(Was(moved, fresh))
  BY WasIsHanded
<1> QED BY <1>1, <1>2 DEF Commit

LEMMA CommitParts ==
  ASSUME NEW was, CommitOf(was)
  PROVE  /\ inst' = [p \in Staying(was) |-> Lifecycle(was, p, AfterCrash(was, p))]
         /\ gone' = gone \cup UNION {Left(was, p).past \cup {Ended(Left(was, p))} :
                                       p \in DOMAIN inst \ (Staying(was) \cap DOMAIN was)}
         /\ \E new : reg' = [n \in Names |-> [reg[n] EXCEPT !.fetched = @ \/ n \in new]]
         /\ \E st \in {"blank", page.state} :
              page' = [page EXCEPT !.due = FALSE, !.state = st,
                         !.props = IF ~Mounted \/ page.due THEN reg[Root].props ELSE @,
                         !.missed = @ /\ ~page.due]
<1> DEFINE lost == [p \in DOMAIN inst \ (Staying(was) \cap DOMAIN was) |-> Left(was, p)]
<1>1. Tree(was) = [p \in Paths(was) |-> AfterRender(was, p)]
  BY DEF Tree
<1>2. DOMAIN Tree(was) = Paths(was) /\ \A p \in Paths(was) : Tree(was)[p] = AfterRender(was, p)
  BY <1>1
<1>3. {p \in DOMAIN Tree(was) : Tree(was)[p].view.is = "threw"} = Threw(was)
  BY <1>2 DEF Threw
<1>4. {p \in DOMAIN Tree(was) : Above(p) \cap Crashed(was) = {}} =
      {p \in Paths(was) : Above(p) \cap Crashed(was) = {}}
  BY <1>2
<1>5. [p \in DOMAIN inst \ (Staying(was) \cap DOMAIN was) |->
         IF p \in DOMAIN Tree(was) \cap DOMAIN was THEN Tree(was)[p] ELSE inst[p]] = lost
  BY <1>2 DEF Left
<1> DEFINE kept == IF <<Root>> \in {p \in DOMAIN Tree(was) : Tree(was)[p].view.is = "threw"} THEN {}
                   ELSE {p \in DOMAIN Tree(was) :
                           Above(p) \cap {Front(q) : q \in {p2 \in DOMAIN Tree(was) :
                                            Tree(was)[p2].view.is = "threw"} \ {<<Root>>}} = {}}
           left == [p \in DOMAIN inst \ (kept \cap DOMAIN was) |->
                     IF p \in DOMAIN Tree(was) \cap DOMAIN was THEN Tree(was)[p] ELSE inst[p]]
<1>6. inst' = [p \in Staying(was) |->
                 Lifecycle(was, p,
                           IF p \in Crashed(was)
                           THEN [Tree(was)[p] EXCEPT !.err = TRUE, !.view = [is |-> "error"]]
                           ELSE Tree(was)[p])]
  BY <1>3, <1>4 DEF CommitOf, Staying, Crashed
<1>7. inst' = [p \in Staying(was) |-> Lifecycle(was, p, AfterCrash(was, p))]
  <2>1. Staying(was) \subseteq Paths(was)
    BY DEF Staying
  <2> QED BY <1>2, <1>6, <2>1 DEF AfterCrash
<1>8. gone' = gone \cup UNION {lost[p].past \cup {Ended(lost[p])} : p \in DOMAIN lost}
  <2>1. gone' = gone \cup UNION {left[p].past \cup {Ended(left[p])} : p \in DOMAIN left}
    BY DEF CommitOf
  <2>2. kept = Staying(was)
    BY <1>3, <1>4 DEF Staying, Crashed
  <2> HIDE DEF kept
  <2>3. left = lost
    BY <1>5, <2>2
  <2> HIDE DEF left, lost
  <2> QED BY <2>1, <2>3
<1>9. gone' = gone \cup UNION {Left(was, p).past \cup {Ended(Left(was, p))} :
                                p \in DOMAIN inst \ (Staying(was) \cap DOMAIN was)}
  BY <1>8
<1>10. \E new : reg' = [n \in Names |-> [reg[n] EXCEPT !.fetched = @ \/ n \in new]]
  BY DEF CommitOf, Fetch
<1>11. \E st \in {"blank", page.state} :
              page' = [page EXCEPT !.due = FALSE, !.state = st,
                         !.props = IF ~Mounted \/ page.due THEN reg[Root].props ELSE @,
                         !.missed = @ /\ ~page.due]
  <2> DEFINE st == IF <<Root>> \in Threw(was) THEN "blank" ELSE page.state
  <2>1. page' = [page EXCEPT !.due = FALSE, !.state = st,
                         !.props = IF ~Mounted \/ page.due THEN reg[Root].props ELSE @,
                         !.missed = @ /\ ~page.due]
    BY <1>3 DEF CommitOf
  <2> HIDE DEF st
  <2>2. st \in {"blank", page.state}
    BY DEF st
  <2> QED BY <2>1, <2>2
<1> QED BY <1>7, <1>9, <1>10, <1>11

LEMMA AfterCrashEffect ==
  ASSUME InstInv, NEW was, Handed(was), NEW p \in Paths(was)
  PROVE  LET x == AfterCrash(was, p)
             t == AfterRender(was, p)
         IN  /\ Whole(x) /\ x.hook = t.hook /\ x.needs = t.needs /\ x.past = t.past
             /\ x.state = t.state /\ x.cls = t.cls /\ x.failed = t.failed
             /\ x.memo = t.memo /\ x.tries = t.tries
             /\ p \notin Crashed(was) => x = t
             /\ p \in Crashed(was) => x.err = TRUE /\ x.view = [is |-> "error"] /\ ~Circular(p)
<1> DEFINE t == AfterRender(was, p)
           x == AfterCrash(was, p)
           e == [t EXCEPT !.err = TRUE, !.view = [is |-> "error"]]
<1>1. Whole(t)
  BY AfterRenderEffect
<1>2. x = IF p \in Crashed(was) THEN e ELSE t
  BY DEF AfterCrash
<1>3. p \in Crashed(was) => ~Circular(p)
  <2> SUFFICES ASSUME p \in Crashed(was) PROVE ~Circular(p)
    OBVIOUS
  <2>1. PICK q \in Paths(was) : q # <<Root>> /\ p = Front(q)
    BY DEF Crashed, Threw
  <2> QED BY <2>1, AboveNotCircular
<1> HIDE DEF t
<1>4. /\ Whole(e) /\ e.hook = t.hook /\ e.needs = t.needs /\ e.past = t.past
      /\ e.state = t.state /\ e.cls = t.cls /\ e.failed = t.failed
      /\ e.memo = t.memo /\ e.tries = t.tries
      /\ e.err = TRUE /\ e.view = [is |-> "error"]
  BY <1>1 DEF Whole, Fields
<1> HIDE DEF x, e
<1>5. /\ Whole(x) /\ x.hook = t.hook /\ x.needs = t.needs /\ x.past = t.past
      /\ x.state = t.state /\ x.cls = t.cls /\ x.failed = t.failed
      /\ x.memo = t.memo /\ x.tries = t.tries
      /\ p \notin Crashed(was) => x = t
      /\ p \in Crashed(was) => x.err = TRUE /\ x.view = [is |-> "error"] /\ ~Circular(p)
  BY <1>1, <1>2, <1>3, <1>4
<1> QED BY <1>5 DEF t, x

(* What a commit leaves mounted is as a render would have it.               *)
LEMMA StayingIsCalm ==
  ASSUME InstInv, NEW was, Handed(was), NEW p \in Staying(was)
  PROVE  LET j == Lifecycle(was, p, AfterCrash(was, p))
             r == reg[Last(p)]
         IN  /\ IsPath(p) /\ Healthy(p, j, r) /\ Calm(p, j, r)
             /\ p \in DOMAIN was => j.state = inst[p].state
<1> DEFINE t == AfterRender(was, p)
           x == AfterCrash(was, p)
           j == Lifecycle(was, p, x)
           r == reg[Last(p)]
<1>1. p \in Paths(was)
  BY DEF Staying
<1>2. /\ Whole(t) /\ TriedOnce(t, r.Logic) /\ t.past \subseteq Histories
      /\ t.view.is = "tpl" => ~Circular(p)
      /\ p \in DOMAIN was => Paired(t) /\ t.state = inst[p].state
      /\ p \notin DOMAIN was => t.hook = << >> /\ t.needs = FALSE
      /\ Rendered(was, p) => Current(p, t, r)
      /\ ~Rendered(was, p) => t = inst[p]
  BY AfterRenderEffect
<1>3. /\ Whole(x) /\ x.hook = t.hook /\ x.needs = t.needs /\ x.past = t.past
      /\ x.state = t.state /\ x.cls = t.cls /\ x.failed = t.failed
      /\ x.memo = t.memo /\ x.tries = t.tries
      /\ p \notin Crashed(was) => x = t
      /\ p \in Crashed(was) => x.err = TRUE /\ x.view = [is |-> "error"] /\ ~Circular(p)
  BY <1>1, AfterCrashEffect
<1> HIDE DEF x, t
<1>4. p \in DOMAIN was => Paired(x)
  BY <1>2, <1>3 DEF Paired
<1>5. p \notin DOMAIN was => x.hook = << >> /\ x.needs = FALSE
  BY <1>2, <1>3
<1>6. /\ Whole(j) /\ Paired(j) /\ j.past = x.past /\ j.state = x.state
      /\ Alike(j, x) /\ (j.needs => x.needs)
      /\ Rendered(was, p) => (j.needs => j.err \/ r.tpl = NoTpl)
  BY <1>3, <1>4, <1>5, LifecycleEffect DEF Alike
<1> HIDE DEF j
<1>7. TriedOnce(j, r.Logic)
  <2>1. TriedOnce(x, r.Logic)
    BY <1>2, <1>3 DEF TriedOnce, Settled
  <2> QED BY <1>6, <2>1, AlikeCarries
<1>8. ~Rendered(was, p) => Calm(p, t, r)
  BY <1>2 DEF InstInv, Rendered, Due, Handed
<1>9. Current(p, t, r)
  BY <1>2, <1>8 DEF Calm
<1>10. Current(p, x, r)
  <2>1. p \in Crashed(was) => Current(p, x, r)
    BY <1>3 DEF Current
  <2> QED BY <1>3, <1>9, <2>1
<1>11. Current(p, j, r)
  BY <1>6, <1>10, AlikeCarries
<1>12. j.needs => j.err \/ r.tpl = NoTpl
  <2>1. CASE Rendered(was, p)
    BY <1>6, <2>1
  <2>2. CASE ~Rendered(was, p) /\ p \notin Crashed(was)
    BY <1>3, <1>6, <1>8, <2>2 DEF Calm, Alike
  <2>3. CASE p \in Crashed(was)
    BY <1>3, <1>6, <2>3 DEF Alike
  <2> QED BY <2>1, <2>2, <2>3
<1>13. j.view.is = "tpl" => ~Circular(p)
  BY <1>2, <1>3, <1>6 DEF Alike
<1>14. Healthy(p, j, r) /\ Calm(p, j, r)
  BY <1>2, <1>3, <1>6, <1>7, <1>11, <1>12, <1>13 DEF Healthy, Calm, TriedOnce
<1>15. p \in DOMAIN was => j.state = inst[p].state
  BY <1>2, <1>3, <1>6
<1>16. IsPath(p)
  BY <1>1, PathsArePaths
<1> QED BY <1>14, <1>15, <1>16 DEF j, x

(* The page shows its props unless it has missed that they changed.         *)
PageInv ==
  page.subscribed /\ ~page.due => page.props = reg[Root].props \/ page.missed

LEMMA CommitInst ==
  ASSUME StreamInv, InstInv, Commit
  PROVE  InstInv'
<1>0. PICK was : Handed(was) /\ CommitOf(was) /\ due' = {}
  BY CommitHands
<1>1. /\ inst' = [p \in Staying(was) |-> Lifecycle(was, p, AfterCrash(was, p))]
      /\ gone' = gone \cup UNION {Left(was, p).past \cup {Ended(Left(was, p))} :
                                    p \in DOMAIN inst \ (Staying(was) \cap DOMAIN was)}
  BY <1>0, CommitParts
<1>2. PICK new : reg' = [n \in Names |-> [reg[n] EXCEPT !.fetched = @ \/ n \in new]]
  BY <1>0, CommitParts
<1>3. ASSUME NEW n \in Names
      PROVE  SameEntry(reg[n], reg'[n]) /\ reg'[n].props = reg[n].props
  <2>1. reg[n] \in Entries
    BY DEF StreamInv, Registries
  <2>2. reg'[n] = [reg[n] EXCEPT !.fetched = @ \/ n \in new]
    BY <1>2
  <2> QED BY <2>1, <2>2 DEF Entries, SameEntry
<1>4. ASSUME NEW p \in DOMAIN inst'
      PROVE  IsPath(p) /\ Healthy(p, inst'[p], reg'[Last(p)]) /\ Calm(p, inst'[p], reg'[Last(p)])
  <2> DEFINE j == Lifecycle(was, p, AfterCrash(was, p))
  <2>1. p \in Staying(was) /\ inst'[p] = j
    BY <1>1
  <2>2. /\ IsPath(p) /\ Healthy(p, j, reg[Last(p)]) /\ Calm(p, j, reg[Last(p)])
    BY <1>0, <2>1, StayingIsCalm
  <2>3. Last(p) \in Names
    <3>1. p \in Paths(was)
      BY <2>1 DEF Staying
    <3> QED BY <3>1, PathFacts
  <2> HIDE DEF j
  <2> QED BY <1>3, <2>1, <2>2, <2>3, SameEntryCarries
<1>5. gone' \subseteq Histories
  <2>1. ASSUME NEW p \in DOMAIN inst
        PROVE  Left(was, p).past \subseteq Histories /\ Ended(Left(was, p)) \in Histories
    <3>1. Paired(inst[p]) /\ inst[p].past \subseteq Histories
      BY DEF InstInv, Healthy
    <3>2. p \in DOMAIN was => /\ Paired(AfterRender(was, p))
                              /\ AfterRender(was, p).past \subseteq Histories
      BY <1>0, AfterRenderEffect
    <3>3. Paired(Left(was, p)) /\ Left(was, p).past \subseteq Histories
      BY <3>1, <3>2 DEF Left
    <3> QED BY <3>3, EndedIsHistory
  <2>2. gone \subseteq Histories
    BY DEF InstInv
  <2> QED BY <1>1, <2>1, <2>2
<1>6. page' \in Pages /\ (page'.subscribed /\ ~page'.due =>
                            page'.props = reg'[Root].props \/ page'.missed)
  <2>1. PICK st \in {"blank", page.state} :
              page' = [page EXCEPT !.due = FALSE, !.state = st,
                         !.props = IF ~Mounted \/ page.due THEN reg[Root].props ELSE @,
                         !.missed = @ /\ ~page.due]
    BY <1>0, CommitParts
  <2>2. page \in Pages /\ PageInv
    BY DEF InstInv, PageInv
  <2>3. reg[Root].props \in Given /\ reg'[Root].props = reg[Root].props
    BY <1>3, RuntimeAssumption DEF StreamInv, Registries, Entries
  <2>4. page' \in Pages
    BY <2>1, <2>2, <2>3 DEF Pages
  <2>5. /\ page'.props = IF ~Mounted \/ page.due THEN reg[Root].props ELSE page.props
        /\ page'.missed = (page.missed /\ ~page.due) /\ page'.subscribed = page.subscribed
    BY <2>1, <2>2 DEF Pages
  <2> QED BY <2>2, <2>3, <2>4, <2>5 DEF PageInv
<1> QED BY <1>0, <1>4, <1>5, <1>6 DEF InstInv

-----------------------------------------------------------------------------
(* The other steps change no instance, or make it due.                      *)

LEMMA QuietInst ==
  ASSUME InstInv, DOMAIN inst' = DOMAIN inst, due \subseteq due', gone' = gone,
         \A p \in DOMAIN inst :
           \/ inst'[p] = inst[p] /\ SameEntry(reg[Last(p)], reg'[Last(p)])
           \/ p \in due' /\ Healthy(p, inst'[p], reg'[Last(p)]),
         page' \in Pages, PageInv'
  PROVE  InstInv'
<1>1. ASSUME NEW p \in DOMAIN inst
      PROVE  /\ IsPath(p) /\ Healthy(p, inst'[p], reg'[Last(p)])
             /\ p \in due' \/ Above(p) \cap due' # {} \/ Calm(p, inst'[p], reg'[Last(p)])
  <2>1. /\ IsPath(p) /\ Healthy(p, inst[p], reg[Last(p)])
        /\ p \in due \/ Above(p) \cap due # {} \/ Calm(p, inst[p], reg[Last(p)])
    BY DEF InstInv
  <2>2. CASE inst'[p] = inst[p] /\ SameEntry(reg[Last(p)], reg'[Last(p)])
    BY <2>1, <2>2, SameEntryCarries
  <2>3. CASE p \in due' /\ Healthy(p, inst'[p], reg'[Last(p)])
    BY <2>1, <2>3
  <2> QED BY <2>2, <2>3
<1> QED BY <1>1 DEF InstInv, PageInv

(* What a bump leaves of an instance is healthy for any entry.              *)
Cleared(j, i) == j = [i EXCEPT !.err = FALSE, !.memo = FALSE, !.tries = 0]

LEMMA ClearedIsHealthy ==
  ASSUME NEW p, NEW i, NEW r, NEW s, NEW j, Healthy(p, i, r), Cleared(j, i)
  PROVE  Healthy(p, j, s) /\ j.state = i.state
<1>1. /\ Whole(j) /\ j.tries = 0 /\ j.needs = i.needs /\ j.hook = i.hook
      /\ j.past = i.past /\ j.view = i.view /\ j.state = i.state
  BY DEF Cleared, Healthy, Whole, Fields
<1> QED BY <1>1 DEF Healthy, Paired

LEMMA LastIsName ==
  ASSUME NEW p, IsPath(p)
  PROVE  Last(p) \in Names
<1>1. Len(p) \in 1..Len(p)
  BY DEF IsPath
<1> QED BY <1>1 DEF IsPath, Last

LEMMA BumpInst ==
  ASSUME StreamInv, InstInv, NEW ns, Bump(ns), gone' = gone,
         \A m \in Names \ ns : reg'[m] = reg[m]
  PROVE  /\ InstInv' /\ DOMAIN inst' = DOMAIN inst
         /\ \A p \in DOMAIN inst : inst'[p].state = inst[p].state
<1>1. /\ DOMAIN inst' = DOMAIN inst /\ due' = due \cup Subscribers(ns)
      /\ page' = [page EXCEPT !.due = @ \/ (Root \in ns /\ page.subscribed)]
  BY DEF Bump
<1>2. ASSUME NEW p \in DOMAIN inst
      PROVE  /\ inst'[p].state = inst[p].state
             /\ \/ inst'[p] = inst[p] /\ SameEntry(reg[Last(p)], reg'[Last(p)])
                \/ p \in due' /\ Healthy(p, inst'[p], reg'[Last(p)])
  <2>1. IsPath(p) /\ Healthy(p, inst[p], reg[Last(p)])
    BY DEF InstInv
  <2>2. CASE p \in Subscribers(ns)
    <3>1. Cleared(inst'[p], inst[p])
      BY <2>2 DEF Bump, Cleared
    <3>2. Healthy(p, inst'[p], reg'[Last(p)]) /\ inst'[p].state = inst[p].state
      BY <2>1, <3>1, ClearedIsHealthy
    <3> QED BY <1>1, <2>2, <3>2
  <2>3. CASE p \notin Subscribers(ns)
    <3>1. inst'[p] = inst[p]
      BY <2>3 DEF Bump
    <3>2. Last(p) \in Names \ ns
      BY <2>1, <2>3, LastIsName DEF Subscribers
    <3> QED BY <3>1, <3>2 DEF SameEntry
  <2> QED BY <2>2, <2>3
<1>3. page' \in Pages /\ PageInv'
  <2>1. page \in Pages /\ PageInv
    BY DEF InstInv, PageInv
  <2>2. page' \in Pages
    BY <1>1, <2>1 DEF Pages
  <2>3. /\ page'.due = (page.due \/ (Root \in ns /\ page.subscribed))
        /\ page'.props = page.props /\ page'.missed = page.missed
        /\ page'.subscribed = page.subscribed
    BY <1>1, <2>1 DEF Pages
  <2>4. Root \notin ns => reg'[Root] = reg[Root]
    BY RuntimeAssumption
  <2> QED BY <2>1, <2>2, <2>3, <2>4 DEF PageInv
<1>4. InstInv'
  BY <1>1, <1>2, <1>3, QuietInst
<1> QED BY <1>1, <1>2, <1>4

(* No mounted instance loses its state while the templates above it stay.   *)
TemplatesStay(p) == \A q \in Above(p) : Shows(inst[q]) = Shows(inst'[q])

StatesStay ==
  \A p \in DOMAIN inst \cap DOMAIN inst' :
    TemplatesStay(p) => (inst[p].state => inst'[p].state)

LEMMA PrefixOfPrefix ==
  ASSUME NEW S, NEW p \in Seq(S), NEW l \in 1..Len(p), NEW k \in 1..l
  PROVE  SubSeq(SubSeq(p, 1, l), 1, k) = SubSeq(p, 1, k)
<1> DEFINE q == SubSeq(p, 1, l)
<1>1. k \in 1..Len(p)
  BY LenProperties
<1>2. q \in Seq(S) /\ Len(q) = l /\ \A j \in 1..l : q[j] = p[j]
  BY Prefix
<1> HIDE DEF q
<1>3. /\ SubSeq(q, 1, k) \in Seq(S) /\ Len(SubSeq(q, 1, k)) = k
      /\ \A j \in 1..k : SubSeq(q, 1, k)[j] = q[j]
  BY <1>2, Prefix
<1>4. /\ SubSeq(p, 1, k) \in Seq(S) /\ Len(SubSeq(p, 1, k)) = k
      /\ \A j \in 1..k : SubSeq(p, 1, k)[j] = p[j]
  BY <1>1, Prefix
<1>5. \A j \in 1..k : SubSeq(q, 1, k)[j] = SubSeq(p, 1, k)[j]
  BY <1>2, <1>3, <1>4
<1>6. SubSeq(q, 1, k) = SubSeq(p, 1, k)
  BY <1>3, <1>4, <1>5, SeqEqual
<1> QED BY <1>6 DEF q

(* What is above a rendered path is rendered, and below the same.           *)
LEMMA AboveIsPath ==
  ASSUME NEW was, NEW p \in Paths(was), NEW k \in 1..Len(p) - 1
  PROVE  LET q == SubSeq(p, 1, k)
         IN  q \in Paths(was) /\ q \in Above(p) /\ Above(q) \subseteq Above(p)
<1> DEFINE q == SubSeq(p, 1, k)
<1>1. PICK d \in 1..MaxDepth : p \in [1..d -> Names]
  BY DEF Paths
<1>2. /\ p \in Seq(Names) /\ Len(p) \in Nat \ {0} /\ p[1] = Root
      /\ d \in Nat \ {0} /\ Len(p) = d
  BY <1>1, PathFacts, RuntimeAssumption
<1>3. k \in 1..Len(p) /\ k \in 1..MaxDepth /\ k \in Nat \ {0} /\ 1 \in 1..k
  BY <1>1, <1>2, RuntimeAssumption
<1>4. q \in Seq(Names) /\ Len(q) = k /\ q[1] = Root
  BY <1>2, <1>3, Prefix
<1>5. \A j \in 1..k : SubSeq(q, 1, j) = SubSeq(p, 1, j)
  BY <1>2, <1>3, PrefixOfPrefix
<1> HIDE DEF q
<1>6. ASSUME NEW j \in 1..k - 1
      PROVE  /\ SubSeq(q, 1, j) = SubSeq(p, 1, j) /\ SubSeq(q, 1, j + 1) = SubSeq(p, 1, j + 1)
             /\ j \in 1..Len(p) - 1
  <2>1. j \in 1..k /\ j + 1 \in 1..k /\ j \in 1..Len(p) - 1
    BY <1>2, <1>3
  <2> QED BY <1>5, <2>1
<1>7. q \in [1..k -> Names]
  BY <1>4
<1>8. ASSUME NEW j \in 1..Len(q) - 1
      PROVE  SubSeq(q, 1, j + 1) \in Imports(SubSeq(q, 1, j), AfterRender(was, SubSeq(q, 1, j)))
  <2>1. j \in 1..k - 1
    BY <1>4
  <2>2. SubSeq(p, 1, j + 1) \in Imports(SubSeq(p, 1, j), AfterRender(was, SubSeq(p, 1, j)))
    BY <1>6, <2>1 DEF Paths
  <2> QED BY <1>6, <2>1, <2>2
<1>9. q \in Paths(was)
  BY <1>3, <1>4, <1>7, <1>8 DEF Paths
<1>10. q \in Above(p)
  BY DEF Above, q
<1>11. Above(q) \subseteq Above(p)
  BY <1>4, <1>6 DEF Above
<1> QED BY <1>9, <1>10, <1>11 DEF q

(* What React mounts anew below a rendered path hangs from a template above *)
(* it.                                                                      *)
LEMMA MovedHangs ==
  ASSUME InstInv, NEW was, NEW p \in Paths(was), NEW m \in Movable, m = p \/ m \in Above(p)
  PROVE  \E k \in 1..Len(p) - 1 : Front(m) = SubSeq(p, 1, k)
<1>1. p \in Seq(Names) /\ Len(p) \in Nat \ {0} /\ p[1] = Root
  BY PathFacts
<1>2. PICK l \in 1..Len(p) : m = SubSeq(p, 1, l)
  <2>1. CASE m = p
    <3>1. Len(p) \in 1..Len(p)
      BY <1>1
    <3>2. SubSeq(p, 1, Len(p)) = p
      BY <1>1, <3>1, Prefix, SeqEqual
    <3> QED BY <2>1, <3>1, <3>2
  <2>2. CASE m \in Above(p)
    <3>1. PICK l \in 1..Len(p) - 1 : m = SubSeq(p, 1, l)
      BY <2>2 DEF Above
    <3>2. l \in 1..Len(p)
      BY <1>1
    <3> QED BY <3>1, <3>2
  <2> QED BY <2>1, <2>2
<1>3. m \in Seq(Names) /\ Len(m) = l /\ m[1] = Root
  <2>1. 1 \in 1..l
    BY <1>1
  <2> QED BY <1>1, <1>2, <2>1, Prefix
<1>4. l # 1
  <2> SUFFICES ASSUME l = 1 PROVE FALSE
    OBVIOUS
  <2>1. <<Root>> \in Seq(Names) /\ Len(<<Root>>) = 1 /\ <<Root>>[1] = Root
    BY RuntimeAssumption
  <2>2. m = <<Root>>
    BY <1>3, <2>1, SeqEqual
  <2> QED BY <2>2 DEF Movable
<1>5. l - 1 \in 1..Len(p) - 1 /\ l - 1 \in 1..l
  BY <1>1, <1>4
<1>6. Front(m) = SubSeq(m, 1, l - 1)
  BY <1>3 DEF Front
<1>7. SubSeq(m, 1, l - 1) = SubSeq(p, 1, l - 1)
  BY <1>1, <1>2, <1>5, PrefixOfPrefix
<1> QED BY <1>5, <1>6, <1>7

(* It is mounted anew only below a template that is not shown any more.     *)
LEMMA KeptBelowTemplates ==
  ASSUME InstInv, NEW was, Handed(was), NEW p \in DOMAIN inst, p \in Staying(was),
         inst' = [q \in Staying(was) |-> Lifecycle(was, q, AfterCrash(was, q))],
         TemplatesStay(p)
  PROVE  p \in DOMAIN was
<1> SUFFICES ASSUME p \notin DOMAIN was PROVE FALSE
  OBVIOUS
<1>1. PICK m \in Movable : m = p \/ m \in Above(p)
  BY DEF Handed
<1>2. p \in Paths(was) /\ Above(p) \cap Crashed(was) = {} /\ <<Root>> \notin Threw(was)
  BY DEF Staying
<1>3. PICK k \in 1..Len(p) - 1 : Front(m) = SubSeq(p, 1, k)
  BY <1>1, <1>2, MovedHangs
<1> DEFINE q == Front(m)
           t == AfterRender(was, q)
           r == reg[Last(q)]
<1>4. /\ q \in Paths(was) /\ q \in Above(p) /\ Above(q) \subseteq Above(p)
      /\ t.view.is = "tpl"
  BY <1>2, <1>3, AboveIsPath, PathFacts
<1>5. Due(q) /\ inst[q].view.is = "tpl" /\ inst[q].view.tpl # r.tpl
  BY DEF Movable
<1> HIDE DEF q
<1>6. q \in Staying(was) /\ q \notin Crashed(was)
  BY <1>2, <1>4 DEF Staying
<1>7. AfterCrash(was, q) = t
  BY <1>6 DEF AfterCrash
<1>8. /\ Whole(t) /\ Current(q, t, r)
      /\ q \in DOMAIN was => Paired(t)
      /\ q \notin DOMAIN was => t.hook = << >> /\ t.needs = FALSE
  <2>1. Rendered(was, q)
    BY <1>5 DEF Rendered
  <2> QED BY <2>1, AfterRenderEffect
<1>9. inst'[q] = Lifecycle(was, q, t)
  BY <1>6, <1>7
<1> HIDE DEF t, r
<1>10. inst'[q].view = t.view
  <2>1. Lifecycle(was, q, t).view = t.view
    BY <1>8, LifecycleEffect
  <2> QED BY <1>9, <2>1
<1>11. t.view.tpl = r.tpl
  <2>1. t.view = TplView(r, t)
    BY <1>4, <1>8 DEF Current
  <2> QED BY <2>1 DEF TplView
<1>12. Shows(inst'[q]) = r.tpl /\ Shows(inst[q]) # r.tpl
  BY <1>4, <1>5, <1>10, <1>11 DEF Shows
<1>13. Shows(inst'[q]) = Shows(inst[q])
  BY <1>4 DEF TemplatesStay
<1> QED BY <1>12, <1>13

LEMMA CommitStates ==
  ASSUME InstInv, Commit
  PROVE  StatesStay
<1>1. PICK was : Handed(was) /\ CommitOf(was)
  BY CommitHands
<1>2. inst' = [p \in Staying(was) |-> Lifecycle(was, p, AfterCrash(was, p))]
  BY <1>1, CommitParts
<1>3. ASSUME NEW p \in DOMAIN inst, p \in DOMAIN inst', TemplatesStay(p)
      PROVE  inst'[p].state = inst[p].state
  <2> DEFINE j == Lifecycle(was, p, AfterCrash(was, p))
  <2>1. p \in Staying(was) /\ inst'[p] = j
    BY <1>2, <1>3
  <2>2. p \in DOMAIN was
    BY <1>1, <1>2, <1>3, <2>1, KeptBelowTemplates
  <2>3. j.state = inst[p].state
    BY <1>1, <2>1, <2>2, StayingIsCalm
  <2> QED BY <2>1, <2>3
<1> QED BY <1>3 DEF StatesStay

LEMMA RunEffectsInst ==
  ASSUME InstInv, RunEffects
  PROVE  InstInv' /\ StatesStay
<1>1. /\ UNCHANGED <<reg, inst, due, gone>>
      /\ page' = [page EXCEPT !.subscribed = TRUE, !.missed = page.props # reg[Root].props]
  BY DEF RunEffects
<1>2. page \in Pages /\ PageInv
  BY DEF InstInv, PageInv
<1>3. /\ page' \in Pages /\ page'.props = page.props
      /\ page'.missed = (page.props # reg[Root].props)
  BY <1>1, <1>2 DEF Pages
<1>4. PageInv'
  BY <1>1, <1>3 DEF PageInv
<1>5. InstInv'
  BY <1>1, <1>3, <1>4, QuietInst DEF SameEntry
<1> QED BY <1>1, <1>5 DEF StatesStay

LEMMA SiblingArrivesInst ==
  ASSUME StreamInv, InstInv, NEW n \in Names, SiblingArrives(n)
  PROVE  InstInv' /\ StatesStay
<1>1. reg' = Sibling(reg, n) /\ gone' = gone
  BY DEF SiblingArrives
<1>2. \A m \in Names \ {n} : reg'[m] = reg[m]
  BY <1>1, SiblingEffect DEF StreamInv
<1>3. CASE ~ GivesTpl(reg, n) /\ ~ GivesJs(reg, n)
  <2>1. UNCHANGED <<reg, inst, due, page>>
    BY <1>3 DEF SiblingArrives, Sibling
  <2> QED BY <1>1, <2>1 DEF InstInv, StatesStay
<1>4. CASE GivesTpl(reg, n) \/ GivesJs(reg, n)
  <2>1. Bump({n})
    BY <1>4 DEF SiblingArrives
  <2> QED BY <1>1, <1>2, <2>1, BumpInst DEF StatesStay
<1> QED BY <1>3, <1>4

LEMMA SetStateInst ==
  ASSUME InstInv, NEW p \in DOMAIN inst, SetState(p)
  PROVE  InstInv' /\ StatesStay
<1>1. /\ inst' = [inst EXCEPT ![p].state = TRUE] /\ due' = due \cup {p}
      /\ UNCHANGED <<reg, page, gone>>
  BY DEF SetState
<1> DEFINE j == [inst[p] EXCEPT !.state = TRUE]
<1>2. Healthy(p, inst[p], reg[Last(p)])
  BY DEF InstInv
<1>3. /\ Whole(j) /\ j.tries = inst[p].tries /\ j.needs = inst[p].needs
      /\ j.hook = inst[p].hook /\ j.past = inst[p].past /\ j.view = inst[p].view
      /\ j.cls = inst[p].cls /\ j.failed = inst[p].failed /\ j.memo = inst[p].memo
      /\ j.state = TRUE
  BY <1>2 DEF Healthy, Whole, Fields
<1>4. DOMAIN inst' = DOMAIN inst /\ inst'[p] = j
      /\ \A q \in DOMAIN inst \ {p} : inst'[q] = inst[q]
  <2>1. inst' = [q \in DOMAIN inst |-> IF q = p THEN j ELSE inst[q]]
    BY <1>1
  <2> HIDE DEF j
  <2> QED BY <2>1
<1> HIDE DEF j
<1>5. Healthy(p, j, reg[Last(p)])
  BY <1>2, <1>3 DEF Healthy, Paired, Settled
<1>6. page \in Pages /\ PageInv
  BY DEF InstInv, PageInv
<1>7. page' \in Pages /\ PageInv'
  BY <1>1, <1>6 DEF PageInv
<1>8. ASSUME NEW q \in DOMAIN inst
      PROVE  /\ \/ inst'[q] = inst[q] /\ SameEntry(reg[Last(q)], reg'[Last(q)])
                \/ q \in due' /\ Healthy(q, inst'[q], reg'[Last(q)])
             /\ inst[q].state => inst'[q].state
  BY <1>1, <1>3, <1>4, <1>5 DEF SameEntry
<1>9. InstInv'
  BY <1>1, <1>4, <1>7, <1>8, QuietInst
<1> QED BY <1>8, <1>9 DEF StatesStay

LEMMA StepInst ==
  ASSUME StreamInv, InstInv, Next
  PROVE  InstInv' /\ StatesStay
<1>1. ASSUME UNCHANGED <<reg, inst, due, page, gone>>
      PROVE  InstInv' /\ StatesStay
  BY <1>1 DEF InstInv, StatesStay
<1>2. ASSUME NEW ns, Bump(ns), gone' = gone, \A m \in Names \ ns : reg'[m] = reg[m]
      PROVE  InstInv' /\ StatesStay
  BY <1>2, BumpInst DEF StatesStay
<1>3. CASE Commit
  BY <1>3, CommitInst, CommitStates
<1>4. CASE RunEffects
  BY <1>4, RunEffectsInst
<1>5. CASE RawArrives
  <2>1. Root \in Names /\ Disk[Root].tpl \in Given
    BY RuntimeAssumption DEF Given
  <2>2. reg' = UpdateHtml(reg, Root, Disk[Root].tpl) /\ Bump({Root}) /\ gone' = gone
    BY <1>5 DEF RawArrives
  <2>3. \A m \in Names \ {Root} : reg'[m] = reg[m]
    BY <2>1, <2>2, UpdateHtmlEffect DEF StreamInv
  <2> QED BY <1>2, <2>2, <2>3
<1>6. CASE Resolved
  <2>1. Bump(Names) /\ gone' = gone
    BY <1>6 DEF Resolved
  <2> QED BY <1>2, <2>1
<1>7. CASE \E n \in Names : SiblingArrives(n)
  BY <1>7, SiblingArrivesInst
<1>8. CASE \E n \in Names \cup {"raw"} : FetchFails(n)
  BY <1>1, <1>8 DEF FetchFails
<1>9. CASE \E u \in Pushes : HostPush(u)
  <2>1. PICK u \in Pushes : HostPush(u)
    BY <1>9
  <2>2. /\ u.call \in {"html", "js", "props"} /\ reg' = DcUpdate(reg, u)
        /\ Bump({u.name}) /\ gone' = gone
    BY <2>1 DEF HostPush
  <2>3. \A m \in Names \ {u.name} : reg'[m] = reg[m]
    BY <2>2, DcUpdateEffect DEF StreamInv
  <2> QED BY <1>2, <2>2, <2>3
<1>10. CASE \E u \in Pushes : SetProps(u)
  <2>1. PICK u \in Pushes : SetProps(u)
    BY <1>10
  <2>2. /\ reg' = [reg EXCEPT ![u.name].props = u.content]
        /\ Bump({u.name}) /\ gone' = gone
    BY <2>1 DEF SetProps
  <2>3. \A m \in Names \ {u.name} : reg'[m] = reg[m]
    BY <2>2 DEF StreamInv, Registries
  <2> QED BY <1>2, <2>2, <2>3
<1>11. CASE \E p \in DOMAIN inst : SetState(p)
  BY <1>11, SetStateInst
<1> QED BY <1>3, <1>4, <1>5, <1>6, <1>7, <1>8, <1>9, <1>10, <1>11 DEF Next

LEMMA InitInstInv == Init => InstInv
<1> SUFFICES ASSUME Init PROVE InstInv
  OBVIOUS
<1>1. DOMAIN inst = {} /\ gone = {}
  BY DEF Init
<1>2. page = [state |-> "up", subscribed |-> FALSE, due |-> FALSE, props |-> 0,
              missed |-> FALSE]
  BY DEF Init
<1>3. page \in Pages /\ ~page.subscribed
  BY <1>2 DEF Pages, Given
<1> QED BY <1>1, <1>3 DEF InstInv

(* The registry and the instances keep their invariant together.            *)
THEOREM RuntimeInvariant == Spec => [](StreamInv /\ InstInv)
<1>1. Init => StreamInv /\ InstInv
  BY InitStreamInv, InitInstInv
<1>2. StreamInv /\ InstInv /\ [Next]_vars => StreamInv' /\ InstInv'
  <2>1. CASE Next
    BY <2>1, StepKeeps, StepInst
  <2>2. CASE UNCHANGED vars
    BY <2>2 DEF vars, StreamInv, InstInv
  <2> QED BY <2>1, <2>2
<1> QED BY <1>1, <1>2, PTL DEF Spec

-----------------------------------------------------------------------------
(* What follows.                                                            *)

(* An instance that is calm is what its render gives.                       *)
LEMMA CalmIsRendered ==
  ASSUME NEW p, NEW i, Whole(i), Current(p, i, reg[Last(p)])
  PROVE  Render(p, i) = i
<1> DEFINE r == reg[Last(p)]
           say(w) == [is |-> w]
<1>1. ASSUME NEW v, i.view = v
      PROVE  [i EXCEPT !.view = v] = i
  BY <1>1 DEF Whole, Fields
<1>2. CASE Circular(p)
  <2>1. i.view = say("circular")
    BY <1>2 DEF Current
  <2> QED BY <1>1, <1>2, <2>1 DEF Render
<1>3. CASE ~Circular(p) /\ i.err
  <2>1. i.view = say("error")
    BY <1>3 DEF Current
  <2> QED BY <1>1, <1>3, <2>1 DEF Render
<1>4. CASE ~Circular(p) /\ ~i.err
  <2>1. Reconciled(i, r.Logic) = i
    BY <1>4 DEF Current, Reconciled, Settled
  <2>2. CASE r.tpl = NoTpl
    <3>1. i.view = say("placeholder")
      BY <1>4, <2>2 DEF Current
    <3> QED BY <1>1, <1>4, <2>1, <2>2, <3>1 DEF Render
  <2>3. CASE r.tpl # NoTpl /\ r.tpl.fault = "render"
    <3>1. i.view = say("threw")
      BY <1>4, <2>3 DEF Current
    <3> QED BY <1>1, <1>4, <2>1, <2>3, <3>1 DEF Render
  <2>4. CASE r.tpl # NoTpl /\ r.tpl.fault # "render"
    <3>1. i.view = TplView(r, i) /\ r.tpl.fault # "child"
      BY <1>4, <2>4 DEF Current
    <3> HIDE DEF r
    <3>2. Render(p, i) = [i EXCEPT !.view = TplView(r, i)]
      BY <1>4, <2>1, <2>4, <3>1 DEF Render, r
    <3> QED BY <1>1, <3>1, <3>2
  <2> QED BY <2>2, <2>3, <2>4
<1> QED BY <1>2, <1>3, <1>4

(* No update is lost: in whatever order updates, late files, commits and    *)
(* subscriptions come, an instance that is not due again shows what a       *)
(* render would show, with the logic it would have (StreamableComponent     *)
(* render and __reconcileLogic, DCRegistry bump, StandaloneRoot).           *)
THEOREM ShownIsCurrent == Spec => []ShowsCurrent
<1>1. ASSUME InstInv
      PROVE  ShowsCurrent
  <2>1. ASSUME NEW p \in DOMAIN inst, p \notin due, Above(p) \cap due = {}
        PROVE  Render(p, inst[p]) = inst[p]
    <3>1. Whole(inst[p]) /\ Current(p, inst[p], reg[Last(p)])
      BY <1>1, <2>1 DEF InstInv, Healthy, Calm
    <3> QED BY <3>1, CalmIsRendered
  <2> QED BY <1>1, <2>1 DEF InstInv, ShowsCurrent
<1> QED BY <1>1, RuntimeInvariant, PTL

(* Whatever is swapped, crashes or is unmounted, componentDidMount and      *)
(* componentWillUnmount of every logic come in pairs (__needsDidMount,      *)
(* __reconcileLogic, componentDidUpdate, componentWillUnmount).             *)
THEOREM LifecyclesArePaired == Spec => []LifecyclesPaired
<1>1. InstInv => LifecyclesPaired
  BY DEF InstInv, LifecyclesPaired, Healthy, Calm, Paired, Histories
<1> QED BY <1>1, RuntimeInvariant, PTL

(* A constructor that throws is called once per class, entry and props,     *)
(* however often its parent renders (__failedLogic).                        *)
THEOREM FailuresNotRetried == Spec => []FailedNotRetried
<1>1. InstInv => FailedNotRetried
  BY DEF InstInv, FailedNotRetried, Healthy
<1> QED BY <1>1, RuntimeInvariant, PTL

(* A path has at most one DC more than there are.                           *)
LEMMA PathIsShort ==
  ASSUME NEW p, IsPath(p)
  PROVE  Len(p) <= Cardinality(Names) + 1
<1> DEFINE n == Len(p) - 1
<1>1. Len(p) \in Nat \ {0} /\ p \in Seq(Names)
  BY DEF IsPath
<1>2. n \in Nat /\ IsFiniteSet(Names)
  BY <1>1, RuntimeAssumption
<1> DEFINE f == [k \in 1..n |-> p[k]]
<1>3. f \in Injection(1..n, Names)
  <2>1. \A k \in 1..n : p[k] \in Names
    BY <1>1
  <2>2. \A j, k \in 1..n : p[j] = p[k] => j = k
    BY DEF IsPath
  <2> QED BY <2>1, <2>2 DEF Injection, IsInjective
<1>4. IsFiniteSet(1..n) /\ Cardinality(1..n) = n
  <2> HIDE DEF n
  <2>1. 0 \in Int /\ n \in Int /\ 1 \in Int
    BY <1>2
  <2>2. /\ IsFiniteSet(1..n)
        /\ Cardinality(1..n) = IF 1 > n THEN 0 ELSE n - 1 + 1
    BY <2>1, FS_Interval
  <2> QED BY <1>2, <2>2
<1> HIDE DEF n, f
<1>5. Cardinality(1..n) <= Cardinality(Names)
  BY <1>2, <1>3, <1>4, FS_Injection
<1>6. Cardinality(Names) \in Nat
  BY <1>2, FS_CardinalityType
<1> QED BY <1>1, <1>4, <1>5, <1>6 DEF n

(* However templates change, imports that lead back to a DC end there: no   *)
(* instance is deeper than there are DCs, and one (isCircular).             *)
THEOREM NestingIsBounded == Spec => []NestingEnds
<1>1. InstInv => NestingEnds
  BY PathIsShort DEF InstInv, NestingEnds
<1> QED BY <1>1, RuntimeInvariant, PTL

(* What a logic has stored with setState outlives hot swaps, constructors   *)
(* that fail, errors and new props, for as long as the templates above its  *)
(* instance stay (__makeLogic adopts the state of the one before).          *)
THEOREM StatesAreKept == Spec => StateKept
<1> DEFINE Stays ==
      \A p \in DOMAIN inst \cap DOMAIN inst' :
        (\A q \in Above(p) : Shows(inst[q]) = Shows(inst'[q]))
          => (inst[p].state => inst'[p].state)
<1>1. StreamInv /\ InstInv /\ [Next]_vars => [Stays]_vars
  <2>1. CASE Next
    BY <2>1, StepInst DEF StatesStay, TemplatesStay
  <2>2. CASE UNCHANGED vars
    BY <2>2
  <2> QED BY <2>1, <2>2
<1> QED BY <1>1, RuntimeInvariant, PTL DEF Spec, StateKept
=============================================================================
