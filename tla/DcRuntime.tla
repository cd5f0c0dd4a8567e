------------------------------ MODULE DcRuntime ------------------------------
(***************************************************************************)
(* The component runtime the page runs on (_frontend/support.js): the       *)
(* registry of design components (DCs), the updates that reach it - the     *)
(* page's own template at boot, the files of imported siblings, what a host *)
(* streams in - and the mounted instances that show it.                     *)
(*                                                                          *)
(* An instance is named by its path of DC names from the page's root: a     *)
(* template imports a DC at most once.  React is external and modelled as   *)
(* the runtime relies on it: updates are batched, and one commit renders    *)
(* every instance that is due, with all that is below it, then calls the    *)
(* lifecycle methods.  What its parent's render gives an instance may be    *)
(* new props, and under a new template of its parent it may have another    *)
(* position or key, and is mounted anew.  An error thrown by a render goes  *)
(* to the nearest instance above; without one the page is unmounted.        *)
(*                                                                          *)
(* A template is [id, imports, fault], a logic class [id, fault]; the fault *)
(* says where it goes wrong.  Registry.ver is only ever compared with the   *)
(* ver remembered by a failed constructor: a bump makes the memo void.      *)
(***************************************************************************)
EXTENDS Naturals, Sequences, FiniteSets, SequencesExt, TLC

CONSTANTS
  Names,      \* the DCs
  Root,       \* the one the page is made of
  Inline,     \* [tpl, js] of the page as the browser parsed it
  Disk,       \* Disk[n]: [tpl, js] of the file n.dc.html
  Pushes,     \* what the host may call: [call, name, ...]
  MaxPushes,  \* bound: host calls
  MaxDepth    \* bound: imports inside imports

TplFaults == {"none", "compile", "render", "child"}
JsFaults  == {"none", "eval", "ctor"}

Tpl(id, imports, fault) == [id |-> id, imports |-> imports, fault |-> fault]
Class(id, fault)        == [id |-> id, fault |-> fault]

EmptyTpl == Tpl("", {}, "none")       \* ""
NoTpl    == Tpl("null", {}, "none")   \* not compiled yet
NoClass  == Class("null", "none")     \* no class: StreamableLogic itself

ASSUME RuntimeAssumption ==
  /\ IsFiniteSet(Names) /\ Root \in Names
  /\ MaxPushes \in Nat /\ MaxDepth \in Nat \ {0}
  /\ Inline.tpl # EmptyTpl /\ Inline.tpl.imports \subseteq Names
  /\ \A n \in Names : Disk[n].tpl.imports \subseteq Names
  /\ \A u \in Pushes : /\ u.name \in Names
                       /\ u.call = "html" => u.content.imports \subseteq Names
                       /\ u.call = "js" /\ ~u.streaming => u.content # NoClass

VARIABLES
  reg,      \* reg[n]: the registry entry of n
  asked,    \* fetches under way: names of siblings, and "raw" for the page
  inst,     \* inst[p]: the mounted instance at path p
  due,      \* paths that React has to render again
  page,     \* StandaloneRoot: [state, subscribed, due, props, missed]
  gone,     \* history: lifecycles of the logics of unmounted instances
  pushed    \* history: host calls so far, and what they streamed in

vars == <<reg, asked, inst, due, page, gone, pushed>>

-----------------------------------------------------------------------------
(* The registry.                                                            *)

NewEntry ==
  [html |-> EmptyTpl, tpl |-> NoTpl, Logic |-> NoClass, logicError |-> FALSE,
   htmlStreaming |-> FALSE, jsStreaming |-> FALSE, fetched |-> FALSE, props |-> 0]

(* A template that does not compile leaves the one before in place.         *)
UpdateHtml(R, n, t) ==
  [R EXCEPT ![n].html = t,
            ![n].tpl = IF t.fault = "compile" THEN @ ELSE t]

(* Source that does not evaluate to a class leaves the class before.        *)
UpdateJs(R, n, c) ==
  IF c.fault = "eval" THEN [R EXCEPT ![n].logicError = TRUE]
  ELSE [R EXCEPT ![n].logicError = FALSE, ![n].Logic = c]

(* dcUpdate: a host that streams a DC takes it over from its file.          *)
DcUpdate(R, u) ==
  LET Q == IF u.streaming THEN [R EXCEPT ![u.name].fetched = TRUE] ELSE R
  IN  CASE u.call = "html" ->
             UpdateHtml([Q EXCEPT ![u.name].htmlStreaming = u.streaming], u.name, u.content)
        [] u.call = "js" ->
             LET S == [Q EXCEPT ![u.name].jsStreaming = u.streaming]
             IN  IF u.streaming THEN S ELSE UpdateJs(S, u.name, u.content)
        [] u.call = "props" -> [Q EXCEPT ![u.name].props = u.content]

(* adoptParsed, for the page itself.                                        *)
Adopted(R, n, file) ==
  LET S == UpdateHtml(R, n, file.tpl)
  IN  IF file.js = NoClass THEN S ELSE UpdateJs(S, n, file.js)

GivesTpl(R, n) == Disk[n].tpl # EmptyTpl /\ R[n].html = EmptyTpl
GivesJs(R, n)  == Disk[n].js # NoClass /\ R[n].Logic = NoClass

(* Mutant of Sibling: a late file replaces what was streamed meanwhile.     *)
Sibling_Overwrites(R, n) == Adopted(R, n, Disk[n])

(* The file of an imported sibling gives what the entry has not got yet.    *)
Sibling(R, n) ==
  LET S == IF GivesTpl(R, n) THEN UpdateHtml(R, n, Disk[n].tpl) ELSE R
  IN  IF GivesJs(R, n) THEN UpdateJs(S, n, Disk[n].js) ELSE S

(* Mutant of Subscribers: only the newest instance of a DC is told.         *)
Subscribers_Last(ns) ==
  LET all == {p \in DOMAIN inst : Last(p) \in ns}
  IN  IF all = {} THEN {} ELSE {CHOOSE p \in all : \A q \in all : Len(q) <= Len(p)}

(* The instances that subscribe to an entry: componentDidMount adds them,   *)
(* componentWillUnmount removes them.                                       *)
Subscribers(ns) == {p \in DOMAIN inst : Last(p) \in ns}

(* bump: every subscriber of an entry in ns clears its error and is due;    *)
(* its failed constructor may be tried again.                               *)
Bump(ns) ==
  /\ due' = due \cup Subscribers(ns)
  /\ inst' = [p \in DOMAIN inst |->
                IF p \in Subscribers(ns)
                THEN [inst[p] EXCEPT !.err = FALSE, !.memo = FALSE, !.tries = 0] ELSE inst[p]]
  /\ page' = [page EXCEPT !.due = @ \/ (Root \in ns /\ page.subscribed)]

-----------------------------------------------------------------------------
(* Instances.                                                               *)

(* An instance: its logic (class and lifecycle calls so far), the class     *)
(* whose constructor failed, and what it shows.  ran says that it has had a *)
(* logic of its own; tries counts constructions since the last bump or new  *)
(* props, past holds the lifecycles of logics it has let go.                *)
Blank == [is |-> "nothing"]

NewInstance ==
  [cls |-> NoClass, ran |-> FALSE, hook |-> << >>, state |-> FALSE, needs |-> FALSE,
   err |-> FALSE, failed |-> NoClass, memo |-> FALSE, tries |-> 0, past |-> {}, view |-> Blank]

(* __makeLogic: a constructor that throws leaves the base class; the state  *)
(* of the logic before is adopted.                                          *)
MakeLogic(i, c) ==
  LET ok == c.fault # "ctor"
  IN  [i EXCEPT !.cls = IF ok THEN c ELSE NoClass, !.ran = @ \/ (ok /\ c # NoClass),
                !.hook = << >>, !.tries = @ + 1,
                !.failed = IF ok THEN NoClass ELSE c, !.memo = ~ok]

(* How a logic ends: componentWillUnmount, unless it was never mounted.     *)
Ended(i) == IF i.needs THEN i.hook ELSE Append(i.hook, "unmount")

(* Mutants of Reconciled: the failure is not remembered; the state is not   *)
(* carried over; the logic swapped in counts as mounted.                    *)
Reconciled_Eager(i, c) ==
  IF c = i.cls THEN i
  ELSE MakeLogic([i EXCEPT !.past = @ \cup {Ended(i)}, !.needs = TRUE], c)

Reconciled_Amnesia(i, c) ==
  IF c = i.cls \/ (i.memo /\ c = i.failed) THEN i
  ELSE MakeLogic([i EXCEPT !.past = @ \cup {Ended(i)}, !.needs = TRUE, !.state = FALSE], c)

Reconciled_Mounted(i, c) ==
  IF c = i.cls \/ (i.memo /\ c = i.failed) THEN i
  ELSE MakeLogic([i EXCEPT !.past = @ \cup {Ended(i)}], c)

(* __reconcileLogic: the class changed; not for a constructor that failed   *)
(* with the same entry and props.                                           *)
Reconciled(i, c) ==
  IF c = i.cls \/ (i.memo /\ c = i.failed) THEN i
  ELSE MakeLogic([i EXCEPT !.past = @ \cup {Ended(i)}, !.needs = TRUE], c)

(* Mutant of Circular: only a DC that imports itself is noticed.            *)
Circular_Direct(p) == Len(p) > 1 /\ p[Len(p) - 1] = Last(p)

Circular(p) == Last(p) \in {p[k] : k \in 1..Len(p) - 1}

(* What an instance shows of its entry.                                     *)
TplView(r, i) ==
  [is |-> "tpl", tpl |-> r.tpl, streaming |-> <<r.htmlStreaming, r.jsStreaming>>,
   cls |-> i.cls, failed |-> r.logicError \/ i.failed # NoClass]

(* render(), of the instance i at path p.  It throws when its template      *)
(* does; a crash of something below that is no DC comes back to it.         *)
Render(p, i) ==
  LET r == reg[Last(p)]
      j == Reconciled(i, r.Logic)
  IN  IF Circular(p) THEN [i EXCEPT !.view = [is |-> "circular"]]
      ELSE IF i.err THEN [i EXCEPT !.view = [is |-> "error"]]
      ELSE IF r.tpl = NoTpl THEN [j EXCEPT !.view = [is |-> "placeholder"]]
      ELSE IF r.tpl.fault = "render" THEN [j EXCEPT !.view = [is |-> "threw"]]
      ELSE IF r.tpl.fault = "child" THEN [j EXCEPT !.view = [is |-> "error"], !.err = TRUE]
      ELSE [j EXCEPT !.view = TplView(r, j)]

Imports(p, i) ==
  IF i.view.is = "tpl" THEN {Append(p, n) : n \in i.view.tpl.imports} ELSE {}

-----------------------------------------------------------------------------
(* React.                                                                   *)

Above(p) == {SubSeq(p, 1, k) : k \in 1..Len(p) - 1}

Mounted == DOMAIN inst # {}

(* Rendered in the next commit.                                             *)
Due(p) == p \in due \/ Above(p) \cap due # {} \/ page.due

(* React may mount an instance anew: the template above it is a new one, in *)
(* which its position or its key is another.                                *)
Movable ==
  {p \in DOMAIN inst \ {<<Root>>} :
     LET q == Front(p)
     IN  Due(q) /\ inst[q].view.is = "tpl" /\ inst[q].view.tpl # reg[Last(q)].tpl}

(* It may get new props from the render above it: only a constructor that   *)
(* failed is the matter of them.                                            *)
Failing ==
  {p \in DOMAIN inst \ {<<Root>>} : inst[p].memo /\ (Above(p) \cap due # {} \/ page.due)}

(* The page's own props have changed since they were shown.                 *)
RootProps(p) == p = <<Root>> /\ page.due /\ page.props # reg[Root].props

(* With new props a failed constructor is tried again.                      *)
Retried(i) == [i EXCEPT !.memo = FALSE, !.tries = 0]

(* The instances React keeps for a commit, with the props they have in it.  *)
Was(moved, fresh) ==
  [p \in {q \in DOMAIN inst : q \notin moved /\ Above(q) \cap moved = {}} |->
     IF p \in fresh \/ RootProps(p) THEN Retried(inst[p]) ELSE inst[p]]

(* The instance at p after its own render, if it is rendered at all.        *)
Rendered(was, p) == p \notin DOMAIN was \/ Due(p)

AfterRender(was, p) ==
  IF p \notin DOMAIN was THEN Render(p, MakeLogic(NewInstance, reg[Last(p)].Logic))
  ELSE IF Rendered(was, p) THEN Render(p, was[p]) ELSE was[p]

(* The rendered tree: the root, and what each instance imports when it has  *)
(* been rendered.                                                           *)
Paths(was) ==
  {p \in UNION {[1..d -> Names] : d \in 1..MaxDepth} :
     p[1] = Root /\ \A k \in 1..Len(p) - 1 :
       LET q == SubSeq(p, 1, k)
       IN  SubSeq(p, 1, k + 1) \in Imports(q, AfterRender(was, q))}

Tree(was) == [p \in Paths(was) |-> AfterRender(was, p)]

(* Mutant of Lifecycle: componentDidUpdate mounts a logic without waiting   *)
(* for its template.                                                        *)
Lifecycle_NoWait(was, p, i) ==
  IF p \notin DOMAIN was THEN [i EXCEPT !.hook = Append(@, "mount")]
  ELSE IF Rendered(was, p) /\ i.needs
  THEN [i EXCEPT !.hook = Append(@, "mount")]
  ELSE i

(* componentDidMount, or componentDidUpdate with a logic swapped in.        *)
Lifecycle(was, p, i) ==
  IF p \notin DOMAIN was THEN [i EXCEPT !.hook = Append(@, "mount")]
  ELSE IF Rendered(was, p) /\ i.needs /\ ~i.err /\ reg[Last(p)].tpl # NoTpl
  THEN [i EXCEPT !.hook = Append(@, "mount"), !.needs = FALSE]
  ELSE i

(* ensureFetched, for every DC that is rendered.                            *)
Fetch(ns) ==
  LET new == {n \in ns : ~reg[n].fetched}
  IN  /\ reg' = [n \in Names |-> [reg[n] EXCEPT !.fetched = @ \/ n \in new]]
      /\ asked' = asked \cup new

(* One commit.  Instances whose subtree threw show the error; when the      *)
(* root's own template throws there is no instance above it.                *)
CommitOf(was) ==
  LET T == Tree(was)
      threw == {p \in DOMAIN T : T[p].view.is = "threw"}
      crashed == {Front(p) : p \in threw \ {<<Root>>}}
      kept == IF <<Root>> \in threw THEN {}
              ELSE {p \in DOMAIN T : Above(p) \cap crashed = {}}
      lost == [p \in DOMAIN inst \ (kept \cap DOMAIN was) |->
                 IF p \in DOMAIN T \cap DOMAIN was THEN T[p] ELSE inst[p]]
  IN  /\ inst' = [p \in kept |->
                    Lifecycle(was, p,
                              IF p \in crashed
                              THEN [T[p] EXCEPT !.err = TRUE, !.view = [is |-> "error"]]
                              ELSE T[p])]
      /\ gone' = gone \cup UNION {lost[p].past \cup {Ended(lost[p])} : p \in DOMAIN lost}
      /\ Fetch({Last(p) : p \in DOMAIN T})
      /\ page' = [page EXCEPT !.due = FALSE,
                              !.state = IF <<Root>> \in threw THEN "blank" ELSE @,
                              !.props = IF ~Mounted \/ page.due THEN reg[Root].props ELSE @,
                              !.missed = @ /\ ~page.due]

Commit ==
  /\ page.state = "up"
  /\ Mounted => page.subscribed
  /\ ~Mounted \/ due # {} \/ page.due
  /\ \E moved \in SUBSET Movable, fresh \in SUBSET Failing : CommitOf(Was(moved, fresh))
  /\ due' = {}
  /\ UNCHANGED pushed

(* The effect of StandaloneRoot runs after the first commit, and before the *)
(* next one: only then does it subscribe, and what it missed it has missed. *)
RunEffects ==
  /\ Mounted /\ ~page.subscribed
  /\ page' = [page EXCEPT !.subscribed = TRUE, !.missed = page.props # reg[Root].props]
  /\ UNCHANGED <<reg, asked, inst, due, gone, pushed>>

-----------------------------------------------------------------------------
(* What reaches the registry.                                               *)

(* boot(): the page as the browser parsed it; its source is fetched again,  *)
(* because the browser has lost the case of names in it.                    *)
Init ==
  /\ reg = Adopted([[n \in Names |-> NewEntry] EXCEPT ![Root].fetched = TRUE], Root, Inline)
  /\ asked = {"raw"}
  /\ inst = << >> /\ due = {} /\ gone = {}
  /\ page = [state |-> "up", subscribed |-> FALSE, due |-> FALSE, props |-> 0, missed |-> FALSE]
  /\ pushed = [count |-> 0, html |-> {}, js |-> {}]

(* The source of the page arrives and replaces its template; or it does     *)
(* not, and nothing happens.                                                *)
RawArrives ==
  /\ "raw" \in asked
  /\ asked' = asked \ {"raw"}
  /\ reg' = UpdateHtml(reg, Root, Disk[Root].tpl) /\ Bump({Root})
  /\ UNCHANGED <<gone, pushed>>

SiblingArrives(n) ==
  /\ n \in asked \cap Names
  /\ asked' = asked \ {n}
  /\ reg' = Sibling(reg, n)
  /\ IF GivesTpl(reg, n) \/ GivesJs(reg, n) THEN Bump({n}) ELSE UNCHANGED <<inst, due, page>>
  /\ UNCHANGED <<gone, pushed>>

FetchFails(n) ==
  /\ n \in asked
  /\ asked' = asked \ {n}
  /\ UNCHANGED <<reg, inst, due, page, gone, pushed>>

(* __dcUpdate.  The history keeps who has been given content of its own.    *)
HostPush(u) ==
  /\ u.call \in {"html", "js", "props"}
  /\ pushed.count < MaxPushes
  /\ reg' = DcUpdate(reg, u) /\ Bump({u.name})
  /\ pushed' = [count |-> pushed.count + 1,
                html |-> IF u.call # "html" THEN pushed.html
                         ELSE (pushed.html \ {u.name})
                              \cup {n \in {u.name} : u.content # EmptyTpl},
                js |-> IF reg'[u.name].Logic # reg[u.name].Logic
                       THEN pushed.js \cup {u.name} ELSE pushed.js]
  /\ UNCHANGED <<asked, gone>>

(* __dcSetProps.                                                            *)
SetProps(u) ==
  /\ u.call = "overrides"
  /\ pushed.count < MaxPushes
  /\ reg' = [reg EXCEPT ![u.name].props = u.content] /\ Bump({u.name})
  /\ pushed' = [pushed EXCEPT !.count = @ + 1]
  /\ UNCHANGED <<asked, gone>>

(* An external module or global became available: bumpAll.                  *)
Resolved == Bump(Names) /\ UNCHANGED <<reg, asked, gone, pushed>>

(* A logic of an instance calls setState, from a handler or after an await: *)
(* one that has been replaced writes the state of its successor (__host).   *)
SetState(p) ==
  /\ p \in DOMAIN inst /\ inst[p].ran
  /\ inst' = [inst EXCEPT ![p].state = TRUE]
  /\ due' = due \cup {p}
  /\ UNCHANGED <<reg, asked, page, gone, pushed>>

Next ==
  \/ Commit \/ RunEffects \/ RawArrives \/ Resolved
  \/ \E n \in Names : SiblingArrives(n)
  \/ \E n \in Names \cup {"raw"} : FetchFails(n)
  \/ \E u \in Pushes : HostPush(u) \/ SetProps(u)
  \/ \E p \in DOMAIN inst : SetState(p)

Spec == Init /\ [][Next]_vars

-----------------------------------------------------------------------------
(* No update is lost: whatever order updates, late files, commits and       *)
(* subscriptions come in, rendering an instance that is not due again would *)
(* change nothing - not what it shows, nor its logic.  The page's own props *)
(* may lag only if they changed before StandaloneRoot listened.             *)
ShowsCurrent ==
  /\ \A p \in DOMAIN inst :
       p \notin due /\ Above(p) \cap due = {} => Render(p, inst[p]) = inst[p]
  /\ page.subscribed /\ ~page.due => page.props = reg[Root].props \/ page.missed

(* Hot swaps, crashes and unmounts pair the lifecycle calls of every logic: *)
(* it is mounted at most once, and unmounted if and only if it was mounted. *)
(* One that is not mounted yet waits for a template, an error to clear, or  *)
(* the next commit (__needsDidMount).                                       *)
LifecyclesPaired ==
  /\ \A p \in DOMAIN inst :
       /\ inst[p].hook = IF inst[p].needs THEN << >> ELSE <<"mount">>
       /\ inst[p].past \subseteq {<< >>, <<"mount", "unmount">>}
       /\ inst[p].needs => p \in due \/ inst[p].err \/ reg[Last(p)].tpl = NoTpl
                            \/ Above(p) \cap due # {}
  /\ gone \subseteq {<< >>, <<"mount", "unmount">>}

(* A constructor that throws is not called again by every render of its     *)
(* parent: once per class, entry and props (__failedLogic).                 *)
FailedNotRetried == \A p \in DOMAIN inst : inst[p].tries <= 1

(* Imports that lead back to a DC end there, however templates change.      *)
NestingEnds == \A p \in DOMAIN inst : Len(p) <= Cardinality(Names) + 1

(* A file that arrives late never takes the place of what the host has      *)
(* streamed into a sibling: template and logic change only with the stream. *)
(* A stream that has nothing yet, or starts anew with nothing, gives way to *)
(* the file, and so does one of which no class has evaluated.               *)
StreamKept ==
  [][pushed' = pushed =>
       \A n \in Names \ {Root} :
         /\ n \in pushed.html => reg'[n].html = reg[n].html
         /\ n \in pushed.js   => reg'[n].Logic = reg[n].Logic]_vars

(* What an instance shows of templates.                                     *)
Shows(i) == IF i.view.is = "tpl" THEN i.view.tpl ELSE NoTpl

(* What a logic has stored with setState outlives its class: swaps, failed  *)
(* constructors, errors and new props keep it for as long as the templates  *)
(* above its instance stay.                                                 *)
StateKept ==
  [][\A p \in DOMAIN inst \cap DOMAIN inst' :
       (\A q \in Above(p) : Shows(inst[q]) = Shows(inst'[q]))
         => (inst[p].state => inst'[p].state)]_vars
=============================================================================
