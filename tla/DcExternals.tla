---------------------------- MODULE DcExternals ----------------------------
(***************************************************************************)
(* What a template of the page brings in from outside (support.js): the     *)
(* modules that x-import names, loaded one after the other and evaluated    *)
(* once; globals it waits for by polling; scripts and styles of its helmet, *)
(* which go into the head of the document.  The host streams the template   *)
(* in growing prefixes; each is compiled, and React renders when it is due  *)
(* (DcRuntime shows that no update is missed).                              *)
(*                                                                          *)
(* An x-import is [urls, name, global, literal, hole]: global for           *)
(* component-from-global-scope, literal unless from holds an expression,    *)
(* hole if one of its properties does not resolve yet.  A child of a helmet *)
(* is [tag, key, whole]; a template [helmet, closed, elems, mode, compiles]. *)
(* Of one that does not compile, elems are those before the fault.  The     *)
(* names on window and in customElements are one set, and nothing is ever   *)
(* taken off it, so a module's own `globals' are part of it.                *)
(***************************************************************************)
EXTENDS Naturals, Sequences, SequencesExt

CONSTANTS
  Files,      \* Files[u]: [jsx, exports, defines, needs] of the module at u
  Scripts,    \* Scripts[key]: the globals the helmet script with that key defines
  Dotted,     \* names that are paths, a.b
  Streams,    \* what the host may stream: sequences of [tpl, streaming]
  PollLimit   \* bound: GLOBAL_POLL_TIMEOUT_MS / GLOBAL_POLL_INTERVAL_MS

Urls    == DOMAIN Files
None    == "none"
NoTpl   == [helmet |-> << >>, closed |-> TRUE, elems |-> << >>, mode |-> None, compiles |-> TRUE]
NotLoaded == [state |-> "new", after |-> None]

ASSUME ExternalsAssumption ==
  /\ None \notin Urls /\ PollLimit \in Nat \ {0}
  /\ \A s \in Streams :
       /\ s \in Seq(Range(s)) /\ s # << >> /\ ~ Last(s).streaming
       /\ \A k \in DOMAIN s : /\ s[k].tpl.elems \in Seq(Range(s[k].tpl.elems))
                              /\ \A e \in Range(s[k].tpl.elems) : e.urls \in Seq(Urls)

(* What is cut off is the last of an open helmet while the host streams,    *)
(* and what identifies it is not what identifies a whole child.             *)
ASSUME CutAssumption ==
  \A s \in Streams : \A k \in DOMAIN s : \A i \in DOMAIN s[k].tpl.helmet :
    LET c == s[k].tpl.helmet[i]
    IN  ~c.whole =>
          /\ s[k].streaming /\ ~s[k].tpl.closed /\ i = Len(s[k].tpl.helmet)
          /\ \A l \in DOMAIN s : \A j \in DOMAIN s[l].tpl.helmet :
               s[l].tpl.helmet[j].whole => s[l].tpl.helmet[j].key # c.key

VARIABLES
  stream,     \* what is streamed in this behaviour
  pushed,     \* chunks that have arrived
  tpl,        \* the template compiled last
  streaming,  \* htmlStreaming
  due,        \* does the page have to be rendered
  mods,       \* mods[u]: pending and cache of external.ts
  babel,      \* babelLoading: none, loading, ready, failed
  win,        \* globals and custom elements that exist
  polls,      \* polling, with the ticks left; 0 is timed out
  view,       \* view[e]: what is shown of x-import e
  mounted,    \* keys of scripts, links and metas in the head
  live,       \* live[i]: the other elements of the head, by index in the helmet
  mode,       \* designDocMode
  ran,        \* helmet scripts that have run
  evals       \* history: urls in the order they were evaluated

page == <<stream, pushed, tpl, streaming>>
head == <<mounted, live, mode>>
vars == <<page, due, mods, babel, win, polls, view, head, ran, evals>>

Init ==
  /\ stream \in Streams /\ pushed = 0 /\ tpl = NoTpl /\ streaming = FALSE /\ due = FALSE
  /\ mods = [u \in Urls |-> NotLoaded] /\ babel = "none" /\ win = {}
  /\ polls = << >> /\ view = << >>
  /\ mounted = {} /\ live = << >> /\ mode = None /\ ran = {} /\ evals = << >>

Settled(u) == mods[u].state \in {"loaded", "failed"}

-----------------------------------------------------------------------------
(* Loading modules.                                                         *)

(* Mutants of Load: a url is known by its cache entry, which is null while  *)
(* it loads; one that waits already takes on one more predecessor.          *)
Load_Again(m, after) ==
  IF m.state = "loaded" THEN m ELSE [state |-> "waiting", after |-> after]

Load_Joins(m, after) ==
  IF m.state = "new" \/ (m.state = "waiting" /\ after # None)
  THEN [state |-> "waiting", after |-> after] ELSE m

(* load(), of a url with the record m: it is loaded once.                   *)
Load(m, after) ==
  IF m.state # "new" THEN m ELSE [state |-> "waiting", after |-> after]

(* The x-imports of t that load u when t is compiled.                       *)
Importers(t, u) == {j \in DOMAIN t.elems : t.elems[j].literal /\ u \in Range(t.elems[j].urls)}

(* The urls of an x-import are loaded in order, each after the one before:  *)
(* what counts for u is its first place in the first x-import.              *)
Predecessor(t, u) ==
  LET us == t.elems[Min(Importers(t, u))].urls
      i == Min({k \in DOMAIN us : us[k] = u})
  IN  IF i = 1 THEN None ELSE us[i - 1]

LoadAll(M, t) ==
  [u \in Urls |-> IF Importers(t, u) = {} THEN M[u] ELSE Load(M[u], Predecessor(t, u))]

(* ensureBabel, for the first jsx module; its outcome is kept for good.     *)
NeedsBabel(M) == \E u \in Urls : Files[u].jsx /\ M[u].state # "new"

BabelSettles(outcome) ==
  /\ babel = "loading"
  /\ babel' = outcome
  /\ UNCHANGED <<page, due, mods, win, polls, view, head, ran, evals>>

(* Mutant of Start: sequential loading is forgotten.                        *)
Start_AtOnce(u) ==
  /\ mods[u].state = "waiting"
  /\ Files[u].jsx => babel = "ready"
  /\ mods' = [mods EXCEPT ![u].state = "fetching"]
  /\ UNCHANGED <<page, due, babel, win, polls, view, head, ran, evals>>

(* Babel is there and the predecessor has settled, well or not: fetch.      *)
Start(u) ==
  /\ mods[u].state = "waiting"
  /\ Files[u].jsx => babel = "ready"
  /\ mods[u].after # None => Settled(mods[u].after)
  /\ mods' = [mods EXCEPT ![u].state = "fetching"]
  /\ UNCHANGED <<page, due, babel, win, polls, view, head, ran, evals>>

(* The text arrives and is evaluated, which throws without what it needs.   *)
Arrives(u) ==
  /\ mods[u].state = "fetching"
  /\ LET ok == Files[u].needs \subseteq win
     IN  /\ mods' = [mods EXCEPT ![u].state = IF ok THEN "loaded" ELSE "failed"]
         /\ win' = IF ok THEN win \cup Files[u].defines ELSE win
  /\ evals' = Append(evals, u)
  /\ due' = TRUE
  /\ UNCHANGED <<page, babel, polls, view, head, ran>>

(* Mutant of LoadFails: nobody is told.                                     *)
LoadFails_Silent(u) ==
  /\ mods[u].state = "fetching" \/ (mods[u].state = "waiting" /\ Files[u].jsx /\ babel = "failed")
  /\ mods' = [mods EXCEPT ![u].state = "failed"]
  /\ UNCHANGED <<page, due, babel, win, polls, view, head, ran, evals>>

(* HTTP or network error; or there is no Babel, and then the module fails   *)
(* without waiting for its predecessor (Promise.all).                       *)
LoadFails(u) ==
  /\ mods[u].state = "fetching" \/ (mods[u].state = "waiting" /\ Files[u].jsx /\ babel = "failed")
  /\ mods' = [mods EXCEPT ![u].state = "failed"]
  /\ due' = TRUE
  /\ UNCHANGED <<page, babel, win, polls, view, head, ran, evals>>

-----------------------------------------------------------------------------
(* Resolving an x-import.                                                   *)

Url(e) == IF e.urls = << >> THEN None ELSE Last(e.urls)

(* Is the component of e to be had: resolve and resolveGlobal.              *)
Found(e) ==
  IF Url(e) = None THEN e.global /\ e.name \in win
  ELSE /\ Settled(Url(e))
       /\ \/ e.name \in win
          \/ ~e.global /\ mods[Url(e)].state = "loaded"
               /\ Files[Url(e)].exports \cap {e.name, "default"} # {}

(* A module that has loaded without the global: its name becomes a tag.     *)
AsTag(e) == e.global /\ Url(e) # None /\ Settled(Url(e)) /\ e.name \notin Dotted

(* What an x-import shows: a component waits until its properties resolve.  *)
ViewOf(e) ==
  CASE ~e.literal -> "error"
    [] e.literal /\ (Found(e) \/ AsTag(e)) ->
         IF e.hole /\ streaming THEN "waiting" ELSE IF Found(e) THEN "shown" ELSE "tag"
    [] OTHER -> IF Url(e) # None /\ Settled(Url(e)) /\ (~e.global \/ mods[Url(e)].state = "failed")
                THEN "error" ELSE "waiting"

(* The globals without a module that are still missing.                     *)
Wanted == {e.name : e \in {x \in Range(tpl.elems) : x.literal /\ x.global /\ Url(x) = None}} \ win

(* Mutant of Tick: the global is found and nobody is told.                  *)
Tick_Silent(n) ==
  /\ n \in DOMAIN polls /\ polls[n] > 0
  /\ polls' = IF n \in win THEN [m \in DOMAIN polls \ {n} |-> polls[m]]
              ELSE [polls EXCEPT ![n] = @ - 1]
  /\ UNCHANGED <<page, due, mods, babel, win, view, head, ran, evals>>

(* waitForGlobal's tick: a name that has timed out stays in `polling'.      *)
Tick(n) ==
  /\ n \in DOMAIN polls /\ polls[n] > 0
  /\ IF n \in win
     THEN /\ polls' = [m \in DOMAIN polls \ {n} |-> polls[m]]
          /\ due' = TRUE
     ELSE polls' = [polls EXCEPT ![n] = @ - 1] /\ UNCHANGED due
  /\ UNCHANGED <<page, mods, babel, win, view, head, ran, evals>>

-----------------------------------------------------------------------------
(* The helmet.                                                              *)

Loads(c) == c.tag \in {"script", "link"}

(* Mutant of Partial: nothing is held back.                                 *)
Partial_Whole(i) == FALSE

(* While the template streams, the last child of an open helmet may be cut  *)
(* off in the middle.                                                       *)
Partial(i) == streaming /\ ~tpl.closed /\ i = Len(tpl.helmet)

Mountable == {i \in DOMAIN tpl.helmet : Loads(tpl.helmet[i]) /\ ~Partial(i)}

(* What rendering a helmet does to the head.                                *)
RenderHelmet ==
  /\ mounted' = mounted \cup {tpl.helmet[i].key : i \in Mountable}
  /\ LET own == {i \in DOMAIN tpl.helmet : ~Loads(tpl.helmet[i])}
     IN  live' = [i \in DOMAIN live \cup own |->
                    IF i \in own THEN tpl.helmet[i].key ELSE live[i]]
  /\ UNCHANGED mode

(* One render of the page.                                                  *)
Render ==
  /\ due /\ due' = FALSE
  /\ view' = [e \in Range(tpl.elems) |-> ViewOf(e)]
  /\ polls' = [n \in DOMAIN polls \cup Wanted |->
                 IF n \in DOMAIN polls THEN polls[n] ELSE PollLimit]
  /\ RenderHelmet
  /\ UNCHANGED <<page, mods, babel, win, ran, evals>>

(* A script of the head has been fetched and runs: in any order.            *)
ScriptRuns(s) ==
  /\ s \in mounted \ ran /\ s \in DOMAIN Scripts
  /\ ran' = ran \cup {s}
  /\ win' = win \cup Scripts[s]
  /\ UNCHANGED <<page, due, mods, babel, polls, view, head, evals>>

-----------------------------------------------------------------------------
(* The design mode a chunk leaves: none found yet says nothing while it     *)
(* streams.                                                                 *)
ModeOf(c) == IF c.tpl.mode # None \/ ~c.streaming THEN c.tpl.mode ELSE mode

(* The host pushes the next prefix of the template of the page.             *)
Push ==
  /\ pushed < Len(stream)
  /\ LET c == stream[pushed + 1]
         M == LoadAll(mods, c.tpl)
     IN  /\ mods' = M
         /\ babel' = IF babel = "none" /\ NeedsBabel(M) THEN "loading" ELSE babel
         /\ tpl' = IF c.tpl.compiles THEN c.tpl ELSE tpl
         /\ streaming' = c.streaming
         /\ mode' = ModeOf(c)
  /\ pushed' = pushed + 1
  /\ due' = TRUE
  /\ UNCHANGED <<stream, win, polls, view, mounted, live, ran, evals>>

Next ==
  \/ Push \/ Render
  \/ \E o \in {"ready", "failed"} : BabelSettles(o)
  \/ \E u \in Urls : Start(u) \/ Arrives(u) \/ LoadFails(u)
  \/ \E n \in DOMAIN polls : Tick(n)
  \/ \E s \in mounted : ScriptRuns(s)

Spec == Init /\ [][Next]_vars

(* Fetches end, timers fire and React renders; the host need not go on and  *)
(* a script need not run.                                                   *)
Fairness ==
  /\ WF_vars(Render)
  /\ WF_vars(\E o \in {"ready", "failed"} : BabelSettles(o))
  /\ \A u \in Urls : WF_vars(Start(u) \/ Arrives(u) \/ LoadFails(u))
  /\ WF_vars(\E n \in DOMAIN polls : Tick(n))

LiveSpec == Spec /\ Fairness

-----------------------------------------------------------------------------
(* However many templates name a module, and in whatever order, it is       *)
(* evaluated once (`pending').                                              *)
EvaluatedOnce == IsInjective(evals)

(* The list of an x-import is loaded in its order: when a module is         *)
(* evaluated, those before it in the list that first asked for it have      *)
(* settled, also when one of them failed - unless a jsx module between gave *)
(* up for want of Babel, which lets its successors go.                      *)
Before(u) ==
  {v \in Urls : \A S \in SUBSET Urls :
     mods[u].after \in S \cup {None} /\ (\A w \in S : mods[w].after \in S \cup {None}) => v \in S}

OrderKept ==
  \A u \in Urls : mods[u].state \in {"fetching", "loaded"} =>
    \/ \A v \in Before(u) : Settled(v)
    \/ babel = "failed" /\ \E v \in Before(u) : Files[v].jsx

(* When nothing is due, the page shows every import as it stands: no module *)
(* that loads or fails leaves a placeholder behind.  Only a global that a   *)
(* script defined on its own may be there and not be seen yet.              *)
ImportsCurrent ==
  ~due => \A e \in DOMAIN view :
            view[e] = ViewOf(e) \/ \E s \in ran : e.name \in Scripts[s]

(* No script or link is mounted from a template that was cut off inside it, *)
(* unless the end of the stream did not compile; at the end of the stream   *)
(* all are mounted, styles have their last text, and the design mode is     *)
(* that of the document.                                                    *)
HelmetApplied ==
  LET done == pushed > 0 /\ ~streaming
  IN  /\ \A t \in {stream[k].tpl : k \in 1..pushed} : \A i \in DOMAIN t.helmet :
           ~t.helmet[i].whole /\ t.helmet[i].key \in mounted
             => \E k \in 1..pushed : ~stream[k].streaming /\ ~stream[k].tpl.compiles
      /\ done /\ ~due => \A i \in DOMAIN tpl.helmet :
           IF Loads(tpl.helmet[i]) THEN tpl.helmet[i].key \in mounted
           ELSE i \in DOMAIN live /\ live[i] = tpl.helmet[i].key
      /\ done => mode = stream[pushed].tpl.mode

(* Every module that is asked for ends loaded or failed: lists that name    *)
(* each other's modules in opposite orders do not wait in a circle.         *)
EveryImportSettles == \A u \in Urls : mods[u].state = "waiting" ~> Settled(u)

(* A global that appears while it is polled for is shown, without anything  *)
(* else happening on the page.                                              *)
GlobalShown ==
  \A s \in DOMAIN Scripts : \A n \in Scripts[s] :
    n \in win /\ n \in DOMAIN polls /\ polls[n] > 0 ~>
      ~due /\ \A e \in DOMAIN view : e.name = n => view[e] = ViewOf(e)
=============================================================================
