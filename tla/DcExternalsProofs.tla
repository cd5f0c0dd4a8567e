-------------------------- MODULE DcExternalsProofs --------------------------
(***************************************************************************)
(* What the page keeps of the modules, globals and helmets its templates    *)
(* bring in: DcExternals' safety properties, for every set of modules,      *)
(* scripts and streams.                                                     *)
(***************************************************************************)
EXTENDS DcExternals, SequenceTheorems, WellFoundedInduction, TLAPS

-----------------------------------------------------------------------------
(* The inductive invariant, one conjunct per reason.                        *)

Modules ==
  [state : {"new", "waiting", "fetching", "loaded", "failed"}, after : Urls \cup {None}]

ModulesOK ==
  /\ mods \in [Urls -> Modules] /\ evals \in Seq(Urls)
  /\ babel \in {"none", "loading", "ready", "failed"}

(* A module that has been evaluated has loaded or failed, for good.         *)
FreshNotRun ==
  \A u \in Urls : mods[u].state \in {"new", "waiting", "fetching"} => u \notin Range(evals)

(* The module that u comes after, if any, has settled.                      *)
Clear(u) == mods[u].after = None \/ Settled(mods[u].after)

(* One that was let go in its turn stays so; one that was not is a jsx      *)
(* module without Babel.                                                    *)
InTurn ==
  \A u \in Urls :
    /\ mods[u].state \in {"fetching", "loaded"} => Clear(u)
    /\ mods[u].state = "failed" => Clear(u) \/ (Files[u].jsx /\ babel = "failed")

ModInv == ModulesOK /\ FreshNotRun /\ EvaluatedOnce /\ InTurn

(* The template and the way it is streamed are those of the last chunk that *)
(* compiled, or the page has none yet.                                      *)
PushedOK ==
  /\ stream \in Streams /\ pushed \in 0..Len(stream)
  /\ tpl = NoTpl \/ \E k \in 1..pushed : tpl = stream[k].tpl
  /\ pushed = 0 => streaming = FALSE
  /\ pushed > 0 => /\ streaming = stream[pushed].streaming
                   /\ stream[pushed].tpl.compiles => tpl = stream[pushed].tpl

(* What is shown comes from a chunk, and names modules there are.           *)
ViewsKnown == \A e \in DOMAIN view : Url(e) \in Urls \cup {None}

(* What is mounted is a whole child of a chunk, unless an end of the stream *)
(* did not compile.                                                         *)
IsWhole(key) ==
  \E k \in 1..pushed : \E i \in DOMAIN stream[k].tpl.helmet :
    stream[k].tpl.helmet[i].whole /\ stream[k].tpl.helmet[i].key = key

EndBroken == \E k \in 1..pushed : ~stream[k].streaming /\ ~stream[k].tpl.compiles

MountedWhole == EndBroken \/ \A key \in mounted : IsWhole(key)

(* A render that is not due has put all it could into the head.             *)
HeadCurrent ==
  ~due => \A i \in DOMAIN tpl.helmet :
            /\ i \in Mountable => tpl.helmet[i].key \in mounted
            /\ ~Loads(tpl.helmet[i]) => i \in DOMAIN live /\ live[i] = tpl.helmet[i].key

ModeCurrent == pushed > 0 /\ ~streaming => mode = stream[pushed].tpl.mode

PageInv ==
  PushedOK /\ ViewsKnown /\ MountedWhole /\ HeadCurrent /\ ModeCurrent /\ ImportsCurrent

-----------------------------------------------------------------------------
(* What loading a list does.                                                *)

LEMMA LeastOf ==
  ASSUME NEW S \in SUBSET Nat, S # {}
  PROVE  Min(S) \in S /\ \A y \in S : Min(S) <= y
<1> DEFINE R == OpToRel(<, Nat)
<1>1. IsWellFoundedOn(R, Nat) /\ \A x, y \in Nat : x < y => <<x, y>> \in R
  BY NatLessThanWellFounded, Zenon DEF OpToRel
<1> HIDE DEF R
<1>2. S \subseteq Nat
  OBVIOUS
<1>3. IsWellFoundedOn(R, Nat)
  BY <1>1
<1>4. \E x \in S : \A y \in S : ~ (<<y, x>> \in R)
  BY <1>2, <1>3, WFMin, Zenon
<1>5. PICK x \in S : \A y \in S : ~ (<<y, x>> \in R)
  BY <1>4
<1>6. \A y \in S : ~ (y < x)
  BY <1>1, <1>2, <1>5, Zenon
<1>7. \A y \in S : x <= y
  BY <1>2, <1>6
<1> QED BY <1>7 DEF Min

(* A template as the host may stream it.                                    *)
Readable(t) ==
  /\ t.elems \in Seq(Range(t.elems))
  /\ \A e \in Range(t.elems) : e.urls \in Seq(Urls)

LEMMA PredecessorIsModule ==
  ASSUME NEW t, Readable(t), NEW u, Importers(t, u) # {}
  PROVE  Predecessor(t, u) \in Urls \cup {None}
<1> DEFINE j == Min(Importers(t, u))
           us == t.elems[j].urls
           P == {k \in DOMAIN us : us[k] = u}
           i == Min(P)
<1>1. Importers(t, u) \in SUBSET Nat
  <2>1. DOMAIN t.elems = 1..Len(t.elems) /\ Len(t.elems) \in Nat
    BY DEF Readable
  <2> QED BY <2>1 DEF Importers
<1>2. j \in Importers(t, u)
  BY <1>1, LeastOf
<1>3. us \in Seq(Urls) /\ u \in Range(us)
  BY <1>2 DEF Importers, Readable, Range
<1>4. P \in SUBSET Nat /\ P # {}
  <2> HIDE DEF us
  <2>1. DOMAIN us = 1..Len(us) /\ Len(us) \in Nat
    BY <1>3
  <2> QED BY <1>3, <2>1 DEF Range
<1>5. i \in P
  BY <1>4, LeastOf
<1>6. Predecessor(t, u) = IF i = 1 THEN None ELSE us[i - 1]
  BY DEF Predecessor
<1> HIDE DEF us, i
<1>7. i \in 1..Len(us) /\ Len(us) \in Nat
  BY <1>3, <1>5
<1>8. i # 1 => i - 1 \in 1..Len(us)
  BY <1>7
<1> QED BY <1>3, <1>6, <1>8

(* Only what was never asked for changes, and then waits.                   *)
LEMMA LoadAllEffect ==
  ASSUME NEW M \in [Urls -> Modules], NEW t, Readable(t)
  PROVE  /\ LoadAll(M, t) \in [Urls -> Modules]
         /\ \A u \in Urls : \/ LoadAll(M, t)[u] = M[u]
                            \/ M[u].state = "new" /\ LoadAll(M, t)[u].state = "waiting"
<1>1. ASSUME NEW u \in Urls
      PROVE  /\ LoadAll(M, t)[u] \in Modules
             /\ \/ LoadAll(M, t)[u] = M[u]
                \/ M[u].state = "new" /\ LoadAll(M, t)[u].state = "waiting"
  <2>1. CASE Importers(t, u) = {}
    BY <2>1 DEF LoadAll
  <2>2. CASE Importers(t, u) # {}
    <3> DEFINE a == Predecessor(t, u)
    <3>1. a \in Urls \cup {None}
      BY <2>2, PredecessorIsModule
    <3>2. LoadAll(M, t)[u] = Load(M[u], a)
      BY <2>2 DEF LoadAll
    <3> HIDE DEF a
    <3> QED BY <3>1, <3>2 DEF Load, Modules
  <2> QED BY <2>1, <2>2
<1>2. LoadAll(M, t) = [u \in Urls |-> LoadAll(M, t)[u]]
  BY DEF LoadAll
<1> QED BY <1>1, <1>2

(* A chunk of a stream is readable.                                         *)
LEMMA ChunksReadable ==
  ASSUME NEW s \in Streams, NEW k \in 1..Len(s)
  PROVE  Readable(s[k].tpl) /\ DOMAIN s = 1..Len(s) /\ Len(s) \in Nat
<1>1. s \in Seq(Range(s))
  BY ExternalsAssumption
<1>2. k \in DOMAIN s /\ DOMAIN s = 1..Len(s) /\ Len(s) \in Nat
  BY <1>1
<1> QED BY <1>2, ExternalsAssumption DEF Readable

-----------------------------------------------------------------------------
(* The modules.                                                             *)

LEMMA AppendNew ==
  ASSUME NEW S, NEW s \in Seq(S), NEW x \in S, x \notin Range(s), IsInjective(s)
  PROVE  /\ Append(s, x) \in Seq(S) /\ IsInjective(Append(s, x))
         /\ Range(Append(s, x)) = Range(s) \cup {x}
<1> DEFINE n == Len(s)
           z == Append(s, x)
<1>1. n \in Nat /\ DOMAIN s = 1..n
  OBVIOUS
<1>2. /\ z \in Seq(S) /\ DOMAIN z = 1..n + 1 /\ z[n + 1] = x
      /\ \A k \in 1..n : z[k] = s[k]
  BY AppendProperties
<1> HIDE DEF n, z
<1>3. \A k \in 1..n + 1 : k \in 1..n \/ k = n + 1
  BY <1>1
<1>4. \A k \in 1..n : k \in 1..n + 1 /\ s[k] # x
  BY <1>1 DEF Range
<1>5. n + 1 \in 1..n + 1
  BY <1>1
<1>6. IsInjective(z)
  BY <1>1, <1>2, <1>3, <1>4 DEF IsInjective
<1>7. Range(z) = Range(s) \cup {x}
  BY <1>1, <1>2, <1>3, <1>4, <1>5 DEF Range
<1> QED BY <1>2, <1>6, <1>7 DEF z

(* What is settled stays so, and no module gets another predecessor.        *)
Onward ==
  \A v \in Urls : /\ Settled(v) => Settled(v)'
                  /\ mods[v].state # "new" => mods[v].after = mods'[v].after

LEMMA ClearStays ==
  ASSUME ModulesOK, Onward, NEW u \in Urls, mods[u].state # "new", Clear(u)
  PROVE  Clear(u)'
<1>1. mods[u].after \in Urls \cup {None}
  BY DEF ModulesOK, Modules
<1> QED BY <1>1 DEF Onward, Clear

(* One module moves on.                                                     *)
Moves(u, s) ==
  /\ mods[u].state \in {"waiting", "fetching"} /\ s \in {"fetching", "loaded", "failed"}
  /\ mods' = [mods EXCEPT ![u].state = s]

LEMMA MovesEffect ==
  ASSUME ModulesOK, NEW u \in Urls, NEW s, Moves(u, s)
  PROVE  /\ mods' \in [Urls -> Modules] /\ Onward /\ mods'[u].state = s
         /\ \A v \in Urls \ {u} : mods'[v] = mods[v]
<1> DEFINE e == [mods[u] EXCEPT !.state = s]
<1>1. mods[u] \in Modules /\ mods \in [Urls -> Modules]
  BY DEF ModulesOK
<1>2. e \in Modules /\ e.state = s /\ e.after = mods[u].after
  BY <1>1 DEF Modules, Moves
<1>3. mods' = [mods EXCEPT ![u] = e]
  BY DEF Moves
<1> HIDE DEF e
<1>4. mods' \in [Urls -> Modules] /\ mods'[u] = e /\ \A v \in Urls \ {u} : mods'[v] = mods[v]
  BY <1>1, <1>2, <1>3
<1>5. Onward
  BY <1>2, <1>4 DEF Onward, Settled, Moves
<1> QED BY <1>2, <1>4, <1>5

LEMMA PushMods ==
  ASSUME ModInv, PushedOK, Push
  PROVE  ModInv'
<1> DEFINE c == stream[pushed + 1]
           M == LoadAll(mods, c.tpl)
<1>1. /\ mods' = M /\ evals' = evals
      /\ babel' \in {babel, "loading"} /\ (babel' # babel => babel = "none")
  BY DEF Push
<1>2. Readable(c.tpl)
  <2>1. stream \in Streams /\ pushed \in 0..Len(stream) /\ pushed < Len(stream)
    BY DEF PushedOK, Push
  <2>2. Len(stream) \in Nat
    BY <2>1, ExternalsAssumption
  <2>3. pushed + 1 \in 1..Len(stream)
    BY <2>1, <2>2
  <2> QED BY <2>1, <2>3, ChunksReadable
<1>3. mods \in [Urls -> Modules] /\ evals \in Seq(Urls)
  BY DEF ModInv, ModulesOK
<1>4. /\ mods' \in [Urls -> Modules]
      /\ \A u \in Urls : \/ mods'[u] = mods[u]
                         \/ mods[u].state = "new" /\ mods'[u].state = "waiting"
  BY <1>1, <1>2, <1>3, LoadAllEffect
<1> HIDE DEF c, M
<1>5. Onward
  BY <1>4 DEF Onward, Settled
<1>6. ModulesOK'
  BY <1>1, <1>3, <1>4 DEF ModInv, ModulesOK
<1>7. FreshNotRun' /\ EvaluatedOnce'
  BY <1>1, <1>4 DEF ModInv, FreshNotRun, EvaluatedOnce
<1>8. ASSUME NEW u \in Urls, mods'[u].state \in {"fetching", "loaded", "failed"}
      PROVE  mods'[u] = mods[u] /\ (Clear(u) => Clear(u)')
  <2>1. mods'[u] = mods[u] /\ mods[u].state # "new"
    BY <1>4, <1>8
  <2> QED BY <1>5, <2>1, ClearStays DEF ModInv
<1>9. InTurn'
  BY <1>1, <1>8 DEF ModInv, InTurn
<1> QED BY <1>6, <1>7, <1>9 DEF ModInv

LEMMA MoveMods ==
  ASSUME ModInv, NEW u \in Urls, NEW s, Moves(u, s), babel' = babel,
         \/ evals' = evals /\ s \in {"fetching", "failed"}
         \/ evals' = Append(evals, u) /\ s \in {"loaded", "failed"},
         Clear(u) \/ (s = "failed" /\ Files[u].jsx /\ babel = "failed")
  PROVE  ModInv'
<1>1. /\ mods' \in [Urls -> Modules] /\ Onward /\ mods'[u].state = s
      /\ \A v \in Urls \ {u} : mods'[v] = mods[v]
  BY MovesEffect DEF ModInv
<1>2. u \notin Range(evals) /\ evals \in Seq(Urls) /\ IsInjective(evals)
  BY DEF ModInv, FreshNotRun, Moves, ModulesOK, EvaluatedOnce
<1>3. /\ evals' \in Seq(Urls) /\ IsInjective(evals')
      /\ \/ evals' = evals /\ s \in {"fetching", "failed"}
         \/ Range(evals') = Range(evals) \cup {u} /\ s \in {"loaded", "failed"}
  <2> DEFINE z == Append(evals, u)
  <2>1. z \in Seq(Urls) /\ IsInjective(z) /\ Range(z) = Range(evals) \cup {u}
    BY <1>2, AppendNew
  <2>2. (evals' = evals /\ s \in {"fetching", "failed"})
          \/ (evals' = z /\ s \in {"loaded", "failed"})
    OBVIOUS
  <2> HIDE DEF z
  <2> QED BY <1>2, <2>1, <2>2
<1>4. ModulesOK'
  BY <1>1, <1>3 DEF ModInv, ModulesOK
<1>5. FreshNotRun'
  <2> SUFFICES ASSUME NEW v \in Urls, mods'[v].state \in {"new", "waiting", "fetching"}
               PROVE  v \notin Range(evals')
    BY DEF FreshNotRun
  <2>1. CASE v = u
    BY <1>1, <1>2, <1>3, <2>1
  <2>2. CASE v # u
    <3>1. v \notin Range(evals)
      BY <1>1, <2>2 DEF ModInv, FreshNotRun
    <3> QED BY <1>3, <2>2, <3>1
  <2> QED BY <2>1, <2>2
<1>6. EvaluatedOnce'
  BY <1>3 DEF EvaluatedOnce
<1>7. ASSUME NEW v \in Urls, Clear(v), mods[v].state # "new"
      PROVE  Clear(v)'
  BY <1>1, <1>7, ClearStays DEF ModInv
<1>8. ASSUME NEW v \in Urls
      PROVE  /\ mods'[v].state \in {"fetching", "loaded"} => Clear(v)'
             /\ mods'[v].state = "failed" => Clear(v)' \/ (Files[v].jsx /\ babel' = "failed")
  <2>1. CASE v = u
    <3>1. Clear(u) => Clear(u)'
      BY <1>7 DEF Moves
    <3> QED BY <1>1, <1>3, <2>1, <3>1
  <2>2. CASE v # u
    <3>1. /\ mods[v].state \in {"fetching", "loaded"} => Clear(v)
          /\ mods[v].state = "failed" => Clear(v) \/ (Files[v].jsx /\ babel = "failed")
      BY DEF ModInv, InTurn
    <3> QED BY <1>1, <1>7, <2>2, <3>1
  <2> QED BY <2>1, <2>2
<1>9. InTurn'
  BY <1>8 DEF InTurn
<1> QED BY <1>4, <1>5, <1>6, <1>9 DEF ModInv

LEMMA StepMods ==
  ASSUME ModInv, PushedOK, Next
  PROVE  ModInv'
<1>1. ASSUME UNCHANGED <<mods, babel, evals>>
      PROVE  ModInv'
  BY <1>1 DEF ModInv, ModulesOK, FreshNotRun, EvaluatedOnce, InTurn, Clear, Settled
<1>2. CASE Push
  BY <1>2, PushMods
<1>3. CASE Render
  BY <1>1, <1>3 DEF Render
<1>4. CASE \E o \in {"ready", "failed"} : BabelSettles(o)
  <2>1. UNCHANGED <<mods, evals>> /\ babel = "loading" /\ babel' \in {"ready", "failed"}
    BY <1>4 DEF BabelSettles
  <2>2. ModulesOK' /\ FreshNotRun' /\ EvaluatedOnce'
    BY <2>1 DEF ModInv, ModulesOK, FreshNotRun, EvaluatedOnce
  <2>3. InTurn'
    BY <2>1 DEF ModInv, InTurn, Clear, Settled
  <2> QED BY <2>2, <2>3 DEF ModInv
<1>5. ASSUME NEW u \in Urls, Start(u)
      PROVE  ModInv'
  <2>1. Moves(u, "fetching") /\ Clear(u) /\ babel' = babel /\ evals' = evals
    BY <1>5 DEF Start, Moves, Clear
  <2> QED BY <2>1, MoveMods
<1>6. ASSUME NEW u \in Urls, Arrives(u)
      PROVE  ModInv'
  <2>1. PICK s \in {"loaded", "failed"} :
          mods[u].state = "fetching" /\ mods' = [mods EXCEPT ![u].state = s]
    BY <1>6 DEF Arrives
  <2>2. babel' = babel /\ evals' = Append(evals, u)
    BY <1>6 DEF Arrives
  <2>3. Moves(u, s) /\ Clear(u)
    BY <2>1 DEF Moves, ModInv, InTurn
  <2> QED BY <2>1, <2>2, <2>3, MoveMods
<1>7. ASSUME NEW u \in Urls, LoadFails(u)
      PROVE  ModInv'
  <2>1. Moves(u, "failed") /\ babel' = babel /\ evals' = evals
    BY <1>7 DEF LoadFails, Moves
  <2>2. Clear(u) \/ (Files[u].jsx /\ babel = "failed")
    BY <1>7 DEF LoadFails, ModInv, InTurn
  <2> QED BY <2>1, <2>2, MoveMods
<1>8. CASE \E n \in DOMAIN polls : Tick(n)
  BY <1>1, <1>8 DEF Tick
<1>9. CASE \E s \in mounted : ScriptRuns(s)
  BY <1>1, <1>9 DEF ScriptRuns
<1> QED BY <1>2, <1>3, <1>4, <1>5, <1>6, <1>7, <1>8, <1>9 DEF Next

(* What a module comes after is closed, and the least such set.             *)
LEMMA BeforeClosed ==
  ASSUME ModulesOK, NEW u \in Urls
  PROVE  /\ Before(u) \subseteq Urls /\ mods[u].after \in Before(u) \cup {None}
         /\ \A w \in Before(u) : mods[w].after \in Before(u) \cup {None}
         /\ \A S \in SUBSET Urls :
              mods[u].after \in S \cup {None} /\ (\A w \in S : mods[w].after \in S \cup {None})
                => Before(u) \subseteq S
<1>1. \A v \in Urls : mods[v].after \in Urls \cup {None}
  BY DEF ModulesOK, Modules
<1> QED BY <1>1 DEF Before

LEMMA TurnsKeepOrder ==
  ASSUME ModInv
  PROVE  OrderKept
<1> SUFFICES ASSUME NEW u \in Urls, mods[u].state \in {"fetching", "loaded"},
                    ~(babel = "failed" /\ \E v \in Before(u) : Files[v].jsx)
             PROVE  \A v \in Before(u) : Settled(v)
  BY DEF OrderKept
<1> DEFINE S == {v \in Before(u) : Settled(v)}
<1>1. ModulesOK
  BY DEF ModInv
<1>2. Before(u) \subseteq Urls /\ S \subseteq Urls
  BY <1>1, BeforeClosed
<1>3. mods[u].after \in S \cup {None}
  BY <1>1, BeforeClosed DEF ModInv, InTurn, Clear
<1>4. ASSUME NEW w \in S
      PROVE  mods[w].after \in S \cup {None}
  <2>1. w \in Urls /\ w \in Before(u) /\ Settled(w)
    BY <1>2
  <2>2. Clear(w)
    BY <2>1 DEF ModInv, InTurn, Settled
  <2> QED BY <1>1, <2>1, <2>2, BeforeClosed DEF Clear
<1> HIDE DEF S
<1>5. Before(u) \subseteq S
  BY <1>1, <1>2, <1>3, <1>4, BeforeClosed
<1> QED BY <1>5 DEF S

-----------------------------------------------------------------------------
(* The page.                                                                *)

(* What settles or is defined for others leaves an import as it is shown.   *)
LEMMA SameView ==
  ASSUME NEW e, Url(e) \in Urls \cup {None}, streaming' = streaming,
         \A v \in Urls : /\ Settled(v)' <=> Settled(v)
                         /\ Settled(v) => mods'[v].state = mods[v].state,
         e.name \in win' <=> e.name \in win
  PROVE  ViewOf(e)' = ViewOf(e)
<1>1. Url(e)' = Url(e)
  BY DEF Url
<1>2. Url(e) # None => Url(e) \in Urls
  OBVIOUS
<1>3. Url(e) # None /\ Settled(Url(e)) => mods'[Url(e)].state = mods[Url(e)].state
  BY <1>2
<1>4. Url(e) # None => (Settled(Url(e))' <=> Settled(Url(e)))
  BY <1>1, <1>2 DEF Settled
<1>5. Found(e)' <=> Found(e)
  BY <1>1, <1>3, <1>4 DEF Found
<1>6. AsTag(e)' <=> AsTag(e)
  BY <1>1, <1>4 DEF AsTag
<1>7. Url(e) # None /\ Settled(Url(e)) /\ (~e.global \/ mods[Url(e)].state = "failed")
      <=> Url(e) # None /\ Settled(Url(e))' /\ (~e.global \/ mods'[Url(e)].state = "failed")
  BY <1>3, <1>4
<1> QED BY <1>1, <1>5, <1>6, <1>7 DEF ViewOf

LEMMA QuietPage ==
  ASSUME PageInv, UNCHANGED <<page, view, head>>,
         due' = TRUE \/ (due' = due /\ ImportsCurrent')
  PROVE  PageInv'
<1>1. UNCHANGED <<stream, pushed, tpl, streaming, view, mounted, live, mode>>
  BY DEF page, head
<1>2. PushedOK' /\ ViewsKnown' /\ ModeCurrent'
  BY <1>1 DEF PageInv, PushedOK, ViewsKnown, ModeCurrent, Url
<1>3. MountedWhole'
  BY <1>1 DEF PageInv, MountedWhole, EndBroken, IsWhole
<1>4. HeadCurrent'
  BY <1>1 DEF PageInv, HeadCurrent, Mountable, Partial, Loads
<1>5. ImportsCurrent'
  BY DEF ImportsCurrent
<1> QED BY <1>2, <1>3, <1>4, <1>5 DEF PageInv

(* Nothing that an import depends on has changed.                           *)
LEMMA StillCurrent ==
  ASSUME PageInv, UNCHANGED <<page, view, due, win, ran>>,
         \A v \in Urls : /\ Settled(v)' <=> Settled(v)
                         /\ Settled(v) => mods'[v].state = mods[v].state
  PROVE  ImportsCurrent'
<1>1. streaming' = streaming
  BY DEF page
<1>2. ASSUME NEW e \in DOMAIN view
      PROVE  ViewOf(e)' = ViewOf(e)
  BY <1>1, SameView DEF PageInv, ViewsKnown
<1> QED BY <1>2 DEF PageInv, ImportsCurrent

(* A script defines what the imports that name it have not seen yet.        *)
LEMMA ScriptRunsPage ==
  ASSUME PageInv, NEW s, ScriptRuns(s)
  PROVE  PageInv'
<1>1. /\ ran' = ran \cup {s} /\ win' = win \cup Scripts[s]
      /\ UNCHANGED <<page, due, mods, view, head>>
  BY DEF ScriptRuns
<1>2. streaming' = streaming /\ UNCHANGED <<mods, view, due>>
  BY <1>1 DEF page
<1>3. ASSUME NEW e \in DOMAIN view, e.name \notin Scripts[s]
      PROVE  ViewOf(e)' = ViewOf(e)
  <2>1. e.name \in win' <=> e.name \in win
    BY <1>1, <1>3
  <2>2. \A v \in Urls : /\ Settled(v)' <=> Settled(v)
                        /\ Settled(v) => mods'[v].state = mods[v].state
    BY <1>2 DEF Settled
  <2>3. Url(e) \in Urls \cup {None}
    BY DEF PageInv, ViewsKnown
  <2> QED BY <1>2, <2>1, <2>2, <2>3, SameView
<1>4. ImportsCurrent'
  BY <1>1, <1>2, <1>3 DEF PageInv, ImportsCurrent
<1> QED BY <1>1, <1>4, QuietPage

LEMMA StartPage ==
  ASSUME ModInv, PageInv, NEW u \in Urls, Start(u)
  PROVE  PageInv'
<1>1. /\ mods[u].state = "waiting" /\ mods' = [mods EXCEPT ![u].state = "fetching"]
      /\ UNCHANGED <<page, due, win, view, head, ran>>
  BY DEF Start
<1>2. Moves(u, "fetching") /\ ModulesOK
  BY <1>1 DEF Moves, ModInv
<1>3. mods'[u].state = "fetching" /\ \A v \in Urls \ {u} : mods'[v] = mods[v]
  BY <1>2, MovesEffect
<1>4. \A v \in Urls : /\ Settled(v)' <=> Settled(v)
                      /\ Settled(v) => mods'[v].state = mods[v].state
  BY <1>1, <1>3 DEF Settled
<1>5. ImportsCurrent'
  BY <1>1, <1>4, StillCurrent
<1> QED BY <1>1, <1>5, QuietPage

LEMMA PushPage ==
  ASSUME PageInv, Push
  PROVE  PageInv'
<1> DEFINE c == stream[pushed + 1]
<1>1. /\ stream' = stream /\ pushed' = pushed + 1 /\ due' = TRUE
      /\ tpl' = (IF c.tpl.compiles THEN c.tpl ELSE tpl) /\ streaming' = c.streaming
      /\ mode' = ModeOf(c) /\ UNCHANGED <<view, mounted>>
  BY DEF Push
<1>2. /\ stream \in Streams /\ pushed \in 0..Len(stream) /\ pushed < Len(stream)
      /\ Len(stream) \in Nat
  BY ExternalsAssumption DEF Push, PageInv, PushedOK
<1>3. /\ pushed + 1 \in 0..Len(stream) /\ pushed + 1 \in 1..pushed + 1 /\ pushed + 1 > 0
      /\ \A k \in 1..pushed : k \in 1..pushed + 1
  BY <1>2
<1>4. tpl = NoTpl \/ \E k \in 1..pushed : tpl = stream[k].tpl
  BY DEF PageInv, PushedOK
<1>5. tpl' = NoTpl \/ \E k \in 1..pushed' : tpl' = stream'[k].tpl
  <2>1. CASE c.tpl.compiles
    BY <1>1, <1>3, <2>1
  <2>2. CASE ~c.tpl.compiles
    BY <1>1, <1>3, <1>4, <2>2
  <2> QED BY <2>1, <2>2
<1>6. PushedOK'
  BY <1>1, <1>2, <1>3, <1>5 DEF PushedOK
<1>7. ViewsKnown'
  BY <1>1 DEF PageInv, ViewsKnown, Url
<1>8. (EndBroken => EndBroken') /\ \A key : IsWhole(key) => IsWhole(key)'
  BY <1>1, <1>3 DEF EndBroken, IsWhole
<1>9. MountedWhole'
  BY <1>1, <1>8 DEF PageInv, MountedWhole
<1>10. ModeCurrent'
  BY <1>1 DEF ModeCurrent, ModeOf
<1>11. HeadCurrent' /\ ImportsCurrent'
  BY <1>1 DEF HeadCurrent, ImportsCurrent
<1> QED BY <1>6, <1>7, <1>9, <1>10, <1>11 DEF PageInv

(* Of a template that is not cut off, whatever can be mounted is whole.     *)
LEMMA MountableIsWhole ==
  ASSUME PageInv, NEW i \in Mountable
  PROVE  EndBroken \/ IsWhole(tpl.helmet[i].key)
<1>1. /\ stream \in Streams /\ pushed \in 0..Len(stream)
      /\ pushed = 0 => streaming = FALSE
      /\ pushed > 0 => /\ streaming = stream[pushed].streaming
                       /\ stream[pushed].tpl.compiles => tpl = stream[pushed].tpl
  BY DEF PageInv, PushedOK
<1>2. i \in DOMAIN tpl.helmet /\ ~Partial(i)
  BY DEF Mountable
<1>3. tpl # NoTpl
  BY <1>2 DEF NoTpl
<1>4. PICK k \in 1..pushed : tpl = stream[k].tpl
  BY <1>3 DEF PageInv, PushedOK
<1>5. /\ k \in DOMAIN stream /\ pushed \in DOMAIN stream /\ pushed > 0
      /\ pushed \in 1..pushed
  <2>1. DOMAIN stream = 1..Len(stream) /\ Len(stream) \in Nat
    BY <1>1, ExternalsAssumption
  <2> QED BY <1>1, <1>4, <2>1
<1>6. CASE tpl.helmet[i].whole
  BY <1>2, <1>4, <1>6 DEF IsWhole
<1>7. CASE ~tpl.helmet[i].whole
  <2>1. ~tpl.closed /\ i = Len(tpl.helmet)
    BY <1>1, <1>2, <1>4, <1>5, <1>7, CutAssumption
  <2>2. ~streaming
    BY <1>2, <2>1 DEF Partial
  <2>3. ~stream[pushed].streaming
    BY <1>1, <1>5, <2>2
  <2>4. stream[pushed].tpl.compiles => FALSE
    <3> SUFFICES ASSUME stream[pushed].tpl.compiles PROVE FALSE
      OBVIOUS
    <3>1. tpl = stream[pushed].tpl
      BY <1>1, <1>5
    <3>2. stream[pushed].streaming
      BY <1>1, <1>2, <1>5, <1>7, <3>1, CutAssumption
    <3> QED BY <2>3, <3>2
  <2> QED BY <1>5, <2>3, <2>4 DEF EndBroken
<1> QED BY <1>6, <1>7

LEMMA RenderPage ==
  ASSUME PageInv, Render
  PROVE  PageInv'
<1>1. /\ due' = FALSE /\ view' = [e \in Range(tpl.elems) |-> ViewOf(e)]
      /\ mounted' = mounted \cup {tpl.helmet[i].key : i \in Mountable}
      /\ UNCHANGED <<page, mods, win, ran, mode>>
  BY DEF Render, RenderHelmet
<1>2. UNCHANGED <<stream, pushed, tpl, streaming, mods, win, mode>>
  BY <1>1 DEF page
<1>3. PushedOK' /\ ModeCurrent'
  BY <1>2 DEF PageInv, PushedOK, ModeCurrent
<1>4. ASSUME NEW e \in Range(tpl.elems)
      PROVE  Url(e) \in Urls \cup {None}
  <2>1. tpl # NoTpl
    BY <1>4 DEF NoTpl, Range
  <2>2. PICK k \in 1..pushed : tpl = stream[k].tpl
    BY <2>1 DEF PageInv, PushedOK
  <2>3. stream \in Streams /\ k \in 1..Len(stream)
    <3>1. stream \in Streams /\ pushed \in 0..Len(stream) /\ Len(stream) \in Nat
      BY ExternalsAssumption DEF PageInv, PushedOK
    <3> QED BY <2>2, <3>1
  <2>4. e.urls \in Seq(Urls)
    BY <1>4, <2>2, <2>3, ChunksReadable DEF Readable
  <2>5. e.urls # << >> => Last(e.urls) \in Urls
    <3> DEFINE us == e.urls
    <3>1. us \in Seq(Urls)
      BY <2>4
    <3> HIDE DEF us
    <3>2. us # << >> => Len(us) \in 1..Len(us)
      BY <3>1
    <3>3. us # << >> => Last(us) \in Urls
      BY <3>1, <3>2 DEF Last
    <3> QED BY <3>3 DEF us
  <2> QED BY <2>5 DEF Url
<1>5. ViewsKnown'
  BY <1>1, <1>4 DEF ViewsKnown, Url
<1>6. ImportsCurrent'
  <2>1. ASSUME NEW e \in Range(tpl.elems)
        PROVE  view'[e] = ViewOf(e)'
    <3>1. ViewOf(e)' = ViewOf(e)
      BY <1>2, <1>4, SameView DEF Settled
    <3> QED BY <1>1, <3>1
  <2> QED BY <1>1, <2>1 DEF ImportsCurrent
<1>7. MountedWhole'
  <2>1. (EndBroken => EndBroken') /\ \A key : IsWhole(key) => IsWhole(key)'
    BY <1>2 DEF EndBroken, IsWhole
  <2>2. EndBroken \/ \A key \in mounted' : IsWhole(key)
    BY <1>1, MountableIsWhole DEF PageInv, MountedWhole
  <2> QED BY <2>1, <2>2 DEF MountedWhole
<1>8. HeadCurrent'
  <2> DEFINE own == {i \in DOMAIN tpl.helmet : ~Loads(tpl.helmet[i])}
  <2>1. live' = [i \in DOMAIN live \cup own |->
                   IF i \in own THEN tpl.helmet[i].key ELSE live[i]]
    BY DEF Render, RenderHelmet
  <2>2. Mountable' = Mountable
    BY <1>2 DEF Mountable, Partial, Loads
  <2>3. ASSUME NEW i \in DOMAIN tpl.helmet
        PROVE  /\ i \in Mountable => tpl.helmet[i].key \in mounted'
               /\ ~Loads(tpl.helmet[i]) => i \in DOMAIN live' /\ live'[i] = tpl.helmet[i].key
    BY <1>1, <2>1
  <2> QED BY <1>2, <2>2, <2>3 DEF HeadCurrent, Loads
<1> QED BY <1>3, <1>5, <1>6, <1>7, <1>8 DEF PageInv

LEMMA StepPage ==
  ASSUME ModInv, PageInv, Next
  PROVE  PageInv'
<1>1. ASSUME UNCHANGED <<page, view, head>>, due' = TRUE
      PROVE  PageInv'
  BY <1>1, QuietPage
<1>2. ASSUME UNCHANGED <<page, view, head, due, mods, win, ran>>
      PROVE  PageInv'
  <2>1. ImportsCurrent'
    BY <1>2, StillCurrent DEF Settled
  <2> QED BY <1>2, <2>1, QuietPage
<1>3. CASE Push
  BY <1>3, PushPage
<1>4. CASE Render
  BY <1>4, RenderPage
<1>5. CASE \E o \in {"ready", "failed"} : BabelSettles(o)
  BY <1>2, <1>5 DEF BabelSettles
<1>6. ASSUME NEW u \in Urls, Start(u)
      PROVE  PageInv'
  BY <1>6, StartPage
<1>7. ASSUME NEW u \in Urls, Arrives(u) \/ LoadFails(u)
      PROVE  PageInv'
  BY <1>1, <1>7 DEF Arrives, LoadFails
<1>8. ASSUME NEW n, Tick(n)
      PROVE  PageInv'
  <2>1. UNCHANGED <<page, view, head, mods, win, ran>> /\ (due' = TRUE \/ due' = due)
    BY <1>8 DEF Tick
  <2> QED BY <1>1, <1>2, <2>1
<1>9. CASE \E s \in mounted : ScriptRuns(s)
  BY <1>9, ScriptRunsPage
<1> QED BY <1>3, <1>4, <1>5, <1>6, <1>7, <1>8, <1>9 DEF Next

LEMMA InitInv == Init => ModInv /\ PageInv
<1> SUFFICES ASSUME Init PROVE ModInv /\ PageInv
  OBVIOUS
<1>1. /\ stream \in Streams /\ pushed = 0 /\ tpl = NoTpl /\ streaming = FALSE
      /\ mods = [u \in Urls |-> NotLoaded] /\ babel = "none" /\ evals = << >>
      /\ view = << >> /\ mounted = {}
  BY DEF Init
<1>2. /\ ModulesOK /\ Range(evals) = {} /\ IsInjective(evals)
  BY <1>1 DEF ModulesOK, Modules, NotLoaded, Range, IsInjective
<1>3. FreshNotRun /\ EvaluatedOnce /\ InTurn
  BY <1>1, <1>2 DEF FreshNotRun, EvaluatedOnce, InTurn, NotLoaded
<1>4. PushedOK
  <2>1. Len(stream) \in Nat
    BY <1>1, ExternalsAssumption
  <2> QED BY <1>1, <2>1 DEF PushedOK
<1>5. DOMAIN view = {} /\ DOMAIN tpl.helmet = {}
  BY <1>1 DEF NoTpl
<1>6. ViewsKnown /\ ImportsCurrent
  BY <1>5 DEF ViewsKnown, ImportsCurrent
<1>7. MountedWhole /\ HeadCurrent /\ ModeCurrent
  BY <1>1, <1>5 DEF MountedWhole, HeadCurrent, ModeCurrent
<1> QED BY <1>2, <1>3, <1>4, <1>6, <1>7 DEF ModInv, PageInv

THEOREM ExternalsInvariant == Spec => [](ModInv /\ PageInv)
<1>1. ModInv /\ PageInv /\ [Next]_vars => (ModInv /\ PageInv)'
  <2>1. CASE Next
    BY <2>1, StepMods, StepPage DEF PageInv
  <2>2. CASE UNCHANGED vars
    <3>1. UNCHANGED <<mods, babel, evals>>
      BY <2>2 DEF vars
    <3>2. ModInv => ModInv'
      BY <3>1 DEF ModInv, ModulesOK, FreshNotRun, EvaluatedOnce, InTurn, Clear, Settled
    <3>3. UNCHANGED <<page, view, head, due, mods, win, ran>>
      BY <2>2 DEF vars
    <3>4. PageInv => PageInv'
      BY <3>3, StillCurrent, QuietPage DEF Settled
    <3> QED BY <3>2, <3>4
  <2> QED BY <2>1, <2>2
<1> QED BY <1>1, InitInv, PTL DEF Spec

-----------------------------------------------------------------------------
(* What follows.                                                            *)

(* A module is evaluated at most once, however many templates name it and   *)
(* whenever they arrive (load, `pending').                                  *)
THEOREM ModulesRunOnce == Spec => []EvaluatedOnce
<1>1. ModInv => EvaluatedOnce
  BY DEF ModInv
<1> QED BY <1>1, ExternalsInvariant, PTL

(* A module is fetched only when all that come before it, directly or not,  *)
(* have settled, unless one of those is a jsx module and Babel failed to    *)
(* load (load, `after').                                                    *)
THEOREM ListsKeepOrder == Spec => []OrderKept
<1>1. ModInv => OrderKept
  BY TurnsKeepOrder
<1> QED BY <1>1, ExternalsInvariant, PTL

(* A page that is not due shows every import as it stands, but for globals  *)
(* that scripts define on their own (onResolved, resolve, resolveGlobal).   *)
THEOREM ImportsAreCurrent == Spec => []ImportsCurrent
<1>1. PageInv => ImportsCurrent
  BY DEF PageInv
<1> QED BY <1>1, ExternalsInvariant, PTL

(* The head of the document gets whole scripts and links only, and all of   *)
(* them once the stream has ended (createHelmetManager; updateHtml).        *)
THEOREM HelmetsAreApplied == Spec => []HelmetApplied
<1>1. ASSUME PageInv
      PROVE  HelmetApplied
  <2>1. /\ stream \in Streams /\ pushed \in 0..Len(stream)
        /\ Len(stream) \in Nat /\ DOMAIN stream = 1..Len(stream)
    BY <1>1, ExternalsAssumption DEF PageInv, PushedOK
  <2>2. ASSUME NEW k \in 1..pushed, NEW i \in DOMAIN stream[k].tpl.helmet,
               ~stream[k].tpl.helmet[i].whole, stream[k].tpl.helmet[i].key \in mounted
        PROVE  EndBroken
    <3> SUFFICES ASSUME ~EndBroken PROVE FALSE
      OBVIOUS
    <3>1. IsWhole(stream[k].tpl.helmet[i].key)
      BY <1>1, <2>2 DEF PageInv, MountedWhole
    <3>2. PICK l \in 1..pushed : \E j \in DOMAIN stream[l].tpl.helmet :
            /\ stream[l].tpl.helmet[j].whole
            /\ stream[l].tpl.helmet[j].key = stream[k].tpl.helmet[i].key
      BY <3>1 DEF IsWhole
    <3>3. k \in DOMAIN stream /\ l \in DOMAIN stream
      BY <2>1
    <3> QED BY <2>1, <2>2, <3>2, <3>3, CutAssumption
  <2>3. ASSUME ~streaming, ~due, NEW i \in DOMAIN tpl.helmet
        PROVE  IF Loads(tpl.helmet[i]) THEN tpl.helmet[i].key \in mounted
               ELSE i \in DOMAIN live /\ live[i] = tpl.helmet[i].key
    <3>1. Loads(tpl.helmet[i]) => i \in Mountable
      BY <2>3 DEF Mountable, Partial
    <3> QED BY <1>1, <2>3, <3>1 DEF PageInv, HeadCurrent
  <2>4. pushed > 0 /\ ~streaming => mode = stream[pushed].tpl.mode
    BY <1>1 DEF PageInv, ModeCurrent
  <2> QED BY <2>2, <2>3, <2>4 DEF HelmetApplied, EndBroken
<1> QED BY <1>1, ExternalsInvariant, PTL
=============================================================================
