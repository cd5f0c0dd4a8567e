---------------------------- MODULE SessionProofs ----------------------------
(***************************************************************************)
(* What the retry of an expired token and the table of tokens keep, for any *)
(* number of pages and calls and any TTL: Session's safety properties.      *)
(***************************************************************************)
EXTENDS Session, SequenceTheorems, TLAPS

-----------------------------------------------------------------------------
(* The inductive invariant.                                                 *)

LoginRecords == [state : LoginStates, expires : Nat]

(* How far call c has come on the page tells what the server has of it.     *)
CallInv(c) ==
  /\ call[c].pc # "idle" => call[c].login \in 1..Len(login[PageOf[c]])
  /\ applied[c] = IF wire[c] = "answered" THEN 1 ELSE 0
  /\ sends[c] <= 2
  /\ call[c].pc = "idle" => wire[c] = "none" /\ sends[c] = 0
  /\ call[c].pc = "token" =>
       IF call[c].retried THEN wire[c] = "refused" /\ sends[c] = 1
                          ELSE wire[c] = "none" /\ sends[c] = 0
  /\ call[c].pc = "waiting" =>
       wire[c] # "none" /\ sends[c] = IF call[c].retried THEN 2 ELSE 1
  /\ call[c].pc = "done" => wire[c] = "answered"

(* A request carries the token of a login that succeeded.                   *)
Succeeded(r) == r.state = "ok"

SentWithToken == \A c \in Calls : wire[c] = "sent" => Succeeded(LoginOf(c))

(* The token of a login stays stored until it expires.                      *)
Live(r) == r.state \in {"served", "ok"} /\ r.expires > now

TokensKept ==
  \A p \in Pages : \A n \in 1..Len(login[p]) : Live(login[p][n]) => <<p, n>> \in tokens

IndInv ==
  /\ TypeOK /\ SentWithToken /\ TokensKept
  /\ \A c \in Calls : CallInv(c)

-----------------------------------------------------------------------------
(* How the list of logins changes.                                          *)

LEMMA LoginTypes ==
  ASSUME TypeOK
  PROVE  /\ login \in [Pages -> Seq(LoginRecords)]
         /\ \A p \in Pages : Len(login[p]) \in Nat /\ DOMAIN login[p] = 1..Len(login[p])
         /\ \A p \in Pages : \A n \in 1..Len(login[p]) : login[p][n] \in LoginRecords
<1>1. login \in [Pages -> Seq(LoginRecords)]
  BY DEF TypeOK, LoginRecords
<1>2. ASSUME NEW p \in Pages
      PROVE  /\ Len(login[p]) \in Nat /\ DOMAIN login[p] = 1..Len(login[p])
             /\ \A n \in 1..Len(login[p]) : login[p][n] \in LoginRecords
  <2>1. login[p] \in Seq(LoginRecords)
    BY <1>1
  <2> QED BY <2>1, LenProperties, ElementOfSeq
<1> QED BY <1>1, <1>2

(* A page starts a login: the earlier ones stay.                            *)
LEMMA LoginAppend ==
  ASSUME TypeOK, NEW p \in Pages, login' = [login EXCEPT ![p] = Append(@, NewLogin)]
  PROVE  /\ login' \in [Pages -> Seq(LoginRecords)]
         /\ \A q \in Pages : Len(login'[q]) = IF q = p THEN Len(login[q]) + 1
                                                       ELSE Len(login[q])
         /\ \A q \in Pages : \A m \in 1..Len(login[q]) : login'[q][m] = login[q][m]
         /\ login'[p][Len(login[p]) + 1] = NewLogin
<1> DEFINE s == Append(login[p], NewLogin)
<1>1. NewLogin \in LoginRecords /\ login[p] \in Seq(LoginRecords)
  BY LoginTypes DEF NewLogin, LoginRecords, LoginStates
<1>2. /\ s \in Seq(LoginRecords) /\ Len(s) = Len(login[p]) + 1
      /\ \A m \in 1..Len(login[p]) : s[m] = login[p][m]
      /\ s[Len(login[p]) + 1] = NewLogin
  BY <1>1, AppendProperties
<1> HIDE DEF s
<1>3. login' = [login EXCEPT ![p] = s]
  BY DEF s
<1>4. \A q \in Pages : login'[q] = IF q = p THEN s ELSE login[q]
  BY <1>3, LoginTypes
<1> QED BY <1>2, <1>3, <1>4, LoginTypes

-----------------------------------------------------------------------------
(* The steps of a login.                                                    *)

(* A login that has not succeeded yet moves on: the calls and the tokens    *)
(* that are in use stay as they are.                                        *)
LEMMA LoginStepKeeps ==
  ASSUME IndInv, NEW p \in Pages, NEW n \in 1..Len(login[p]), NEW r \in LoginRecords,
         login' = [login EXCEPT ![p][n] = r]
  PROVE  /\ ~ Succeeded(login[p][n])
         /\ tokens' \subseteq tokens \cup {<<p, n>>}
         /\ \A t \in tokens : Live(login[t[1]][t[2]]) => t \in tokens'
         /\ Live(r) => <<p, n>> \in tokens'
         /\ promise' = promise \/ promise' = [promise EXCEPT ![p] = 0]
         /\ UNCHANGED <<now, call, wire, sends, applied>>
         => IndInv'
<1>1. TypeOK /\ \A c \in Calls : PageOf[c] \in Pages
  BY SessionAssumption DEF IndInv
<1>2. /\ login' \in [Pages -> Seq(LoginRecords)]
      /\ \A q \in Pages : Len(login'[q]) = Len(login[q])
      /\ \A q \in Pages : \A m \in 1..Len(login[q]) :
           login'[q][m] = IF q = p /\ m = n THEN r ELSE login[q][m]
  <2> DEFINE s == [login[p] EXCEPT ![n] = r]
  <2>1. login[p] \in Seq(LoginRecords)
    BY <1>1, LoginTypes
  <2>2. /\ s \in Seq(LoginRecords) /\ Len(s) = Len(login[p])
        /\ \A m \in 1..Len(login[p]) : s[m] = IF m = n THEN r ELSE login[p][m]
    BY <2>1, ExceptSeq
  <2>3. login' = [login EXCEPT ![p] = s]
    OBVIOUS
  <2> HIDE DEF s
  <2>4. \A q \in Pages : login'[q] = IF q = p THEN s ELSE login[q]
    BY <1>1, <2>3, LoginTypes
  <2> QED BY <1>1, <2>2, <2>3, <2>4, LoginTypes
<1> SUFFICES ASSUME ~ Succeeded(login[p][n]),
                    tokens' \subseteq tokens \cup {<<p, n>>},
                    \A t \in tokens : Live(login[t[1]][t[2]]) => t \in tokens',
                    Live(r) => <<p, n>> \in tokens',
                    promise' = promise \/ promise' = [promise EXCEPT ![p] = 0],
                    UNCHANGED <<now, call, wire, sends, applied>>
             PROVE  IndInv'
  OBVIOUS
<1>3. TypeOK'
  <2>1. promise' \in [Pages -> Nat] /\ \A q \in Pages : promise'[q] <= Len(login'[q])
    BY <1>1, <1>2, LoginTypes DEF TypeOK
  <2>2. tokens' \subseteq Pages \X Nat /\ \A t \in tokens' : t[2] \in 1..Len(login'[t[1]])
    <3>1. \A t \in tokens \cup {<<p, n>>} :
            t \in Pages \X Nat /\ t[2] \in 1..Len(login[t[1]])
      BY <1>1 DEF TypeOK
    <3> QED BY <1>2, <3>1
  <2> QED BY <1>1, <1>2, <2>1, <2>2 DEF TypeOK, LoginRecords
<1>4. TokensKept'
  <2> SUFFICES ASSUME NEW q \in Pages, NEW m \in 1..Len(login[q]), Live(login'[q][m])
               PROVE  <<q, m>> \in tokens'
    BY <1>2 DEF TokensKept, Live
  <2>1. CASE q = p /\ m = n
    BY <1>2, <2>1
  <2>2. CASE ~ (q = p /\ m = n)
    <3>1. login'[q][m] = login[q][m] /\ <<q, m>> \in tokens
      BY <1>2, <2>2 DEF IndInv, TokensKept
    <3>2. Live(login[q][m])
      BY <3>1
    <3> QED BY <3>1, <3>2
  <2> QED BY <2>1, <2>2
<1>5. ASSUME NEW c \in Calls PROVE CallInv(c)'
  BY <1>1, <1>2 DEF IndInv, CallInv
<1>6. SentWithToken'
  <2> SUFFICES ASSUME NEW c \in Calls, wire[c] = "sent"
               PROVE  Succeeded(login'[PageOf[c]][call[c].login])
    BY DEF SentWithToken, LoginOf
  <2>1. call[c].login \in 1..Len(login[PageOf[c]])
    BY DEF IndInv, CallInv
  <2>2. Succeeded(login[PageOf[c]][call[c].login])
    BY DEF IndInv, SentWithToken, Succeeded, LoginOf
  <2> QED BY <1>1, <1>2, <2>1, <2>2
<1> QED BY <1>3, <1>4, <1>5, <1>6 DEF IndInv

LEMMA LoginServedKeeps ==
  ASSUME IndInv, NEW p \in Pages, NEW n \in 1..Len(login[p]), LoginServed(p, n)
  PROVE  IndInv'
<1>1. [state |-> "served", expires |-> now + TTL] \in LoginRecords
  BY SessionAssumption DEF IndInv, TypeOK, LoginRecords, LoginStates, LoginServed
<1>2. \A t \in tokens : Live(login[t[1]][t[2]]) => t \in tokens'
  BY DEF LoginServed, KeptTokens, Live
<1>3. tokens' \subseteq tokens \cup {<<p, n>>} /\ <<p, n>> \in tokens'
  BY DEF LoginServed, KeptTokens
<1> QED BY <1>1, <1>2, <1>3, LoginStepKeeps DEF LoginServed, Succeeded

LEMMA LoginArrivesKeeps ==
  ASSUME IndInv, NEW p \in Pages, NEW n \in 1..Len(login[p]), LoginArrives(p, n)
  PROVE  IndInv'
<1> DEFINE r == [login[p][n] EXCEPT !.state = "ok"]
<1>1. login[p][n] \in LoginRecords
  BY LoginTypes DEF IndInv, LoginArrives
<1>2. r \in LoginRecords /\ r.state = "ok" /\ r.expires = login[p][n].expires
  BY <1>1 DEF LoginRecords, LoginStates, LoginArrives
<1>3. Live(r) => <<p, n>> \in tokens
  BY <1>2 DEF IndInv, TokensKept, LoginArrives, Live
<1> QED BY <1>2, <1>3, LoginStepKeeps DEF LoginArrives, Succeeded

LEMMA LoginFailsKeeps ==
  ASSUME IndInv, NEW p \in Pages, NEW n \in 1..Len(login[p]), LoginFails(p, n)
  PROVE  IndInv'
<1> DEFINE r == [login[p][n] EXCEPT !.state = "failed"]
<1>1. login[p][n] \in LoginRecords
  BY LoginTypes DEF IndInv, LoginFails
<1>2. r \in LoginRecords /\ r.state = "failed"
  BY <1>1 DEF LoginRecords, LoginStates, LoginFails
<1> QED BY <1>2, LoginStepKeeps DEF LoginFails, Succeeded, Live

-----------------------------------------------------------------------------
(* The steps of a call.                                                     *)

(* Waiting for a token starts at most one login and leaves the other calls  *)
(* alone.                                                                   *)
LEMMA AwaitTokenEffect ==
  ASSUME IndInv, NEW c \in Calls, NEW held \in {0, promise[PageOf[c]]},
         NEW retried \in BOOLEAN, AwaitToken(c, held, retried),
         UNCHANGED <<server, wire, sends, applied>>
  PROVE  /\ TypeOK' /\ TokensKept'
         /\ call'[c].pc = "token" /\ call'[c].retried = retried
         /\ call'[c].login \in 1..Len(login'[PageOf[c]])
         /\ \A d \in Calls \ {c} : call'[d] = call[d]
         /\ \A q \in Pages : Len(login[q]) <= Len(login'[q])
         /\ \A q \in Pages : \A m \in 1..Len(login[q]) : login'[q][m] = login[q][m]
<1> DEFINE p == PageOf[c]
           n == IF held = 0 THEN Len(login[p]) + 1 ELSE held
<1>1. TypeOK /\ p \in Pages /\ Len(login[p]) \in Nat
  BY SessionAssumption, LoginTypes DEF IndInv
<1>2. /\ promise' = [promise EXCEPT ![p] = n]
      /\ call' = [call EXCEPT ![c] = [pc |-> "token", login |-> n, retried |-> retried]]
      /\ login' = IF held = 0 THEN [login EXCEPT ![p] = Append(@, NewLogin)] ELSE login
  BY DEF AwaitToken
<1>3. held \in 0..Len(login[p])
  BY <1>1 DEF TypeOK
<1>4. /\ login' \in [Pages -> Seq(LoginRecords)]
      /\ \A q \in Pages : Len(login'[q]) \in Nat /\ Len(login[q]) <= Len(login'[q])
      /\ \A q \in Pages : \A m \in 1..Len(login[q]) : login'[q][m] = login[q][m]
      /\ n \in 1..Len(login'[p])
      /\ \A q \in Pages : \A m \in 1..Len(login'[q]) :
           m \in 1..Len(login[q]) \/ login'[q][m].state = "sent"
  <2>1. CASE held = 0
    <3>1. login' = [login EXCEPT ![p] = Append(@, NewLogin)] /\ n = Len(login[p]) + 1
      BY <1>2, <2>1
    <3> HIDE DEF p, n
    <3>2. /\ login' \in [Pages -> Seq(LoginRecords)]
          /\ \A q \in Pages : Len(login'[q]) = IF q = p THEN Len(login[q]) + 1
                                                        ELSE Len(login[q])
          /\ \A q \in Pages : \A m \in 1..Len(login[q]) : login'[q][m] = login[q][m]
          /\ login'[p][Len(login[p]) + 1].state = "sent"
      <4>1. login' = [login EXCEPT ![p] = Append(@, NewLogin)]
        BY <3>1
      <4>2. NewLogin.state = "sent"
        BY DEF NewLogin
      <4> QED BY <1>1, <4>1, <4>2, LoginAppend
    <3>3. \A q \in Pages : Len(login[q]) \in Nat
      BY <1>1, LoginTypes
    <3> QED BY <1>1, <3>1, <3>2, <3>3
  <2>2. CASE held # 0
    <3>1. login' = login /\ n = held
      BY <1>2, <2>2
    <3> HIDE DEF p, n
    <3> QED BY <1>1, <1>3, <2>2, <3>1, LoginTypes
  <2> QED BY <2>1, <2>2
<1> HIDE DEF n
<1>5. TypeOK'
  <2>1. promise' \in [Pages -> Nat] /\ \A q \in Pages : promise'[q] <= Len(login'[q])
    BY <1>1, <1>2, <1>4, LoginTypes DEF TypeOK
  <2>2. /\ call' \in [Calls -> [pc : CallSteps, login : Nat, retried : BOOLEAN]]
        /\ \A d \in Calls : call'[d].login <= Len(login'[PageOf[d]])
    <3>1. [pc |-> "token", login |-> n, retried |-> retried]
            \in [pc : CallSteps, login : Nat, retried : BOOLEAN]
      BY <1>4 DEF CallSteps
    <3>2. \A d \in Calls : /\ PageOf[d] \in Pages /\ call[d].login \in Nat
                           /\ call[d].login <= Len(login[PageOf[d]])
      BY <1>1, SessionAssumption DEF TypeOK
    <3>3. \A d \in Calls : call'[d].login = IF d = c THEN n ELSE call[d].login
      BY <1>1, <1>2 DEF TypeOK
    <3>4. \A d \in Calls : call'[d].login <= Len(login'[PageOf[d]])
      <4> SUFFICES ASSUME NEW d \in Calls
                   PROVE  call'[d].login <= Len(login'[PageOf[d]])
        OBVIOUS
      <4>1. Len(login[PageOf[d]]) \in Nat /\ Len(login'[PageOf[d]]) \in Nat
        BY <1>1, <1>4, <3>2, LoginTypes
      <4> QED BY <1>4, <3>2, <3>3, <4>1
    <3> QED BY <1>1, <1>2, <3>1, <3>4 DEF TypeOK
  <2>3. \A t \in tokens' : t[2] \in 1..Len(login'[t[1]])
    <3>1. \A t \in tokens : t[1] \in Pages /\ t[2] \in 1..Len(login[t[1]])
      BY <1>1 DEF TypeOK
    <3> QED BY <1>1, <1>4, <3>1, LoginTypes DEF server
  <2> QED BY <1>1, <1>4, <2>1, <2>2, <2>3 DEF TypeOK, server, LoginRecords
<1>6. TokensKept'
  BY <1>1, <1>4 DEF IndInv, TokensKept, Live, server
<1> QED BY <1>1, <1>2, <1>4, <1>5, <1>6 DEF TypeOK

(* A call that waits for a token, for the first or the second time.         *)
LEMMA AwaitTokenKeeps ==
  ASSUME IndInv, NEW c \in Calls, NEW held \in {0, promise[PageOf[c]]},
         NEW retried \in BOOLEAN, AwaitToken(c, held, retried),
         UNCHANGED <<server, wire, sends, applied>>,
         IF retried THEN wire[c] = "refused" /\ sends[c] = 1
                    ELSE wire[c] = "none" /\ sends[c] = 0
  PROVE  IndInv'
<1>1. /\ TypeOK' /\ TokensKept'
      /\ call'[c].pc = "token" /\ call'[c].retried = retried
      /\ call'[c].login \in 1..Len(login'[PageOf[c]])
      /\ \A d \in Calls \ {c} : call'[d] = call[d]
      /\ \A q \in Pages : Len(login[q]) <= Len(login'[q])
      /\ \A q \in Pages : \A m \in 1..Len(login[q]) : login'[q][m] = login[q][m]
  BY AwaitTokenEffect
<1>2. \A d \in Calls : PageOf[d] \in Pages
  BY SessionAssumption
<1>3. \A q \in Pages : Len(login[q]) \in Nat /\ Len(login'[q]) \in Nat
  <2>1. login' \in [Pages -> Seq([state : LoginStates, expires : Nat])]
    BY <1>1 DEF TypeOK
  <2> QED BY <2>1, LoginTypes, LenProperties DEF IndInv
<1>4. ASSUME NEW d \in Calls PROVE CallInv(d)'
  <2>1. CallInv(d)
    BY DEF IndInv
  <2>2. CASE d = c
    BY <1>1, <2>1, <2>2 DEF CallInv
  <2>3. CASE d # c
    <3>1. call'[d] = call[d]
      BY <1>1, <2>3
    <3>2. call'[d].pc # "idle" => call'[d].login \in 1..Len(login'[PageOf[d]])
      BY <1>1, <1>2, <1>3, <2>1, <3>1 DEF CallInv
    <3> QED BY <2>1, <3>1, <3>2 DEF CallInv
  <2> QED BY <2>2, <2>3
<1>5. SentWithToken'
  <2> SUFFICES ASSUME NEW d \in Calls, wire'[d] = "sent"
               PROVE  Succeeded(login'[PageOf[d]][call'[d].login])
    BY DEF SentWithToken, LoginOf
  <2>1. d # c /\ wire[d] = "sent"
    OBVIOUS
  <2>2. call'[d] = call[d] /\ call[d].login \in 1..Len(login[PageOf[d]])
    BY <1>1, <2>1 DEF IndInv, CallInv
  <2>3. Succeeded(login[PageOf[d]][call[d].login])
    BY <2>1 DEF IndInv, SentWithToken, Succeeded, LoginOf
  <2> QED BY <1>1, <1>2, <2>2, <2>3
<1> QED BY <1>1, <1>4, <1>5 DEF IndInv

LEMMA BeginKeeps ==
  ASSUME IndInv, NEW c \in Calls, Begin(c)
  PROVE  IndInv'
<1>1. wire[c] = "none" /\ sends[c] = 0
  BY DEF Begin, IndInv, CallInv
<1>2. /\ AwaitToken(c, promise[PageOf[c]], FALSE)
      /\ UNCHANGED <<server, wire, sends, applied>>
  BY DEF Begin
<1> QED BY <1>1, <1>2, AwaitTokenKeeps

(* A step of call c that changes neither logins nor tokens, and leaves the  *)
(* call with the login it has.                                              *)
LEMMA CallStepKeeps ==
  ASSUME IndInv, NEW c \in Calls, NEW pc \in CallSteps \ {"idle"}, NEW w \in WireStates,
         NEW s \in Nat, NEW a \in Nat, call[c].pc # "idle",
         call' = [call EXCEPT ![c].pc = pc], wire' = [wire EXCEPT ![c] = w],
         sends' = [sends EXCEPT ![c] = s], applied' = [applied EXCEPT ![c] = a],
         UNCHANGED <<server, login, promise>>,
         w = "sent" => Succeeded(LoginOf(c)),
         CallInv(c)'
  PROVE  IndInv'
<1>1. TypeOK
  BY DEF IndInv
<1>2. /\ call'[c].login = call[c].login
      /\ \A d \in Calls \ {c} : call'[d] = call[d]
      /\ \A d \in Calls : call'[d].login = call[d].login
      /\ call' \in [Calls -> [pc : CallSteps, login : Nat, retried : BOOLEAN]]
  BY <1>1 DEF TypeOK
<1>3. TypeOK'
  BY <1>1, <1>2 DEF TypeOK, server
<1>4. \A d \in Calls \ {c} : /\ wire'[d] = wire[d] /\ sends'[d] = sends[d]
                             /\ applied'[d] = applied[d]
  BY <1>1 DEF TypeOK
<1>5. ASSUME NEW d \in Calls PROVE CallInv(d)'
  BY <1>2, <1>4 DEF IndInv, CallInv
<1>6. SentWithToken'
  BY <1>1, <1>2 DEF TypeOK, IndInv, SentWithToken, LoginOf
<1>7. TokensKept'
  BY DEF IndInv, TokensKept, Live, server
<1> QED BY <1>3, <1>5, <1>6, <1>7 DEF IndInv

(* A value that is written back changes nothing.                            *)
LEMMA SameValue ==
  ASSUME TypeOK, NEW c \in Calls
  PROVE  /\ wire = [wire EXCEPT ![c] = wire[c]] /\ wire[c] \in WireStates
         /\ sends = [sends EXCEPT ![c] = sends[c]] /\ sends[c] \in Nat
         /\ applied = [applied EXCEPT ![c] = applied[c]] /\ applied[c] \in Nat
         /\ call = [call EXCEPT ![c].pc = call[c].pc] /\ call[c].pc \in CallSteps
         /\ call[c].retried \in BOOLEAN
BY DEF TypeOK

LEMMA SendKeeps ==
  ASSUME IndInv, NEW c \in Calls, Send(c)
  PROVE  IndInv'
<1>1. TypeOK /\ CallInv(c) /\ call[c].pc = "token"
  BY DEF IndInv, Send
<1>2. call'[c] = [call[c] EXCEPT !.pc = "waiting"] /\ login' = login
      /\ wire'[c] = "sent" /\ sends'[c] = sends[c] + 1 /\ applied'[c] = applied[c]
  BY <1>1 DEF Send, TypeOK
<1>3. CallInv(c)'
  BY <1>1, <1>2, SameValue DEF CallInv, TypeOK
<1>4. /\ applied' = [applied EXCEPT ![c] = applied[c]] /\ sends[c] + 1 \in Nat
      /\ applied[c] \in Nat
  BY <1>1, SameValue DEF Send
<1> QED BY <1>1, <1>3, <1>4, CallStepKeeps DEF Send, Succeeded, CallSteps, WireStates

(* The page ends call c: it fails or, once answered, is done.               *)
LEMMA EndKeeps ==
  ASSUME IndInv, NEW c \in Calls, NEW pc \in {"done", "failed"},
         pc = "done" => wire[c] = "answered", call[c].pc # "idle",
         call' = [call EXCEPT ![c].pc = pc],
         UNCHANGED <<server, login, promise, wire, sends, applied>>
  PROVE  IndInv'
<1>1. TypeOK /\ CallInv(c)
  BY DEF IndInv
<1>2. call'[c] = [call[c] EXCEPT !.pc = pc]
  BY <1>1 DEF TypeOK
<1>3. CallInv(c)'
  BY <1>1, <1>2 DEF CallInv, TypeOK
<1>4. /\ wire' = [wire EXCEPT ![c] = wire[c]] /\ wire[c] \in WireStates
      /\ sends' = [sends EXCEPT ![c] = sends[c]] /\ sends[c] \in Nat
      /\ applied' = [applied EXCEPT ![c] = applied[c]] /\ applied[c] \in Nat
  BY <1>1, SameValue
<1>5. wire[c] = "sent" => Succeeded(LoginOf(c))
  BY DEF IndInv, SentWithToken, Succeeded
<1>6. pc \in CallSteps \ {"idle"}
  BY DEF CallSteps
<1> QED BY <1>3, <1>4, <1>5, <1>6, CallStepKeeps

LEMMA GiveUpKeeps ==
  ASSUME IndInv, NEW c \in Calls, GiveUp(c)
  PROVE  IndInv'
BY EndKeeps DEF GiveUp

LEMMA ReceiveKeeps ==
  ASSUME IndInv, NEW c \in Calls, Receive(c)
  PROVE  IndInv'
<1>1. CASE wire[c] = "answered"
  BY <1>1, EndKeeps DEF Receive
<1>2. CASE wire[c] = "rejected"
  BY <1>2, EndKeeps DEF Receive
<1> QED BY <1>1, <1>2 DEF Receive

LEMMA LostKeeps ==
  ASSUME IndInv, NEW c \in Calls, Lost(c)
  PROVE  IndInv'
BY EndKeeps DEF Lost

LEMMA RefusedKeeps ==
  ASSUME IndInv, NEW c \in Calls, Refused(c)
  PROVE  IndInv'
<1>1. TypeOK /\ CallInv(c) /\ call[c].pc = "waiting" /\ wire[c] = "refused"
  BY DEF IndInv, Refused
<1>2. CASE call[c].retried
  BY <1>1, <1>2, EndKeeps DEF Refused
<1>3. CASE ~ call[c].retried
  <2>1. AwaitToken(c, 0, TRUE) /\ UNCHANGED <<server, wire, sends, applied>>
    BY <1>3 DEF Refused
  <2>2. sends[c] = 1
    BY <1>1, <1>3 DEF CallInv
  <2> QED BY <1>1, <2>1, <2>2, AwaitTokenKeeps
<1> QED BY <1>2, <1>3

(* The server checks or carries out the request of call c.                  *)
LEMMA AuthenticateKeeps ==
  ASSUME IndInv, NEW c \in Calls, Authenticate(c)
  PROVE  IndInv'
<1>1. TypeOK /\ CallInv(c) /\ wire[c] = "sent"
  BY DEF IndInv, Authenticate
<1> DEFINE w == IF Valid(Token(c)) THEN "checked" ELSE "refused"
<1>2. w \in {"checked", "refused"} /\ wire' = [wire EXCEPT ![c] = w]
  BY DEF Authenticate
<1> HIDE DEF w
<1>3. wire'[c] = w
  BY <1>1, <1>2 DEF TypeOK
<1>4. CallInv(c)'
  BY <1>1, <1>2, <1>3 DEF CallInv, Authenticate
<1>5. /\ call' = [call EXCEPT ![c].pc = call[c].pc]
      /\ sends' = [sends EXCEPT ![c] = sends[c]] /\ sends[c] \in Nat
      /\ applied' = [applied EXCEPT ![c] = applied[c]] /\ applied[c] \in Nat
  BY <1>1, SameValue DEF Authenticate
<1>6. call[c].pc \in CallSteps \ {"idle"} /\ w \in WireStates
  BY <1>1, <1>2, SameValue DEF CallInv, WireStates
<1>7. w # "sent" /\ call[c].pc # "idle" /\ UNCHANGED <<server, login, promise>>
  BY <1>2, <1>6 DEF Authenticate
<1> QED BY <1>2, <1>4, <1>5, <1>6, <1>7, CallStepKeeps

LEMMA HandleKeeps ==
  ASSUME IndInv, NEW c \in Calls, Handle(c)
  PROVE  IndInv'
<1>1. TypeOK /\ CallInv(c) /\ wire[c] = "checked"
  BY DEF IndInv, Handle
<1>2. wire'[c] = "answered" /\ applied'[c] = applied[c] + 1
  BY <1>1 DEF TypeOK, Handle
<1>3. call[c].pc \in {"waiting", "failed"}
  BY <1>1, SameValue DEF CallInv, CallSteps
<1>4. CallInv(c)'
  BY <1>1, <1>2, <1>3 DEF CallInv, Handle
<1>5. /\ call' = [call EXCEPT ![c].pc = call[c].pc]
      /\ sends' = [sends EXCEPT ![c] = sends[c]] /\ sends[c] \in Nat
      /\ applied[c] + 1 \in Nat
  BY <1>1, SameValue DEF Handle
<1>6. call[c].pc \in CallSteps \ {"idle"} /\ "answered" \in WireStates
  BY <1>3 DEF CallSteps, WireStates
<1> QED BY <1>4, <1>5, <1>6, CallStepKeeps DEF Handle

LEMMA RejectKeeps ==
  ASSUME IndInv, NEW c \in Calls, Reject(c)
  PROVE  IndInv'
<1>1. TypeOK /\ CallInv(c) /\ wire[c] = "checked"
  BY DEF IndInv, Reject
<1>2. wire'[c] = "rejected"
  BY <1>1 DEF TypeOK, Reject
<1>3. call[c].pc \in {"waiting", "failed"}
  BY <1>1, SameValue DEF CallInv, CallSteps
<1>4. CallInv(c)'
  BY <1>1, <1>2, <1>3 DEF CallInv, Reject
<1>5. /\ call' = [call EXCEPT ![c].pc = call[c].pc]
      /\ sends' = [sends EXCEPT ![c] = sends[c]] /\ sends[c] \in Nat
      /\ applied' = [applied EXCEPT ![c] = applied[c]] /\ applied[c] \in Nat
  BY <1>1, SameValue DEF Reject
<1>6. call[c].pc \in CallSteps \ {"idle"} /\ "rejected" \in WireStates
  BY <1>3 DEF CallSteps, WireStates
<1> QED BY <1>4, <1>5, <1>6, CallStepKeeps DEF Reject

LEMMA TickKeeps == IndInv /\ Tick => IndInv'
<1> SUFFICES ASSUME IndInv, Tick PROVE IndInv'
  OBVIOUS
<1>1. TypeOK'
  <2>1. now' \in 0..MaxTime
    BY SessionAssumption DEF IndInv, TypeOK, Tick
  <2> QED BY <2>1 DEF IndInv, TypeOK, Tick
<1>2. TokensKept'
  <2>1. \A p \in Pages : \A n \in 1..Len(login[p]) : login[p][n].expires \in Nat
    BY LoginTypes DEF IndInv, LoginRecords
  <2> QED BY <2>1, SessionAssumption DEF IndInv, TypeOK, TokensKept, Live, Tick
<1>3. SentWithToken' /\ \A c \in Calls : CallInv(c)'
  BY DEF IndInv, SentWithToken, Succeeded, LoginOf, CallInv, Tick
<1> QED BY <1>1, <1>2, <1>3 DEF IndInv

-----------------------------------------------------------------------------
(* No login and no call yet.                                                *)
LEMMA InitIndInv == Init => IndInv
<1> SUFFICES ASSUME Init PROVE IndInv
  OBVIOUS
<1>1. << >> \in Seq([state : LoginStates, expires : Nat]) /\ Len(<< >>) = 0
  BY EmptySeq
<1>2. TypeOK
  BY <1>1, SessionAssumption DEF Init, TypeOK, NewCall, CallSteps, WireStates
<1>3. SentWithToken /\ TokensKept
  BY <1>1 DEF Init, SentWithToken, TokensKept
<1>4. \A c \in Calls : CallInv(c)
  BY DEF Init, CallInv, NewCall
<1> QED BY <1>2, <1>3, <1>4 DEF IndInv

LEMMA NextIndInv == IndInv /\ [Next]_vars => IndInv'
<1> SUFFICES ASSUME IndInv, [Next]_vars PROVE IndInv'
  OBVIOUS
<1>1. CASE UNCHANGED vars
  BY <1>1 DEF vars, IndInv, TypeOK, SentWithToken, TokensKept, Live, CallInv, LoginOf
<1>2. ASSUME NEW p \in Pages, NEW n \in 1..Len(login[p]),
             LoginEnds(p, n) \/ LoginFails(p, n)
      PROVE  IndInv'
  BY <1>2, LoginServedKeeps, LoginArrivesKeeps, LoginFailsKeeps DEF LoginEnds
<1>3. ASSUME NEW c \in Calls, Begin(c) \/ PageStep(c) \/ Lost(c) \/ ServerStep(c)
      PROVE  IndInv'
  BY <1>3, BeginKeeps, SendKeeps, GiveUpKeeps, RefusedKeeps, ReceiveKeeps, LostKeeps,
     AuthenticateKeeps, HandleKeeps, RejectKeeps DEF PageStep, ServerStep
<1>4. \A p \in Pages : DOMAIN login[p] = 1..Len(login[p])
  BY LoginTypes DEF IndInv
<1> QED BY <1>1, <1>2, <1>3, <1>4, TickKeeps DEF Next

(* The invariant holds in every state that can be reached.                  *)
LEMMA Inductive == Spec => []IndInv
BY InitIndInv, NextIndInv, PTL DEF Spec

-----------------------------------------------------------------------------
(* Logins, tokens, promises and calls keep their types (Session.TypeOK).    *)
THEOREM SessionTypeOK == Spec => []TypeOK
<1>1. IndInv => TypeOK
  BY DEF IndInv
<1> QED BY <1>1, Inductive, PTL

(* No call is carried out twice or sent more than twice, and one that       *)
(* succeeds was carried out, whatever expires, fails or is lost (request(), *)
(* require_auth).                                                           *)
THEOREM CallsAppliedOnce == Spec => []AppliedOnce
<1>1. IndInv => AppliedOnce
  BY DEF IndInv, AppliedOnce, CallInv
<1> QED BY <1>1, Inductive, PTL

(* The server refuses a token it issued only once it has expired, however   *)
(* many logins of however many pages come between (issue_token).            *)
THEOREM TokensLastTheirTime == Spec => RefusedOnlyIfExpired
<1> DEFINE OnlyIfExpired ==
      \A c \in Calls : wire[c] = "sent" /\ wire'[c] = "refused"
                         => LoginOf(c).expires <= now
<1>1. IndInv /\ [Next]_vars => [OnlyIfExpired]_vars
  <2> SUFFICES ASSUME IndInv, Next, NEW d \in Calls,
                      wire[d] = "sent", wire'[d] = "refused"
               PROVE  LoginOf(d).expires <= now
    BY DEF vars
  <2>1. wire \in [Calls -> WireStates] /\ wire' # wire
    BY DEF IndInv, TypeOK
  <2>2. PICK c \in Calls : Send(c) \/ Authenticate(c) \/ Handle(c) \/ Reject(c)
    BY <2>1 DEF Next, LoginEnds, LoginServed, LoginArrives, LoginFails, Begin, PageStep,
                GiveUp, Refused, Receive, Lost, ServerStep, Tick
  <2>3. Authenticate(d) /\ ~ Valid(Token(d))
    BY <2>1, <2>2 DEF Send, Authenticate, Handle, Reject
  <2>4. /\ PageOf[d] \in Pages /\ call[d].login \in 1..Len(login[PageOf[d]])
        /\ Succeeded(LoginOf(d))
    BY SessionAssumption DEF IndInv, CallInv, SentWithToken
  <2>5. ~ (LoginOf(d).expires > now)
    BY <2>3, <2>4 DEF Valid, Token, IndInv, TokensKept, Live, Succeeded, LoginOf
  <2>6. LoginOf(d).expires \in Nat /\ now \in Nat
    <3>1. LoginOf(d) \in LoginRecords
      BY <2>4, LoginTypes DEF LoginOf, IndInv
    <3>2. now \in 0..MaxTime
      BY DEF IndInv, TypeOK
    <3> QED BY <3>1, <3>2, SessionAssumption DEF LoginRecords
  <2> QED BY <2>5, <2>6
<1> QED BY <1>1, Inductive, PTL DEF Spec, RefusedOnlyIfExpired
=============================================================================
