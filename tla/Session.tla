------------------------------- MODULE Session -------------------------------
(***************************************************************************)
(* Writes of the browser client (createHttpService in crm-service.js) and   *)
(* the bearer tokens they carry (backend/app/auth.py).  A page keeps one    *)
(* tokenPromise, shared by all its calls; a call that is answered 401 drops *)
(* the promise, logs in again and repeats its request once.  Tokens live in *)
(* the auth_tokens table with an expiry, one for every login of any page.   *)
(*                                                                          *)
(* One action is one turn of the page's event loop, or one transaction of   *)
(* the server.  A connection may break at any time; a request the server    *)
(* already has is then still handled.  Reads carry no token and are left    *)
(* out.  Each call is made once.                                            *)
(***************************************************************************)
EXTENDS Naturals, FiniteSets, Sequences

CONSTANTS
  Pages,      \* open browser pages, each with a client of its own
  Calls,      \* writes made from them
  PageOf,     \* PageOf[c]: the page that makes call c
  TTL,        \* TOKEN_TTL
  MaxTime     \* bound: the clock stops here

ASSUME SessionAssumption ==
  /\ PageOf \in [Calls -> Pages]
  /\ TTL \in Nat /\ MaxTime \in Nat

VARIABLES
  now,       \* the clock
  tokens,    \* auth_tokens: logins <<p, n>> whose token is stored
  login,     \* login[p][n]: the n-th login of page p
  promise,   \* tokenPromise of page p: a login number, 0 for null
  call,      \* call[c]: where call c is in request()
  wire,      \* wire[c]: the latest HTTP request of call c, on the server
  sends,     \* sends[c]: requests sent for call c
  applied    \* applied[c]: times the server has carried out call c

server  == <<now, tokens>>
vars == <<now, tokens, login, promise, call, wire, sends, applied>>

LoginStates == {"sent", "served", "ok", "failed"}
CallSteps   == {"idle", "token", "waiting", "done", "failed"}
WireStates  == {"none", "sent", "checked", "refused", "answered", "rejected"}

NewCall  == [pc |-> "idle", login |-> 0, retried |-> FALSE]
NewLogin == [state |-> "sent", expires |-> 0]

LoginOf(c) == login[PageOf[c]][call[c].login]
Token(c)   == <<PageOf[c], call[c].login>>

Init ==
  /\ now = 0 /\ tokens = {}
  /\ login = [p \in Pages |-> << >>]
  /\ promise = [p \in Pages |-> 0]
  /\ call = [c \in Calls |-> NewCall]
  /\ wire = [c \in Calls |-> "none"]
  /\ sends = [c \in Calls |-> 0]
  /\ applied = [c \in Calls |-> 0]

-----------------------------------------------------------------------------
(* Logging in.                                                              *)

(* Mutant of AwaitToken: the promise is set, but no login request goes out.  *)
AwaitToken_Unsent(c, held, retried) ==
  LET p == PageOf[c]
      n == IF held = 0 THEN Len(login[p]) + 1 ELSE held
  IN  /\ promise' = [promise EXCEPT ![p] = n]
      /\ call' = [call EXCEPT ![c] = [pc |-> "token", login |-> n, retried |-> retried]]
      /\ UNCHANGED login

(* getToken(): call c waits for the pending or resolved login of its page,  *)
(* or starts one.  held is the tokenPromise it finds.                       *)
AwaitToken(c, held, retried) ==
  LET p == PageOf[c]
      n == IF held = 0 THEN Len(login[p]) + 1 ELSE held
  IN  /\ promise' = [promise EXCEPT ![p] = n]
      /\ login' = IF held = 0 THEN [login EXCEPT ![p] = Append(@, NewLogin)] ELSE login
      /\ call' = [call EXCEPT ![c] = [pc |-> "token", login |-> n, retried |-> retried]]

(* Mutant of KeptTokens: a login ends every other session of the user, and  *)
(* all pages are the same user.                                             *)
KeptTokens_OneSession == {}

(* The tokens issue_token leaves: DELETE ... WHERE expires_at <= now.       *)
KeptTokens == {t \in tokens : login[t[1]][t[2]].expires > now}

(* POST /auth/login is carried out: issue_token in one transaction.         *)
LoginServed(p, n) ==
  /\ login[p][n].state = "sent"
  /\ tokens' = KeptTokens \cup {<<p, n>>}
  /\ login' = [login EXCEPT ![p][n] = [state |-> "served", expires |-> now + TTL]]
  /\ UNCHANGED <<now, promise, call, wire, sends, applied>>

LoginArrives(p, n) ==
  /\ login[p][n].state = "served"
  /\ login' = [login EXCEPT ![p][n].state = "ok"]
  /\ UNCHANGED <<now, tokens, promise, call, wire, sends, applied>>

(* The login is refused, breaks, or its answer is lost.  The catch clears   *)
(* tokenPromise, even when a newer login has taken its place.               *)
LoginFails(p, n) ==
  /\ login[p][n].state \in {"sent", "served"}
  /\ login' = [login EXCEPT ![p][n].state = "failed"]
  /\ promise' = [promise EXCEPT ![p] = 0]
  /\ UNCHANGED <<now, tokens, call, wire, sends, applied>>

-----------------------------------------------------------------------------
(* One call, on the page.                                                   *)

Begin(c) ==
  /\ call[c].pc = "idle"
  /\ AwaitToken(c, promise[PageOf[c]], FALSE)
  /\ UNCHANGED <<server, wire, sends, applied>>

(* The token is there: fetch.                                               *)
Send(c) ==
  /\ call[c].pc = "token" /\ LoginOf(c).state = "ok"
  /\ call' = [call EXCEPT ![c].pc = "waiting"]
  /\ wire' = [wire EXCEPT ![c] = "sent"]
  /\ sends' = [sends EXCEPT ![c] = @ + 1]
  /\ UNCHANGED <<server, login, promise, applied>>

(* Mutant of GiveUp: a failed login is only reported while no newer one has *)
(* begun.                                                                   *)
GiveUp_IfNoneNewer(c) ==
  /\ call[c].pc = "token" /\ LoginOf(c).state = "failed"
  /\ promise[PageOf[c]] = 0
  /\ call' = [call EXCEPT ![c].pc = "failed"]
  /\ UNCHANGED <<server, login, promise, wire, sends, applied>>

(* The login failed: so does every call that awaited it.                    *)
GiveUp(c) ==
  /\ call[c].pc = "token" /\ LoginOf(c).state = "failed"
  /\ call' = [call EXCEPT ![c].pc = "failed"]
  /\ UNCHANGED <<server, login, promise, wire, sends, applied>>

(* Mutant of Refused: the recursive request() does not say it is a retry.   *)
Refused_Forgetful(c) ==
  /\ call[c].pc = "waiting" /\ wire[c] = "refused"
  /\ AwaitToken(c, 0, FALSE)
  /\ UNCHANGED <<server, wire, sends, applied>>

(* A 401: the first one clears tokenPromise, which starts a new login, and  *)
(* repeats the request; the second is an error.                             *)
Refused(c) ==
  /\ call[c].pc = "waiting" /\ wire[c] = "refused"
  /\ IF call[c].retried
       THEN call' = [call EXCEPT ![c].pc = "failed"] /\ UNCHANGED <<login, promise>>
       ELSE AwaitToken(c, 0, TRUE)
  /\ UNCHANGED <<server, wire, sends, applied>>

(* The answer: an error status other than a first 401 rejects the call.     *)
Receive(c) ==
  /\ call[c].pc = "waiting" /\ wire[c] \in {"answered", "rejected"}
  /\ call' = [call EXCEPT ![c].pc = IF wire[c] = "answered" THEN "done" ELSE "failed"]
  /\ UNCHANGED <<server, login, promise, wire, sends, applied>>

(* Mutant of Lost: a request that gets no answer is repeated.               *)
Lost_Repeats(c) ==
  /\ call[c].pc = "waiting"
  /\ IF call[c].retried
       THEN call' = [call EXCEPT ![c].pc = "failed"] /\ UNCHANGED <<login, promise>>
       ELSE AwaitToken(c, promise[PageOf[c]], TRUE)
  /\ UNCHANGED <<server, wire, sends, applied>>

(* fetch rejects: the connection broke before the answer came.              *)
Lost(c) ==
  /\ call[c].pc = "waiting"
  /\ call' = [call EXCEPT ![c].pc = "failed"]
  /\ UNCHANGED <<server, login, promise, wire, sends, applied>>

-----------------------------------------------------------------------------
(* The same call, on the server.                                            *)

(* username_for_token: the token is stored and has not expired.             *)
Valid(t) == t \in tokens /\ login[t[1]][t[2]].expires > now

(* require_auth, which runs before the handler.                             *)
Authenticate(c) ==
  /\ wire[c] = "sent"
  /\ wire' = [wire EXCEPT ![c] = IF Valid(Token(c)) THEN "checked" ELSE "refused"]
  /\ UNCHANGED <<server, login, promise, call, sends, applied>>

Handle(c) ==
  /\ wire[c] = "checked"
  /\ wire' = [wire EXCEPT ![c] = "answered"]
  /\ applied' = [applied EXCEPT ![c] = @ + 1]
  /\ UNCHANGED <<server, login, promise, call, sends>>

(* The handler raises (400, 404, 500), and what it did is rolled back.      *)
Reject(c) ==
  /\ wire[c] = "checked"
  /\ wire' = [wire EXCEPT ![c] = "rejected"]
  /\ UNCHANGED <<server, login, promise, call, sends, applied>>

Tick ==
  /\ now < MaxTime
  /\ now' = now + 1
  /\ UNCHANGED <<tokens, login, promise, call, wire, sends, applied>>

-----------------------------------------------------------------------------
LoginEnds(p, n) == LoginServed(p, n) \/ LoginArrives(p, n)
PageStep(c)     == Send(c) \/ GiveUp(c) \/ Refused(c) \/ Receive(c)
ServerStep(c)   == Authenticate(c) \/ Handle(c) \/ Reject(c)

Next ==
  \/ \E p \in Pages : \E n \in DOMAIN login[p] : LoginEnds(p, n) \/ LoginFails(p, n)
  \/ \E c \in Calls : Begin(c) \/ PageStep(c) \/ Lost(c) \/ ServerStep(c)
  \/ Tick

Spec == Init /\ [][Next]_vars

(* The event loop runs every ready continuation, and the server every       *)
(* request it has; a login that is never answered ends as a network error   *)
(* (a page starts finitely many, so that one of them always goes on is      *)
(* enough).  No call has to begin, no connection has to break, no time has  *)
(* to pass.                                                                 *)
Fairness ==
  /\ \A c \in Calls : WF_vars(PageStep(c) \/ ServerStep(c))
  /\ \A p \in Pages : WF_vars(\E n \in DOMAIN login[p] : LoginEnds(p, n))

LiveSpec == Spec /\ Fairness

-----------------------------------------------------------------------------
(* Every login, token and call refers to a login that was started           *)
(* (crm-service.js, auth.py).                                               *)
TypeOK ==
  /\ now \in 0..MaxTime
  /\ login \in [Pages -> Seq([state : LoginStates, expires : Nat])]
  /\ tokens \subseteq Pages \X Nat
  /\ \A t \in tokens : t[2] \in 1..Len(login[t[1]])
  /\ promise \in [Pages -> Nat]
  /\ \A p \in Pages : promise[p] <= Len(login[p])
  /\ call \in [Calls -> [pc : CallSteps, login : Nat, retried : BOOLEAN]]
  /\ \A c \in Calls : call[c].login <= Len(login[PageOf[c]])
  /\ wire \in [Calls -> WireStates]
  /\ sends \in [Calls -> Nat] /\ applied \in [Calls -> Nat]

(* The retry of an expired token never repeats work: no call is carried out *)
(* twice, whatever is lost, one that succeeds was carried out (request()    *)
(* repeats a 401 only, and require_auth runs before the handler); and       *)
(* however short the TTL, a call costs at most two requests ("log in again  *)
(* once and repeat").                                                       *)
AppliedOnce ==
  \A c \in Calls : /\ applied[c] <= 1 /\ sends[c] <= 2
                   /\ call[c].pc = "done" => applied[c] = 1

(* A call is answered 401 only when its own token has run out: no login of  *)
(* this or another page ends a session before its time (issue_token's       *)
(* DELETE), and a token in use is stored.                                   *)
RefusedOnlyIfExpired ==
  [][\A c \in Calls : wire[c] = "sent" /\ wire'[c] = "refused"
                        => LoginOf(c).expires <= now]_vars

(* Every call that began ends, also when the login it shares with others    *)
(* fails or is replaced.                                                    *)
EveryCallEnds ==
  \A c \in Calls : call[c].pc = "token" ~> call[c].pc \in {"done", "failed"}
=============================================================================
