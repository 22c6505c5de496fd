--------------------------- MODULE BrowserSession ----------------------------
(***************************************************************************)
(* A browser that uses the sessions of SessionLedger: its tabs share one   *)
(* refresh cookie; each tab holds an access token in memory, renews it     *)
(* with one refresh for all its calls that are answered 401                *)
(* (baseQueryWithAuth.ts), asks for a token when the app is opened         *)
(* (AuthBootstrap.tsx), signs in (LoginPage.tsx) and out (TopBar.tsx).     *)
(*                                                                         *)
(* The access token is a signed JWT that may run out at any time, so a     *)
(* call is answered 401 or not; only exchanges that touch the cookie are   *)
(* followed through the server.  A hard load of a page drops everything    *)
(* the tab was waiting for, not what the server is doing about it.         *)
(***************************************************************************)
EXTENDS FiniteSets

CONSTANTS
  Users, Sids, None,  \* as in SessionLedger
  Tabs,      \* the tabs of the browser
  Calls,     \* API calls in flight: bounds their number
  Slots,     \* session exchanges in flight: bounds their number
  Mishaps    \* what may go wrong in this instance

ASSUME BrowserAssumption ==
  /\ None \notin Users \union Sids \union Tabs \union Slots
  /\ Mishaps \subseteq {"fail", "reload", "leave", "retire"}

VARIABLES
  ledger,    \* the server's sessions
  cookie,    \* the refresh cookie: the session it names
  page,      \* page[t]: where the tab is
  user,      \* user[t]: the store's auth.user, set with auth.token
  promise,   \* promise[t]: refreshPromise of baseQueryWithAuth
  call,      \* call[c]: an API call
  exchange,  \* exchange[x]: a login, refresh or logout request
  disturbed  \* history: something has happened that may cost a session

vars == <<ledger, cookie, page, user, promise, call, exchange, disturbed>>

Server == INSTANCE SessionLedger

NoCall == [at |-> "idle", tab |-> None]

CallStates == [at : {"idle", "sent", "awaiting", "retried"}, tab : Tabs \union {None}]

(* ear: who hears the answer - the page, only the cookie jar, or nobody.   *)
NoExchange == [kind |-> "none", at |-> "idle", tab |-> None, ear |-> "none",
               sid |-> None, who |-> None]

Exchanges ==
  [kind : {"none", "refresh", "boot", "login", "logout"},
   at   : {"idle", "sent", "found", "revoked", "granted", "done", "denied", "failed"},
   tab  : Tabs \union {None}, ear : {"page", "jar", "none"},
   sid  : Sids \union {None}, who : Users \union {None}]

Live(s) == s # None /\ ledger[s].phase = "live"

InFlight(x) == exchange[x].at # "idle"

Quiet == \A x \in Slots : ~InFlight(x)

Answered(x) == exchange[x].at \in {"granted", "done", "denied", "failed"}

------------------------------------------------------------------------------
(* The server, one request at a time per exchange *)

(* refresh reads the presented session.                                    *)
FindSession(x) ==
  /\ exchange[x].kind \in {"refresh", "boot"} /\ exchange[x].at = "sent"
  /\ exchange' = [exchange EXCEPT ![x].at = IF Live(exchange[x].sid) THEN "found" ELSE "denied"]
  /\ UNCHANGED <<ledger, cookie, page, user, promise, call, disturbed>>

RetireIfLive(s) == IF Live(s) THEN Server!Retire({s}) ELSE UNCHANGED ledger

RevokeSession(x) ==
  /\ exchange[x].at = "found"
  /\ RetireIfLive(exchange[x].sid)
  /\ exchange' = [exchange EXCEPT ![x].at = "revoked", ![x].who = ledger[exchange[x].sid].user]
  /\ UNCHANGED <<cookie, page, user, promise, call, disturbed>>

(* A new session, for a login or in exchange; sid is now the one granted.  *)
GrantSession(x) ==
  /\ exchange[x].at = "revoked" \/ (exchange[x].kind = "login" /\ exchange[x].at = "sent")
  /\ \E s \in Sids :
       /\ Server!Grant(s, exchange[x].who, exchange[x].sid)
       /\ exchange' = [exchange EXCEPT ![x].at = "granted", ![x].sid = s]
  /\ UNCHANGED <<cookie, page, user, promise, call, disturbed>>

(* Mutant: logout clears the cookie only.                                  *)
CloseCookieOnly(x) ==
  /\ exchange[x].kind = "logout" /\ exchange[x].at = "sent"
  /\ exchange' = [exchange EXCEPT ![x].at = "done"]
  /\ UNCHANGED <<ledger, cookie, page, user, promise, call, disturbed>>

CloseSession(x) ==
  /\ exchange[x].kind = "logout" /\ exchange[x].at = "sent"
  /\ RetireIfLive(exchange[x].sid)
  /\ exchange' = [exchange EXCEPT ![x].at = "done"]
  /\ UNCHANGED <<cookie, page, user, promise, call, disturbed>>

(* The request or its answer is lost, the handler fails or refuses.        *)
Fail(x) ==
  /\ "fail" \in Mishaps
  /\ exchange[x].at \in {"sent", "found", "revoked", "granted", "done"}
  /\ exchange' = [exchange EXCEPT ![x].at = "failed"]
  /\ disturbed' = TRUE
  /\ UNCHANGED <<ledger, cookie, page, user, promise, call>>

(* A block, a password change or the clock ends sessions.                  *)
EndSessions ==
  /\ "retire" \in Mishaps
  /\ \E S \in (SUBSET Sids) \ {{}} : Server!Retire(S)
  /\ disturbed' = TRUE
  /\ UNCHANGED <<cookie, page, user, promise, call, exchange>>

------------------------------------------------------------------------------
(* What a tab sends *)

(* Exchanges that race each other may cost a session: except refreshes of  *)
(* one tab, which are supposed not to.                                     *)
Races(t, kind) ==
  \E y \in Slots : InFlight(y) /\ ~(exchange[y].tab = t /\ exchange[y].kind = "refresh"
                                    /\ kind = "refresh")

Send(x, t, kind, who) ==
  /\ ~InFlight(x)
  /\ exchange' = [exchange EXCEPT ![x] =
       [kind |-> kind, at |-> "sent", tab |-> t, ear |-> "page",
        sid |-> IF kind = "login" THEN None ELSE cookie, who |-> who]]

(* With a token in the store AuthBootstrap lets the app in at once.        *)
OpenApp(t) ==
  /\ page[t] = "login"
  /\ \/ /\ user[t] # None
        /\ page' = [page EXCEPT ![t] = "app"]
        /\ UNCHANGED <<exchange, disturbed>>
     \/ /\ user[t] = None
        /\ \E x \in Slots : Send(x, t, "boot", None)
        /\ page' = [page EXCEPT ![t] = "boot"]
        /\ disturbed' = (disturbed \/ Races(t, "boot"))
  /\ UNCHANGED <<ledger, cookie, user, promise, call>>

SubmitLogin(t) ==
  /\ page[t] = "login"
  /\ \A x \in Slots : ~(exchange[x].kind = "login" /\ exchange[x].tab = t
                         /\ exchange[x].ear = "page")
  /\ \E x \in Slots, u \in Users : Send(x, t, "login", u)
  /\ disturbed' = (disturbed \/ Races(t, "login") \/ Live(cookie)
                              \/ \E v \in Tabs \ {t} : user[v] # None)
  /\ UNCHANGED <<ledger, cookie, page, user, promise, call>>

HandleLogout(t) ==
  /\ page[t] = "app"
  /\ \E x \in Slots : Send(x, t, "logout", None)
  /\ disturbed' = (disturbed \/ Races(t, "logout"))
  /\ UNCHANGED <<ledger, cookie, page, user, promise, call>>

SendCall(c, t) ==
  /\ page[t] = "app" /\ call[c] = NoCall
  /\ call' = [call EXCEPT ![c] = [at |-> "sent", tab |-> t]]
  /\ UNCHANGED <<ledger, cookie, page, user, promise, exchange, disturbed>>

------------------------------------------------------------------------------
(* Answers to calls *)

AnswerOk(c) ==
  /\ call[c].at \in {"sent", "retried"}
  /\ call' = [call EXCEPT ![c] = NoCall]
  /\ UNCHANGED <<ledger, cookie, page, user, promise, exchange, disturbed>>

(* Mutant: every call that is answered 401 refreshes for itself.           *)
RefreshAlone(c) ==
  LET t == call[c].tab IN
  \E x \in Slots :
    /\ Send(x, t, "refresh", None)
    /\ promise' = [promise EXCEPT ![t] = x]
    /\ disturbed' = (disturbed \/ Races(t, "refresh"))

(* The first 401 waits for the tab's refresh, which it starts if there is  *)
(* none; the second is the call's result.                                  *)
JoinRefresh(c) ==
  LET t == call[c].tab IN
  IF promise[t] # None THEN UNCHANGED <<promise, exchange, disturbed>>
  ELSE \E x \in Slots :
         /\ Send(x, t, "refresh", None)
         /\ promise' = [promise EXCEPT ![t] = x]
         /\ disturbed' = (disturbed \/ Races(t, "refresh"))

AnswerUnauthorized(c) ==
  \/ /\ call[c].at = "sent"
     /\ call' = [call EXCEPT ![c].at = "awaiting"]
     /\ JoinRefresh(c)
     /\ UNCHANGED <<ledger, cookie, page, user>>
  \/ /\ call[c].at = "retried"
     /\ call' = [call EXCEPT ![c] = NoCall]
     /\ UNCHANGED <<ledger, cookie, page, user, promise, exchange, disturbed>>

------------------------------------------------------------------------------
(* Answers to exchanges *)

Freed(x) == [exchange EXCEPT ![x] = NoExchange]

(* Everything the tab waits for is dropped; what it sent goes on.          *)
Dropped(t, E) == [y \in Slots |-> IF E[y].tab = t THEN [E[y] EXCEPT !.ear = "none"] ELSE E[y]]

(* AuthBootstrap's effect is cleaned up: its answer only sets the cookie.  *)
Cancelled(t, E) ==
  [y \in Slots |-> IF E[y].tab = t /\ E[y].kind = "boot" /\ E[y].ear = "page"
                   THEN [E[y] EXCEPT !.ear = "jar"] ELSE E[y]]

(* Mutant: a refused refresh leaves its callers waiting.                   *)
DismissedNone(t) == call

Dismissed(t) == [c \in Calls |-> IF call[c].tab = t THEN NoCall ELSE call[c]]

Resumed(t) == [c \in Calls |-> IF call[c].tab = t /\ call[c].at = "awaiting"
                              THEN [call[c] EXCEPT !.at = "retried"] ELSE call[c]]

(* Mutant: the answer to a refresh carries no cookie.                      *)
SetCookieAtLogin(x) ==
  cookie' = IF exchange[x].ear = "none" THEN cookie
            ELSE CASE exchange[x].kind = "login" /\ exchange[x].at = "granted" -> exchange[x].sid
                   [] exchange[x].at = "done" -> None
                   [] OTHER -> cookie

(* The answer's Set-Cookie.                                                *)
SetCookie(x) ==
  cookie' = IF exchange[x].ear = "none" THEN cookie
            ELSE CASE exchange[x].at = "granted" -> exchange[x].sid
                   [] exchange[x].at = "done"    -> None
                   [] OTHER                      -> cookie

ResetPromise(t) == promise' = [promise EXCEPT ![t] = None]

(* The promise settles: new credentials and a retry for all who wait, or   *)
(* clearSession and a hard load of /login.                                 *)
SettleRefresh(x) ==
  LET t == exchange[x].tab IN
  /\ exchange[x].kind = "refresh" /\ Answered(x) /\ exchange[x].ear = "page"
  /\ SetCookie(x)
  /\ ResetPromise(t)
  /\ IF exchange[x].at = "granted"
     THEN /\ user' = [user EXCEPT ![t] = exchange[x].who]
          /\ page' = [page EXCEPT ![t] = IF page[t] = "boot" THEN "app" ELSE page[t]]
          /\ call' = Resumed(t)
          /\ exchange' = Cancelled(t, Freed(x))
          /\ UNCHANGED disturbed
     ELSE /\ user' = [user EXCEPT ![t] = None]
          /\ page' = [page EXCEPT ![t] = "login"]
          /\ call' = Dismissed(t)
          /\ exchange' = Dropped(t, Freed(x))
          /\ disturbed' = (disturbed \/ \E y \in Slots \ {x} : exchange[y].tab = t)
  /\ UNCHANGED ledger

(* AuthBootstrap lets the app in, or ProtectedRoute sends it to /login.    *)
Checked(t, ok) == page' = [page EXCEPT ![t] = IF ok THEN "app" ELSE "login"]

SettleBoot(x) ==
  LET t == exchange[x].tab IN
  /\ exchange[x].kind = "boot" /\ Answered(x) /\ exchange[x].ear = "page"
  /\ SetCookie(x)
  /\ Checked(t, exchange[x].at = "granted")
  /\ IF exchange[x].at = "granted" THEN user' = [user EXCEPT ![t] = exchange[x].who]
     ELSE UNCHANGED user
  /\ exchange' = Freed(x)
  /\ UNCHANGED <<ledger, promise, call, disturbed>>

SettleLogin(x) ==
  LET t == exchange[x].tab IN
  /\ exchange[x].kind = "login" /\ Answered(x) /\ exchange[x].ear = "page"
  /\ SetCookie(x)
  /\ IF exchange[x].at = "granted"
     THEN /\ user' = [user EXCEPT ![t] = exchange[x].who]
          /\ page' = [page EXCEPT ![t] = "app"]
          /\ exchange' = Cancelled(t, Freed(x))
     ELSE exchange' = Freed(x) /\ UNCHANGED <<user, page>>
  /\ UNCHANGED <<ledger, promise, call, disturbed>>

(* The tab signs out whatever the server says; its calls stay in flight.   *)
SettleLogout(x) ==
  LET t == exchange[x].tab IN
  /\ exchange[x].kind = "logout" /\ Answered(x) /\ exchange[x].ear = "page"
  /\ SetCookie(x)
  /\ user' = [user EXCEPT ![t] = None]
  /\ page' = [page EXCEPT ![t] = "login"]
  /\ exchange' = Cancelled(t, Freed(x))
  /\ UNCHANGED <<ledger, promise, call, disturbed>>

(* An answer no page waits for.                                            *)
SettleUnheard(x) ==
  /\ Answered(x) /\ exchange[x].ear # "page"
  /\ SetCookie(x)
  /\ exchange' = Freed(x)
  /\ UNCHANGED <<ledger, page, user, promise, call, disturbed>>

------------------------------------------------------------------------------
(* The user moves about *)

(* AuthBootstrap unmounts before its answer.                               *)
LeaveBoot(t) ==
  /\ "leave" \in Mishaps
  /\ page[t] = "boot"
  /\ page' = [page EXCEPT ![t] = "login"]
  /\ exchange' = Cancelled(t, exchange)
  /\ disturbed' = TRUE
  /\ UNCHANGED <<ledger, cookie, user, promise, call>>

(* A hard load of the page the tab is on: the store starts empty.          *)
Reload(t) ==
  /\ "reload" \in Mishaps
  /\ page[t] # "boot"
  /\ user' = [user EXCEPT ![t] = None]
  /\ promise' = [promise EXCEPT ![t] = None]
  /\ call' = Dismissed(t)
  /\ disturbed' = (disturbed \/ ~Quiet)
  /\ \/ /\ page[t] = "login"
        /\ exchange' = Dropped(t, exchange)
        /\ UNCHANGED page
     \/ /\ page[t] = "app"
        /\ page' = [page EXCEPT ![t] = "boot"]
        /\ \E x \in Slots : LET E == Dropped(t, exchange) IN
             /\ ~InFlight(x)
             /\ exchange' = [E EXCEPT ![x] = [kind |-> "boot", at |-> "sent", tab |-> t,
                                             ear |-> "page", sid |-> cookie, who |-> None]]
  /\ UNCHANGED <<ledger, cookie>>

------------------------------------------------------------------------------
Init ==
  /\ Server!LedgerInit
  /\ cookie = None
  /\ page = [t \in Tabs |-> "login"]
  /\ user = [t \in Tabs |-> None]
  /\ promise = [t \in Tabs |-> None]
  /\ call = [c \in Calls |-> NoCall]
  /\ exchange = [x \in Slots |-> NoExchange]
  /\ disturbed = FALSE

Serve(x) == FindSession(x) \/ RevokeSession(x) \/ GrantSession(x) \/ CloseSession(x)

Settle(x) == \/ SettleRefresh(x) \/ SettleBoot(x) \/ SettleLogin(x) \/ SettleLogout(x)
             \/ SettleUnheard(x)

Visit(t) == \/ OpenApp(t) \/ SubmitLogin(t) \/ HandleLogout(t) \/ LeaveBoot(t) \/ Reload(t)
            \/ \E c \in Calls : SendCall(c, t)

Next ==
  \/ \E x \in Slots : Serve(x) \/ Fail(x) \/ Settle(x)
  \/ \E c \in Calls : AnswerOk(c) \/ AnswerUnauthorized(c)
  \/ \E t \in Tabs : Visit(t)
  \/ EndSessions

Spec == Init /\ [][Next]_vars

(* Requests and calls are answered or fail.                                *)
Answers ==
  /\ \A x \in Slots : WF_vars(Serve(x) \/ Fail(x)) /\ WF_vars(Settle(x))
  /\ \A c \in Calls : WF_vars(AnswerOk(c) \/ AnswerUnauthorized(c))
------------------------------------------------------------------------------
(* Properties *)

(* Types; a tab's refreshPromise is a refresh of the tab in flight that    *)
(* the page still hears: it is reset when the promise settles.             *)
TypeOK ==
  /\ ledger \in [Sids -> [phase : {"free", "live", "revoked"}, user : Users \union {None},
                          parent : Sids \union {None}]]
  /\ cookie \in Sids \union {None}
  /\ page \in [Tabs -> {"login", "boot", "app"}]
  /\ user \in [Tabs -> Users \union {None}]
  /\ call \in [Calls -> CallStates]
  /\ exchange \in [Slots -> Exchanges]
  /\ \A t \in Tabs : promise[t] # None =>
       LET e == exchange[promise[t]] IN e.kind = "refresh" /\ e.tab = t /\ e.ear = "page"

(* Single flight: however many calls of a tab are answered 401 together,   *)
(* no refresh of it is ever refused a cookie it presented, unless a session*)
(* was ended, an answer lost, a page left, or exchanges of another kind or *)
(* another tab raced it.                                                   *)
RefusedForCause ==
  \A x \in Slots :
    (/\ exchange[x].kind \in {"refresh", "boot"} /\ exchange[x].at = "denied"
     /\ exchange[x].sid # None) => disturbed

(* Nothing is left behind: when all tabs have signed out undisturbed and   *)
(* nothing is in flight, the server has no live session of this browser.   *)
SignedOutIsRevoked ==
  (Quiet /\ ~disturbed /\ \A t \in Tabs : user[t] = None) =>
    \A s \in Sids : ledger[s].phase # "live"

(* Signing out revokes, and the state has its type: a promise of a refresh  *)
(* is there while, and only while, that refresh is in flight.              *)
SessionsSound == TypeOK /\ SignedOutIsRevoked

(* At rest, undisturbed and with nobody signed in over a session or a tab  *)
(* that still shows a user, the cookie names the live session of the user  *)
(* whom each signed-in tab shows, or another tab has signed out.           *)
CookieMatchesTab ==
  (Quiet /\ ~disturbed) =>
    \A t \in Tabs : user[t] # None =>
      cookie = None \/ (Live(cookie) /\ ledger[cookie].user = user[t])

(* Every call of a tab comes to an end: nobody waits for ever for the      *)
(* refreshPromise, and a 401 after the retry is the result.                *)
CallsSettle == \A c \in Calls : call[c] # NoCall ~> call[c] = NoCall

(* Opening the app comes to an end, in the app or at the login page.       *)
AppOpens == \A t \in Tabs : page[t] = "boot" ~> page[t] # "boot"

(* Nothing a tab begins goes on for ever.                                  *)
EverythingEnds == CallsSettle /\ AppOpens
==============================================================================
