------------------------ MODULE BrowserSession_proofs ------------------------
(***************************************************************************)
(* Proofs about what a browser runs.                                       *)
(*                                                                         *)
(* Of BrowserSession, for any number of tabs, users, sessions,             *)
(* calls and exchanges: the state has its type, and while nothing happens  *)
(* that may cost a session, one exchange is in flight at a time (Single),  *)
(* and the cookie, the server and the tabs say the same of the user        *)
(* (Agreed), but for what the exchange in flight is about to change        *)
(* (Holds).  And whatever happens, whoever waits is heard of, and what is  *)
(* on its way only gets further.                                           *)
(*                                                                         *)
(* Of ApiSlices, for any number of rows, users and mutations: a change     *)
(* that was made is in the rows on the screen, or something still on its   *)
(* way will bring it there, or its slice is not told of it (Covered).      *)
(*                                                                         *)
(* Of Editing, for any number of rows and versions: the fields fit the row *)
(* the page shows (FieldsFit), and a request the row it is for             *)
(* (RequestFits).                                                          *)
(***************************************************************************)
EXTENDS BrowserSession, ApiSlices, Editing, TLAPS

------------------------------------------------------------------------------
(* Types *)

(* What an exchange carries, by how far it has got.                        *)
ExchangeOK(x) ==
  LET e == exchange[x] IN
  /\ IF e.at = "idle" THEN e.kind = "none" ELSE e.tab \in Tabs /\ e.kind # "none"
  /\ e.kind = "login" => e.who \in Users /\ e.at \in {"sent", "granted", "failed"}
  /\ e.kind = "logout" => e.at \in {"sent", "done", "failed"}
  /\ e.at = "found" => e.sid \in Sids /\ ledger[e.sid].phase # "free"
  /\ e.at \in {"revoked", "granted"} => e.sid \in Sids /\ e.who \in Users

OwnerOK == \A s \in Sids : ledger[s].phase # "free" => ledger[s].user \in Users

CallOK == \A c \in Calls : call[c].at # "idle" => call[c].tab \in Tabs

Typed ==
  /\ TypeOK
  /\ promise \in [Tabs -> Slots \union {None}]
  /\ disturbed \in BOOLEAN
  /\ OwnerOK /\ CallOK
  /\ \A x \in Slots : ExchangeOK(x)

(* The parts of Typed an action leaves alone.                              *)
LedgerTypes ==
  /\ ledger \in [Sids -> [phase : {"free", "live", "revoked"}, user : Users \union {None},
                          parent : Sids \union {None}]]
  /\ OwnerOK

TabTypes ==
  /\ cookie \in Sids \union {None}
  /\ page \in [Tabs -> {"login", "boot", "app"}]
  /\ user \in [Tabs -> Users \union {None}]

CallTypes == call \in [Calls -> CallStates] /\ CallOK

PromiseOK(t) ==
  promise[t] # None =>
    LET e == exchange[promise[t]] IN e.kind = "refresh" /\ e.tab = t /\ e.ear = "page"

ExchangeTypes ==
  /\ exchange \in [Slots -> Exchanges]
  /\ promise \in [Tabs -> Slots \union {None}]
  /\ \A t \in Tabs : PromiseOK(t)
  /\ \A x \in Slots : ExchangeOK(x)

LEMMA TypedParts ==
  Typed <=> LedgerTypes /\ TabTypes /\ CallTypes /\ ExchangeTypes /\ disturbed \in BOOLEAN
BY DEF Typed, TypeOK, LedgerTypes, TabTypes, CallTypes, ExchangeTypes, PromiseOK

LEMMA ExchangeFields ==
  ASSUME NEW e \in Exchanges
  PROVE  /\ e.kind \in {"none", "refresh", "boot", "login", "logout"}
         /\ e.at \in {"idle", "sent", "found", "revoked", "granted", "done", "denied", "failed"}
         /\ e.tab \in Tabs \union {None} /\ e.ear \in {"page", "jar", "none"}
         /\ e.sid \in Sids \union {None} /\ e.who \in Users \union {None}
BY DEF Exchanges

LEMMA NoExchangeType ==
  /\ NoExchange \in Exchanges
  /\ NoExchange.at = "idle" /\ NoExchange.kind = "none" /\ NoExchange.ear = "none"
BY DEF NoExchange, Exchanges

(* A slot gets e, and the others only lose who hears their answer; no      *)
(* promise waits for one that does.                                        *)
Moves(x, e) ==
  /\ exchange' \in [Slots -> Exchanges] /\ exchange'[x] = e
  /\ \A y \in Slots \ {x} :
       /\ exchange'[y].kind = exchange[y].kind /\ exchange'[y].at = exchange[y].at
       /\ exchange'[y].tab = exchange[y].tab /\ exchange'[y].sid = exchange[y].sid
       /\ exchange'[y].who = exchange[y].who

(* Sessions that were granted stay so.                                     *)
LedgerGrows ==
  \A s \in Sids : ledger[s].phase # "free" => ledger'[s].phase # "free"

LEMMA MovedTypes ==
  ASSUME ExchangeTypes, NEW x \in Slots, NEW e \in Exchanges, Moves(x, e), LedgerGrows,
         ExchangeOK(x)',
         promise' \in [Tabs -> Slots \union {None}], \A t \in Tabs : PromiseOK(t)'
  PROVE  ExchangeTypes'
<1>1. ASSUME NEW y \in Slots \ {x} PROVE ExchangeOK(y)'
  <2>1. ExchangeOK(y) /\ exchange[y] \in Exchanges
    BY DEF ExchangeTypes
  <2> QED BY <2>1, ExchangeFields DEF Moves, ExchangeOK, LedgerGrows
<1>2. ASSUME NEW y \in Slots PROVE ExchangeOK(y)'
  <2>1. CASE y = x
    BY <2>1
  <2>2. CASE y # x
    BY <1>1, <2>2
  <2> QED BY <2>1, <2>2
<1> QED BY <1>2 DEF ExchangeTypes, Moves

------------------------------------------------------------------------------
(* Types: the server *)

LEMMA RetireTypes ==
  ASSUME LedgerTypes, NEW S \in SUBSET Sids, Server!Retire(S)
  PROVE  LedgerTypes' /\ LedgerGrows
BY DEF LedgerTypes, OwnerOK, LedgerGrows, Server!Retire

LEMMA RetireIfLiveTypes ==
  ASSUME LedgerTypes, NEW s \in Sids \union {None}, RetireIfLive(s)
  PROVE  LedgerTypes' /\ LedgerGrows
<1>1. CASE Live(s)
  <2>1. {s} \in SUBSET Sids
    BY <1>1 DEF Live
  <2> QED BY <1>1, <2>1, RetireTypes DEF RetireIfLive
<1>2. CASE ~Live(s)
  BY <1>2 DEF RetireIfLive, LedgerTypes, OwnerOK, LedgerGrows
<1> QED BY <1>1, <1>2

LEMMA GrantTypes ==
  ASSUME LedgerTypes, NEW s \in Sids, NEW u \in Users, NEW p \in Sids \union {None},
         Server!Grant(s, u, p)
  PROVE  /\ LedgerTypes' /\ LedgerGrows
         /\ ledger' = [ledger EXCEPT ![s] = [phase |-> "live", user |-> u, parent |-> p]]
<1> DEFINE row == [phase |-> "live", user |-> u, parent |-> p]
<1>1. row.phase = "live" /\ row.user = u
  OBVIOUS
<1>2. row \in [phase : {"free", "live", "revoked"}, user : Users \union {None}, parent : Sids \union {None}]
  OBVIOUS
<1>3. ledger' = [ledger EXCEPT ![s] = row]
  BY DEF Server!Grant
<1> HIDE DEF row
<1>4. LedgerTypes' /\ LedgerGrows
  BY <1>1, <1>2, <1>3 DEF LedgerTypes, OwnerOK, LedgerGrows
<1> USE DEF row
<1> QED BY <1>3, <1>4

(* The server answers; who hears of it stays.                              *)
LEMMA ServedTypes ==
  ASSUME ExchangeTypes, NEW x \in Slots, NEW e \in Exchanges, LedgerGrows, promise' = promise,
         exchange' = [exchange EXCEPT ![x] = e],
         e.kind = exchange[x].kind, e.tab = exchange[x].tab, e.ear = exchange[x].ear,
         e.at # "idle" /\ exchange[x].at # "idle",
         e.kind = "login" => exchange[x].kind = "login" /\ e.who \in Users /\ e.at \in {"sent", "granted", "failed"},
         e.kind = "logout" => e.at \in {"sent", "done", "failed"},
         e.at = "found" => e.sid \in Sids /\ ledger'[e.sid].phase # "free",
         e.at \in {"revoked", "granted"} => e.sid \in Sids /\ e.who \in Users
  PROVE  ExchangeTypes'
<1>1. Moves(x, e)
  BY DEF Moves, ExchangeTypes
<1>2. ExchangeOK(x)'
  <2>1. ExchangeOK(x) /\ exchange'[x] = e
    BY DEF ExchangeTypes
  <2> QED BY <2>1 DEF ExchangeOK
<1>3. \A t \in Tabs : PromiseOK(t)'
  <2> SUFFICES ASSUME NEW t \in Tabs, promise[t] # None, PromiseOK(t)
               PROVE  PromiseOK(t)'
    BY DEF ExchangeTypes, PromiseOK
  <2>1. promise[t] \in Slots
    BY DEF ExchangeTypes
  <2> QED BY <2>1 DEF PromiseOK, ExchangeTypes
<1> QED BY <1>1, <1>2, <1>3, MovedTypes DEF ExchangeTypes

LEMMA ServeTypes ==
  ASSUME Typed, NEW x \in Slots, Serve(x)
  PROVE  LedgerTypes' /\ ExchangeTypes'
<1>1. LedgerTypes /\ ExchangeTypes /\ exchange[x] \in Exchanges /\ ExchangeOK(x)
  BY TypedParts DEF ExchangeTypes
<1>f. /\ exchange[x].kind \in {"none", "refresh", "boot", "login", "logout"}
      /\ exchange[x].at \in {"idle", "sent", "found", "revoked", "granted", "done", "denied", "failed"}
      /\ exchange[x].sid \in Sids \union {None} /\ exchange[x].who \in Users \union {None}
  BY <1>1, ExchangeFields
<1>2. CASE FindSession(x)
  <2> DEFINE e == [exchange[x] EXCEPT !.at = IF Live(exchange[x].sid) THEN "found" ELSE "denied"]
  <2>1. e \in Exchanges
    BY <1>1 DEF Exchanges
  <2>2. /\ e.kind = exchange[x].kind /\ e.tab = exchange[x].tab /\ e.ear = exchange[x].ear
        /\ e.sid = exchange[x].sid /\ e.at = IF Live(exchange[x].sid) THEN "found" ELSE "denied"
    BY <1>1 DEF Exchanges
  <2>3. /\ exchange' = [exchange EXCEPT ![x] = e] /\ ledger' = ledger /\ promise' = promise
        /\ exchange[x].kind \in {"refresh", "boot"} /\ exchange[x].at = "sent"
    BY <1>2 DEF FindSession
  <2> HIDE DEF e
  <2>4. e.at = "found" => e.sid \in Sids /\ ledger'[e.sid].phase # "free"
    BY <1>f, <2>2, <2>3 DEF Live
  <2>5. LedgerTypes' /\ LedgerGrows
    BY <1>1, <2>3 DEF LedgerTypes, OwnerOK, LedgerGrows
  <2> QED BY <1>1, <2>1, <2>2, <2>3, <2>4, <2>5, ServedTypes
<1>3. CASE RevokeSession(x)
  <2> DEFINE e == [exchange[x] EXCEPT !.at = "revoked", !.who = ledger[exchange[x].sid].user]
  <2>1. exchange[x].at = "found" /\ exchange[x].sid \in Sids /\ ledger[exchange[x].sid].user \in Users
        /\ exchange[x].kind \in {"refresh", "boot", "none"}
    BY <1>1, <1>3, <1>f DEF RevokeSession, ExchangeOK, LedgerTypes, OwnerOK
  <2>2. e \in Exchanges
    BY <1>1, <2>1 DEF Exchanges
  <2>3. /\ e.kind = exchange[x].kind /\ e.tab = exchange[x].tab /\ e.ear = exchange[x].ear
        /\ e.sid = exchange[x].sid /\ e.at = "revoked" /\ e.who = ledger[exchange[x].sid].user
    BY <1>1 DEF Exchanges
  <2>4. exchange' = [exchange EXCEPT ![x] = e] /\ promise' = promise /\ RetireIfLive(exchange[x].sid)
    BY <1>3 DEF RevokeSession
  <2> HIDE DEF e
  <2>5. LedgerTypes' /\ LedgerGrows
    BY <1>1, <1>f, <2>4, RetireIfLiveTypes
  <2> QED BY <1>1, <2>1, <2>2, <2>3, <2>4, <2>5, ServedTypes
<1>4. CASE GrantSession(x)
  <2>1. PICK s \in Sids : /\ Server!Grant(s, exchange[x].who, exchange[x].sid)
                          /\ exchange' = [exchange EXCEPT ![x].at = "granted", ![x].sid = s]
    BY <1>4 DEF GrantSession
  <2> DEFINE e == [exchange[x] EXCEPT !.at = "granted", !.sid = s]
  <2>2. exchange[x].who \in Users /\ exchange[x].kind # "logout" /\ exchange[x].at # "idle" /\ promise' = promise
    BY <1>1, <1>4, <1>f DEF GrantSession, ExchangeOK
  <2>3. e \in Exchanges
    BY <1>1 DEF Exchanges
  <2>4. /\ e.kind = exchange[x].kind /\ e.tab = exchange[x].tab /\ e.ear = exchange[x].ear
        /\ e.sid = s /\ e.at = "granted" /\ e.who = exchange[x].who
    BY <1>1 DEF Exchanges
  <2>5. exchange' = [exchange EXCEPT ![x] = e]
    BY <2>1
  <2> HIDE DEF e
  <2>6. LedgerTypes' /\ LedgerGrows
    BY <1>1, <1>f, <2>1, <2>2, GrantTypes
  <2> QED BY <1>1, <2>2, <2>3, <2>4, <2>5, <2>6, ServedTypes
<1>5. CASE CloseSession(x)
  <2> DEFINE e == [exchange[x] EXCEPT !.at = "done"]
  <2>1. e \in Exchanges
    BY <1>1 DEF Exchanges
  <2>2. /\ e.kind = exchange[x].kind /\ e.tab = exchange[x].tab /\ e.ear = exchange[x].ear
        /\ e.at = "done"
    BY <1>1 DEF Exchanges
  <2>3. /\ exchange' = [exchange EXCEPT ![x] = e] /\ promise' = promise /\ RetireIfLive(exchange[x].sid)
        /\ exchange[x].kind = "logout" /\ exchange[x].at = "sent"
    BY <1>5 DEF CloseSession
  <2> HIDE DEF e
  <2>4. LedgerTypes' /\ LedgerGrows
    BY <1>1, <1>f, <2>3, RetireIfLiveTypes
  <2> QED BY <1>1, <2>1, <2>2, <2>3, <2>4, ServedTypes
<1> QED BY <1>2, <1>3, <1>4, <1>5 DEF Serve

(* The request or its answer is lost.                                      *)
LEMMA FailTypes ==
  ASSUME Typed, NEW x \in Slots, Fail(x)
  PROVE  ExchangeTypes'
<1>1. ExchangeTypes /\ LedgerTypes /\ exchange[x] \in Exchanges /\ ExchangeOK(x)
  BY TypedParts DEF ExchangeTypes
<1> DEFINE e == [exchange[x] EXCEPT !.at = "failed"]
<1>2. e \in Exchanges
  BY <1>1 DEF Exchanges
<1>3. /\ e.kind = exchange[x].kind /\ e.tab = exchange[x].tab /\ e.ear = exchange[x].ear
      /\ e.at = "failed" /\ e.who = exchange[x].who
  BY <1>1 DEF Exchanges
<1>4. exchange' = [exchange EXCEPT ![x] = e] /\ promise' = promise /\ ledger' = ledger
      /\ exchange[x].at \in {"sent", "found", "revoked", "granted", "done"}
  BY DEF Fail
<1> HIDE DEF e
<1>5. LedgerGrows
  BY <1>4 DEF LedgerGrows
<1>6. e.kind = "login" => e.who \in Users
  BY <1>1, <1>3 DEF ExchangeOK
<1> QED BY <1>1, <1>2, <1>3, <1>4, <1>5, <1>6, ServedTypes

------------------------------------------------------------------------------
(* Types: the tabs *)

(* What a tab sends.                                                       *)
Request(t, kind, who) ==
  [kind |-> kind, at |-> "sent", tab |-> t, ear |-> "page",
   sid |-> IF kind = "login" THEN None ELSE cookie, who |-> who]

Kinds == {"refresh", "boot", "login", "logout"}

LEMMA RequestType ==
  ASSUME TabTypes, NEW t \in Tabs, NEW kind \in Kinds, NEW who \in Users \union {None}
  PROVE  /\ Request(t, kind, who) \in Exchanges
         /\ Request(t, kind, who).kind = kind /\ Request(t, kind, who).at = "sent"
         /\ Request(t, kind, who).tab = t /\ Request(t, kind, who).ear = "page"
         /\ Request(t, kind, who).sid = IF kind = "login" THEN None ELSE cookie
         /\ Request(t, kind, who).who = who
BY DEF Request, Exchanges, TabTypes, Kinds

(* Slot x takes a request; the page stops to hear of exchanges with ears   *)
(* elsewhere, for which no promise waits any more.                         *)
LEMMA SentTypes ==
  ASSUME ExchangeTypes, TabTypes, NEW x \in Slots, NEW t \in Tabs, NEW kind \in Kinds,
         NEW who \in Users \union {None}, kind = "login" => who \in Users, ledger' = ledger,
         ~InFlight(x), Moves(x, Request(t, kind, who)),
         promise' \in [Tabs -> Slots \union {None}],
         \A v \in Tabs : promise'[v] # None =>
           \/ promise'[v] = x /\ v = t /\ kind = "refresh"
           \/ promise'[v] = promise[v] /\ exchange'[promise[v]].ear = exchange[promise[v]].ear
  PROVE  ExchangeTypes'
<1> DEFINE e == Request(t, kind, who)
<1>1. /\ e \in Exchanges /\ e.kind = kind /\ e.at = "sent" /\ e.tab = t /\ e.ear = "page" /\ e.who = who
  BY RequestType
<1>2. Moves(x, e)
  OBVIOUS
<1> HIDE DEF e
<1>3. ExchangeOK(x)'
  BY <1>1, <1>2 DEF ExchangeOK, Moves, Kinds
<1>4. ASSUME NEW v \in Tabs PROVE PromiseOK(v)'
  <2> SUFFICES ASSUME promise'[v] # None PROVE PromiseOK(v)'
    BY DEF PromiseOK
  <2>1. CASE promise'[v] = x /\ v = t /\ kind = "refresh"
    BY <1>1, <1>2, <2>1 DEF PromiseOK, Moves
  <2>2. CASE promise'[v] = promise[v] /\ exchange'[promise[v]].ear = exchange[promise[v]].ear
    <3>1. PICK y \in Slots : y = promise[v]
      BY <2>2 DEF ExchangeTypes
    <3>2. /\ exchange[y].kind = "refresh" /\ exchange[y].tab = v /\ exchange[y].ear = "page"
          /\ ExchangeOK(y) /\ ExchangeOK(x)
      BY <2>2, <3>1 DEF ExchangeTypes, PromiseOK
    <3>3. y # x
      BY <3>2 DEF InFlight, ExchangeOK
    <3> QED BY <1>2, <2>2, <3>1, <3>2, <3>3 DEF PromiseOK, Moves
  <2> QED BY <2>1, <2>2
<1>5. LedgerGrows
  BY DEF LedgerGrows
<1> QED BY <1>1, <1>2, <1>3, <1>4, <1>5, MovedTypes

(* A plain Send.                                                           *)
LEMMA SendTypes ==
  ASSUME ExchangeTypes, TabTypes, NEW x \in Slots, NEW t \in Tabs, NEW kind \in Kinds,
         NEW who \in Users \union {None}, kind = "login" => who \in Users, ledger' = ledger,
         Send(x, t, kind, who),
         \/ promise' = promise
         \/ kind = "refresh" /\ promise' = [promise EXCEPT ![t] = x]
  PROVE  ExchangeTypes'
<1> DEFINE e == Request(t, kind, who)
<1>1. e \in Exchanges
  BY RequestType
<1>2. exchange' = [exchange EXCEPT ![x] = e] /\ ~InFlight(x)
  BY DEF Send, Request
<1> HIDE DEF e
<1>3. Moves(x, e)
  BY <1>1, <1>2 DEF Moves, ExchangeTypes
<1>4. /\ promise' \in [Tabs -> Slots \union {None}]
      /\ \A v \in Tabs : promise'[v] # None =>
           \/ promise'[v] = x /\ v = t /\ kind = "refresh"
           \/ promise'[v] = promise[v]
  BY DEF ExchangeTypes
<1>5. \A v \in Tabs : promise[v] # None => promise[v] # x
  <2> SUFFICES ASSUME NEW v \in Tabs, promise[v] = x, promise[v] # None PROVE FALSE
    OBVIOUS
  <2>1. exchange[x].kind = "refresh" /\ ExchangeOK(x)
    BY DEF ExchangeTypes, PromiseOK
  <2> QED BY <1>2, <2>1 DEF InFlight, ExchangeOK
<1>6. \A v \in Tabs : promise[v] # None => exchange'[promise[v]].ear = exchange[promise[v]].ear
  BY <1>2, <1>5 DEF ExchangeTypes
<1>7. Moves(x, Request(t, kind, who))
  BY <1>3 DEF e
<1> QED BY <1>2, <1>4, <1>6, <1>7, SentTypes

LEMMA CallRecords ==
  /\ NoCall \in CallStates /\ NoCall.at = "idle"
  /\ \A k \in CallStates : k.at \in {"idle", "sent", "awaiting", "retried"} /\ k.tab \in Tabs \union {None}
  /\ \A k \in CallStates, a \in {"awaiting", "retried"} :
       /\ [k EXCEPT !.at = a] \in CallStates
       /\ [k EXCEPT !.at = a].at = a /\ [k EXCEPT !.at = a].tab = k.tab
  /\ \A t \in Tabs : /\ [at |-> "sent", tab |-> t] \in CallStates
                      /\ [at |-> "sent", tab |-> t].at = "sent" /\ [at |-> "sent", tab |-> t].tab = t
BY DEF NoCall, CallStates

LEMMA CallChanged ==
  ASSUME CallTypes, NEW c \in Calls, NEW k \in CallStates, k.at # "idle" => k.tab \in Tabs,
         call' = [call EXCEPT ![c] = k]
  PROVE  CallTypes'
BY DEF CallTypes, CallOK

(* SendCall, AnswerOk, AnswerUnauthorized                                  *)
LEMMA CallSteps ==
  ASSUME Typed, NEW c \in Calls
  PROVE  /\ \A t \in Tabs : SendCall(c, t) => CallTypes'
         /\ AnswerOk(c) => CallTypes'
         /\ AnswerUnauthorized(c) => CallTypes' /\ ExchangeTypes' /\ disturbed' \in BOOLEAN
<1>1. CallTypes /\ ExchangeTypes /\ TabTypes /\ call[c] \in CallStates /\ disturbed \in BOOLEAN
  BY TypedParts DEF CallTypes
<1>2. ASSUME NEW t \in Tabs, SendCall(c, t) PROVE CallTypes'
  BY <1>1, <1>2, CallRecords, CallChanged DEF SendCall
<1>3. ASSUME AnswerOk(c) PROVE CallTypes'
  BY <1>1, <1>3, CallRecords, CallChanged DEF AnswerOk
<1>4. ASSUME AnswerUnauthorized(c) PROVE CallTypes' /\ ExchangeTypes' /\ disturbed' \in BOOLEAN
  <2>1. CASE call[c].at = "retried"
    BY <1>1, <1>4, <2>1, CallRecords, CallChanged
       DEF AnswerUnauthorized, ExchangeTypes, ExchangeOK, PromiseOK
  <2>2. CASE call[c].at = "sent"
    <3> DEFINE k == [call[c] EXCEPT !.at = "awaiting"]
    <3>1. call[c].tab \in Tabs /\ k \in CallStates /\ k.at = "awaiting" /\ k.tab = call[c].tab
      BY <1>1, <2>2, CallRecords DEF CallTypes, CallOK
    <3>2. call' = [call EXCEPT ![c] = k] /\ JoinRefresh(c) /\ UNCHANGED <<ledger, cookie, page, user>>
      BY <1>4, <2>2 DEF AnswerUnauthorized
    <3> HIDE DEF k
    <3>3. CallTypes'
      BY <1>1, <3>1, <3>2, CallChanged
    <3>4. PICK t \in Tabs : t = call[c].tab
      BY <3>1
    <3>5. CASE promise[t] # None
      BY <1>1, <3>2, <3>3, <3>4, <3>5 DEF JoinRefresh, ExchangeTypes, ExchangeOK, PromiseOK
    <3>6. CASE promise[t] = None
      <4>1. PICK x \in Slots : /\ Send(x, t, "refresh", None)
                               /\ promise' = [promise EXCEPT ![t] = x]
                               /\ disturbed' = (disturbed \/ Races(t, "refresh"))
        BY <3>2, <3>4, <3>6 DEF JoinRefresh
      <4>2. "refresh" \in Kinds /\ "refresh" # "login"
        BY DEF Kinds
      <4>3. ExchangeTypes'
        BY <1>1, <3>2, <4>1, <4>2, SendTypes
      <4> QED BY <3>3, <4>1, <4>3
    <3> QED BY <3>5, <3>6
  <2> QED BY <1>4, <2>1, <2>2 DEF AnswerUnauthorized
<1> QED BY <1>2, <1>3, <1>4

LEMMA DroppedFields ==
  ASSUME NEW E \in [Slots -> Exchanges], NEW t, NEW y \in Slots
  PROVE  /\ Dropped(t, E)[y] \in Exchanges /\ Cancelled(t, E)[y] \in Exchanges
         /\ Dropped(t, E)[y].kind = E[y].kind /\ Dropped(t, E)[y].at = E[y].at
         /\ Dropped(t, E)[y].tab = E[y].tab /\ Dropped(t, E)[y].sid = E[y].sid
         /\ Dropped(t, E)[y].who = E[y].who
         /\ E[y].tab # t => Dropped(t, E)[y] = E[y]
         /\ Cancelled(t, E)[y].kind = E[y].kind /\ Cancelled(t, E)[y].at = E[y].at
         /\ Cancelled(t, E)[y].tab = E[y].tab /\ Cancelled(t, E)[y].sid = E[y].sid
         /\ Cancelled(t, E)[y].who = E[y].who
         /\ E[y].kind # "boot" \/ E[y].tab # t => Cancelled(t, E)[y] = E[y]
<1>1. /\ [E[y] EXCEPT !.ear = "none"] \in Exchanges /\ [E[y] EXCEPT !.ear = "jar"] \in Exchanges
      /\ E[y] \in Exchanges
  BY DEF Exchanges
<1>2. /\ [E[y] EXCEPT !.ear = "none"].kind = E[y].kind /\ [E[y] EXCEPT !.ear = "none"].at = E[y].at
      /\ [E[y] EXCEPT !.ear = "none"].tab = E[y].tab /\ [E[y] EXCEPT !.ear = "none"].sid = E[y].sid
      /\ [E[y] EXCEPT !.ear = "none"].who = E[y].who
  BY <1>1 DEF Exchanges
<1>3. /\ [E[y] EXCEPT !.ear = "jar"].kind = E[y].kind /\ [E[y] EXCEPT !.ear = "jar"].at = E[y].at
      /\ [E[y] EXCEPT !.ear = "jar"].tab = E[y].tab /\ [E[y] EXCEPT !.ear = "jar"].sid = E[y].sid
      /\ [E[y] EXCEPT !.ear = "jar"].who = E[y].who
  BY <1>1 DEF Exchanges
<1>4. Dropped(t, E)[y] = IF E[y].tab = t THEN [E[y] EXCEPT !.ear = "none"] ELSE E[y]
  BY DEF Dropped
<1>5. Cancelled(t, E)[y] = IF E[y].tab = t /\ E[y].kind = "boot" /\ E[y].ear = "page"
                          THEN [E[y] EXCEPT !.ear = "jar"] ELSE E[y]
  BY DEF Cancelled
<1>6. /\ Dropped(t, E)[y] \in Exchanges
      /\ Dropped(t, E)[y].kind = E[y].kind /\ Dropped(t, E)[y].at = E[y].at
      /\ Dropped(t, E)[y].tab = E[y].tab /\ Dropped(t, E)[y].sid = E[y].sid
      /\ Dropped(t, E)[y].who = E[y].who
      /\ E[y].tab # t => Dropped(t, E)[y] = E[y]
  BY <1>1, <1>2, <1>4
<1>7. /\ Cancelled(t, E)[y] \in Exchanges
      /\ Cancelled(t, E)[y].kind = E[y].kind /\ Cancelled(t, E)[y].at = E[y].at
      /\ Cancelled(t, E)[y].tab = E[y].tab /\ Cancelled(t, E)[y].sid = E[y].sid
      /\ Cancelled(t, E)[y].who = E[y].who
      /\ E[y].kind # "boot" \/ E[y].tab # t => Cancelled(t, E)[y] = E[y]
  BY <1>1, <1>3, <1>5
<1> QED BY <1>6, <1>7

LEMMA DroppedType ==
  ASSUME NEW E \in [Slots -> Exchanges], NEW t
  PROVE  Dropped(t, E) \in [Slots -> Exchanges] /\ Cancelled(t, E) \in [Slots -> Exchanges]
<1>1. \A y \in Slots : Dropped(t, E)[y] \in Exchanges /\ Cancelled(t, E)[y] \in Exchanges
  BY DroppedFields
<1>2. Dropped(t, E) = [y \in Slots |-> Dropped(t, E)[y]]
  BY DEF Dropped
<1>3. Cancelled(t, E) = [y \in Slots |-> Cancelled(t, E)[y]]
  BY DEF Cancelled
<1> QED BY <1>1, <1>2, <1>3

(* Some answers are no longer heard.                                       *)
LEMMA HushedTypes ==
  ASSUME ExchangeTypes, ledger' = ledger, exchange' \in [Slots -> Exchanges],
         promise' \in [Tabs -> Slots \union {None}],
         \A v \in Tabs : promise'[v] # None => promise'[v] = promise[v],
         \A v \in Tabs : promise'[v] # None => exchange'[promise[v]].ear = exchange[promise[v]].ear,
         \A y \in Slots : /\ exchange'[y].kind = exchange[y].kind /\ exchange'[y].at = exchange[y].at
                         /\ exchange'[y].tab = exchange[y].tab /\ exchange'[y].sid = exchange[y].sid
                         /\ exchange'[y].who = exchange[y].who
  PROVE  ExchangeTypes'
<1>1. ASSUME NEW y \in Slots PROVE ExchangeOK(y)'
  <2>1. ExchangeOK(y)
    BY DEF ExchangeTypes
  <2> QED BY <2>1 DEF ExchangeOK
<1>2. ASSUME NEW v \in Tabs PROVE PromiseOK(v)'
  <2> SUFFICES ASSUME promise'[v] # None PROVE PromiseOK(v)'
    BY DEF PromiseOK
  <2>1. promise'[v] = promise[v] /\ PromiseOK(v) /\ exchange'[promise[v]].ear = exchange[promise[v]].ear
    BY DEF ExchangeTypes
  <2>2. PICK y \in Slots : y = promise[v]
    BY <2>1 DEF ExchangeTypes
  <2> QED BY <2>1, <2>2 DEF PromiseOK
<1> QED BY <1>1, <1>2 DEF ExchangeTypes

(* An answer is taken: its slot is free, and what the tab stops to hear no *)
(* promise waits for.                                                      *)
LEMMA FreedTypes ==
  ASSUME ExchangeTypes, NEW x \in Slots, NEW t \in Tabs, ledger' = ledger,
         exchange' \in {Freed(x), Cancelled(t, Freed(x)), Dropped(t, Freed(x))},
         promise' \in {promise, [promise EXCEPT ![t] = None]},
         exchange' = Freed(x) \/ exchange' = Cancelled(t, Freed(x)) \/ promise'[t] = None,
         exchange[x].kind = "refresh" /\ exchange[x].ear = "page" =>
           t = exchange[x].tab /\ promise'[t] = None
  PROVE  ExchangeTypes'
<1> DEFINE F == Freed(x)
<1>1. /\ F \in [Slots -> Exchanges] /\ F[x] = NoExchange
      /\ \A y \in Slots \ {x} : F[y] = exchange[y]
  BY NoExchangeType DEF Freed, ExchangeTypes
<1>2. exchange' \in {F, Cancelled(t, F), Dropped(t, F)}
  OBVIOUS
<1>3. exchange' = F \/ exchange' = Cancelled(t, F) \/ (exchange' = Dropped(t, F) /\ promise'[t] = None)
  OBVIOUS
<1> HIDE DEF F
<1>4. NoExchange.tab = None /\ None \notin Tabs
  BY BrowserAssumption DEF NoExchange
<1>5. \A y \in Slots : /\ exchange'[y] \in Exchanges
                      /\ exchange'[y].kind = F[y].kind /\ exchange'[y].at = F[y].at
                      /\ exchange'[y].tab = F[y].tab /\ exchange'[y].sid = F[y].sid
                      /\ exchange'[y].who = F[y].who
  BY <1>1, <1>2, DroppedFields
<1>6. exchange'[x] = NoExchange
  BY <1>1, <1>2, <1>4, DroppedFields, NoExchangeType
<1>7. exchange' \in [Slots -> Exchanges]
  BY <1>1, <1>2, DroppedType
<1>8. Moves(x, NoExchange)
  BY <1>1, <1>5, <1>6, <1>7 DEF Moves
<1>9. ASSUME NEW v \in Tabs PROVE PromiseOK(v)'
  <2> SUFFICES ASSUME promise'[v] # None PROVE PromiseOK(v)'
    BY DEF PromiseOK
  <2>1. promise'[v] = promise[v] /\ PromiseOK(v) /\ promise[v] \in Slots
        /\ (promise'[t] = None => v # t)
    BY DEF ExchangeTypes
  <2>2. PICK y \in Slots : y = promise[v]
    BY <2>1
  <2>3. exchange[y].kind = "refresh" /\ exchange[y].tab = v /\ exchange[y].ear = "page"
    BY <2>1, <2>2 DEF PromiseOK
  <2>4. y # x
    BY <2>1, <2>3
  <2>5. exchange'[y] = exchange[y]
    BY <1>1, <1>3, <2>1, <2>3, <2>4, DroppedFields
  <2> QED BY <2>1, <2>2, <2>3, <2>5 DEF PromiseOK
<1>10. ExchangeOK(x)'
  BY <1>6, NoExchangeType DEF ExchangeOK
<1>11. promise' \in [Tabs -> Slots \union {None}] /\ LedgerGrows
  BY DEF ExchangeTypes, LedgerGrows
<1> QED BY <1>8, <1>9, <1>10, <1>11, NoExchangeType, MovedTypes

LEMMA SetCookieType ==
  ASSUME TabTypes, ExchangeTypes, NEW x \in Slots, SetCookie(x)
  PROVE  cookie' \in Sids \union {None}
<1>1. exchange[x].at = "granted" => exchange[x].sid \in Sids
  BY DEF ExchangeTypes, ExchangeOK
<1>2. CASE exchange[x].ear = "none"
  BY <1>2 DEF SetCookie, TabTypes
<1>3. CASE exchange[x].ear # "none" /\ exchange[x].at = "granted"
  BY <1>1, <1>3 DEF SetCookie
<1>4. CASE exchange[x].ear # "none" /\ exchange[x].at = "done"
  BY <1>4 DEF SetCookie
<1>5. CASE exchange[x].ear # "none" /\ exchange[x].at \notin {"granted", "done"}
  BY <1>5 DEF SetCookie, TabTypes
<1> QED BY <1>2, <1>3, <1>4, <1>5

LEMMA MassCalls ==
  ASSUME CallTypes, NEW t
  PROVE  /\ call' = Dismissed(t) => CallTypes'
         /\ call' = Resumed(t) => CallTypes'
<1>1. ASSUME call' = Dismissed(t) PROVE CallTypes'
  <2>1. \A c \in Calls : call'[c] = NoCall \/ call'[c] = call[c]
    BY <1>1 DEF Dismissed
  <2>2. call' = [c \in Calls |-> call'[c]]
    BY <1>1 DEF Dismissed
  <2> QED BY <2>1, <2>2, CallRecords DEF CallTypes, CallOK
<1>2. ASSUME call' = Resumed(t) PROVE CallTypes'
  <2>1. \A c \in Calls : call'[c] = call[c] \/ (call'[c] = [call[c] EXCEPT !.at = "retried"] /\ call[c].at = "awaiting")
    BY <1>2 DEF Resumed
  <2>2. call' = [c \in Calls |-> call'[c]]
    BY <1>2 DEF Resumed
  <2>3. \A c \in Calls : call'[c] \in CallStates /\ (call'[c].at # "idle" => call'[c].tab \in Tabs)
    <3> SUFFICES ASSUME NEW c \in Calls PROVE call'[c] \in CallStates /\ (call'[c].at # "idle" => call'[c].tab \in Tabs)
      OBVIOUS
    <3>1. call[c] \in CallStates /\ (call[c].at # "idle" => call[c].tab \in Tabs)
      BY DEF CallTypes, CallOK
    <3>2. CASE call'[c] = call[c]
      BY <3>1, <3>2
    <3>3. CASE call'[c] = [call[c] EXCEPT !.at = "retried"] /\ call[c].at = "awaiting"
      <4>1. PICK k \in CallStates : k = call[c]
        BY <3>1
      <4>2. [k EXCEPT !.at = "retried"] \in CallStates /\ [k EXCEPT !.at = "retried"].tab = k.tab
        BY CallRecords
      <4>3. call'[c] = [k EXCEPT !.at = "retried"] /\ k.at = "awaiting"
        BY <3>3, <4>1
      <4> QED BY <3>1, <4>1, <4>2, <4>3
    <3> QED BY <2>1, <3>2, <3>3
  <2> QED BY <2>2, <2>3 DEF CallTypes, CallOK
<1> QED BY <1>1, <1>2

LEMMA SettleTypes ==
  ASSUME Typed, NEW x \in Slots, Settle(x)
  PROVE  TabTypes' /\ CallTypes' /\ ExchangeTypes'
<1>1. /\ TabTypes /\ CallTypes /\ ExchangeTypes /\ ExchangeOK(x) /\ exchange[x] \in Exchanges
      /\ ledger' = ledger
  BY TypedParts DEF ExchangeTypes, Settle, SettleRefresh, SettleBoot, SettleLogin, SettleLogout, SettleUnheard
<1>2. Answered(x) /\ SetCookie(x)
  BY DEF Settle, SettleRefresh, SettleBoot, SettleLogin, SettleLogout, SettleUnheard
<1>3. PICK t \in Tabs : t = exchange[x].tab
  BY <1>1, <1>2 DEF ExchangeOK, Answered
<1>4. cookie' \in Sids \union {None}
  BY <1>1, <1>2, SetCookieType
<1>5. exchange[x].at = "granted" => exchange[x].who \in Users
  BY <1>1 DEF ExchangeOK
<1>6. call' = call => CallTypes'
  BY <1>1 DEF CallTypes, CallOK
<1>7. user' \in [Tabs -> Users \union {None}] /\ page' \in [Tabs -> {"login", "boot", "app"}] => TabTypes'
  BY <1>4 DEF TabTypes
<1>8. CASE SettleRefresh(x)
  <2>1. /\ promise' = [promise EXCEPT ![t] = None] /\ promise'[t] = None
    BY <1>1, <1>3, <1>8 DEF SettleRefresh, ResetPromise, ExchangeTypes
  <2>2. CASE exchange[x].at = "granted"
    <3>1. /\ user' = [user EXCEPT ![t] = exchange[x].who]
          /\ page' = [page EXCEPT ![t] = IF page[t] = "boot" THEN "app" ELSE page[t]]
          /\ call' = Resumed(t) /\ exchange' = Cancelled(t, Freed(x))
      BY <1>3, <1>8, <2>2 DEF SettleRefresh
    <3>2. TabTypes'
      BY <1>1, <1>5, <1>7, <2>2, <3>1 DEF TabTypes
    <3> QED BY <1>1, <1>3, <2>1, <3>1, <3>2, MassCalls, FreedTypes
  <2>3. CASE exchange[x].at # "granted"
    <3>1. /\ user' = [user EXCEPT ![t] = None] /\ page' = [page EXCEPT ![t] = "login"]
          /\ call' = Dismissed(t) /\ exchange' = Dropped(t, Freed(x))
      BY <1>3, <1>8, <2>3 DEF SettleRefresh
    <3>2. TabTypes'
      BY <1>1, <1>7, <3>1 DEF TabTypes
    <3> QED BY <1>1, <1>3, <2>1, <3>1, <3>2, MassCalls, FreedTypes
  <2> QED BY <2>2, <2>3
<1>9. CASE SettleBoot(x)
  <2>1. /\ promise' = promise /\ call' = call /\ exchange' = Freed(x) /\ exchange[x].kind = "boot"
        /\ page' = [page EXCEPT ![t] = IF exchange[x].at = "granted" THEN "app" ELSE "login"]
        /\ IF exchange[x].at = "granted" THEN user' = [user EXCEPT ![t] = exchange[x].who] ELSE user' = user
    BY <1>3, <1>9 DEF SettleBoot, Checked
  <2>2. TabTypes'
    BY <1>1, <1>5, <1>7, <2>1 DEF TabTypes
  <2> QED BY <1>1, <1>3, <1>6, <2>1, <2>2, FreedTypes
<1>10. CASE SettleLogin(x)
  <2>1. /\ promise' = promise /\ call' = call /\ exchange[x].kind = "login"
        /\ exchange' \in {Freed(x), Cancelled(t, Freed(x))}
        /\ \/ exchange[x].at = "granted" /\ user' = [user EXCEPT ![t] = exchange[x].who]
              /\ page' = [page EXCEPT ![t] = "app"]
           \/ user' = user /\ page' = page
    BY <1>3, <1>10 DEF SettleLogin
  <2>2. TabTypes'
    BY <1>1, <1>5, <1>7, <2>1 DEF TabTypes
  <2> QED BY <1>1, <1>3, <1>6, <2>1, <2>2, FreedTypes
<1>11. CASE SettleLogout(x)
  <2>1. /\ promise' = promise /\ call' = call /\ exchange[x].kind = "logout"
        /\ exchange' = Cancelled(t, Freed(x))
        /\ user' = [user EXCEPT ![t] = None] /\ page' = [page EXCEPT ![t] = "login"]
    BY <1>3, <1>11 DEF SettleLogout
  <2>2. TabTypes'
    BY <1>1, <1>7, <2>1 DEF TabTypes
  <2> QED BY <1>1, <1>3, <1>6, <2>1, <2>2, FreedTypes
<1>12. CASE SettleUnheard(x)
  <2>1. /\ promise' = promise /\ call' = call /\ exchange[x].ear # "page" /\ exchange' = Freed(x)
        /\ user' = user /\ page' = page
    BY <1>12 DEF SettleUnheard
  <2>2. TabTypes'
    BY <1>1, <1>7, <2>1 DEF TabTypes
  <2> QED BY <1>1, <1>3, <1>6, <2>1, <2>2, FreedTypes
<1> QED BY <1>8, <1>9, <1>10, <1>11, <1>12 DEF Settle

LEMMA VisitTypes ==
  ASSUME Typed, NEW t \in Tabs, Visit(t)
  PROVE  TabTypes' /\ CallTypes' /\ ExchangeTypes' /\ disturbed' \in BOOLEAN
<1>1. TabTypes /\ CallTypes /\ ExchangeTypes /\ disturbed \in BOOLEAN
  BY TypedParts
<1>2. UNCHANGED <<exchange, promise, ledger>> => ExchangeTypes'
  BY <1>1 DEF ExchangeTypes, ExchangeOK, PromiseOK
<1>3. call' = call => CallTypes'
  BY <1>1 DEF CallTypes, CallOK
<1>4. cookie' = cookie /\ user' \in [Tabs -> Users \union {None}]
      /\ page' \in [Tabs -> {"login", "boot", "app"}] => TabTypes'
  BY <1>1 DEF TabTypes
<1>5. \A kind \in Kinds, x \in Slots, who \in Users \union {None} :
        /\ ledger' = ledger /\ promise' = promise /\ Send(x, t, kind, who)
        /\ kind = "login" => who \in Users
        => ExchangeTypes'
  BY <1>1, SendTypes
<1>6. CASE OpenApp(t)
  <2>1. TabTypes' /\ call' = call
    BY <1>1, <1>4, <1>6 DEF OpenApp, TabTypes
  <2>0. UNCHANGED <<ledger, promise>> /\ "boot" \in Kinds /\ "boot" # "login"
    BY <1>6 DEF OpenApp, Kinds
  <2>2. ASSUME NEW x \in Slots, Send(x, t, "boot", None) PROVE ExchangeTypes'
    BY <1>1, <2>0, <2>2, SendTypes
  <2>3. CASE UNCHANGED <<exchange, disturbed>>
    BY <1>1, <1>2, <1>3, <1>6, <2>1, <2>3 DEF OpenApp
  <2>4. disturbed' \in BOOLEAN
    BY <1>1, <1>6 DEF OpenApp
  <2> QED BY <1>3, <1>6, <2>1, <2>2, <2>3, <2>4 DEF OpenApp
<1>7. CASE SubmitLogin(t)
  <2>1. TabTypes' /\ call' = call /\ disturbed' \in BOOLEAN
    BY <1>1, <1>4, <1>7 DEF SubmitLogin, TabTypes
  <2>2. ExchangeTypes'
    BY <1>5, <1>7 DEF SubmitLogin, Kinds
  <2> QED BY <1>3, <2>1, <2>2
<1>8. CASE HandleLogout(t)
  <2>1. TabTypes' /\ call' = call /\ disturbed' \in BOOLEAN
    BY <1>1, <1>4, <1>8 DEF HandleLogout, TabTypes
  <2>2. ExchangeTypes'
    BY <1>5, <1>8 DEF HandleLogout, Kinds
  <2> QED BY <1>3, <2>1, <2>2
<1>9. CASE LeaveBoot(t)
  <2>1. /\ page' = [page EXCEPT ![t] = "login"] /\ exchange' = Cancelled(t, exchange)
        /\ disturbed' = TRUE /\ UNCHANGED <<ledger, cookie, user, promise, call>>
    BY <1>9 DEF LeaveBoot
  <2>2. TabTypes'
    BY <1>1, <1>4, <2>1 DEF TabTypes
  <2>3. exchange \in [Slots -> Exchanges] /\ exchange' \in [Slots -> Exchanges]
    BY <1>1, <2>1, DroppedType DEF ExchangeTypes
  <2>4. \A y \in Slots : /\ exchange'[y].kind = exchange[y].kind /\ exchange'[y].at = exchange[y].at
                        /\ exchange'[y].tab = exchange[y].tab /\ exchange'[y].sid = exchange[y].sid
                        /\ exchange'[y].who = exchange[y].who
    BY <2>1, <2>3, DroppedFields
  <2>5. \A v \in Tabs : promise[v] # None => exchange'[promise[v]].ear = exchange[promise[v]].ear
    <3> SUFFICES ASSUME NEW v \in Tabs, promise[v] # None
                 PROVE  exchange'[promise[v]].ear = exchange[promise[v]].ear
      OBVIOUS
    <3>1. PICK y \in Slots : y = promise[v]
      BY <1>1 DEF ExchangeTypes
    <3>2. exchange[y].kind = "refresh"
      BY <1>1, <3>1 DEF ExchangeTypes, PromiseOK
    <3>3. exchange'[y] = exchange[y]
      BY <2>1, <2>3, <3>2, DroppedFields
    <3> QED BY <3>1, <3>3
  <2>6. promise' \in [Tabs -> Slots \union {None}] /\ promise' = promise /\ ledger' = ledger
    BY <1>1, <2>1 DEF ExchangeTypes
  <2>7. ExchangeTypes'
    BY <1>1, <2>3, <2>4, <2>5, <2>6, HushedTypes
  <2> QED BY <1>3, <2>1, <2>2, <2>7
<1>10. CASE Reload(t)
  <2>1. /\ user' = [user EXCEPT ![t] = None] /\ promise' = [promise EXCEPT ![t] = None]
        /\ call' = Dismissed(t) /\ disturbed' = (disturbed \/ ~Quiet) /\ UNCHANGED <<ledger, cookie>>
        /\ page' \in {page, [page EXCEPT ![t] = "boot"]}
    BY <1>10 DEF Reload
  <2>2. TabTypes' /\ CallTypes' /\ disturbed' \in BOOLEAN
    BY <1>1, <1>4, <2>1, MassCalls DEF TabTypes
  <2> DEFINE D == Dropped(t, exchange)
  <2>d. exchange \in [Slots -> Exchanges] /\ D \in [Slots -> Exchanges]
    BY <1>1, DroppedType DEF ExchangeTypes
  <2>3. \A y \in Slots : /\ D[y].kind = exchange[y].kind /\ D[y].at = exchange[y].at
                        /\ D[y].tab = exchange[y].tab /\ D[y].sid = exchange[y].sid
                        /\ D[y].who = exchange[y].who
    BY <2>d, DroppedFields
  <2>e. \A y \in Slots : exchange[y].tab # t => D[y] = exchange[y]
    BY <2>d, DroppedFields
  <2>4. \/ page[t] = "login" /\ exchange' = D
        \/ \E x \in Slots : ~InFlight(x) /\ exchange' = [D EXCEPT ![x] = Request(t, "boot", None)]
    BY <1>10 DEF Reload, Request
  <2> HIDE DEF D
  <2>5. /\ promise' \in [Tabs -> Slots \union {None}]
        /\ \A v \in Tabs : promise'[v] # None => v # t /\ promise'[v] = promise[v]
    BY <1>1, <2>1 DEF ExchangeTypes
  <2>6. ASSUME NEW v \in Tabs, promise'[v] # None
        PROVE  /\ promise[v] \in Slots /\ exchange[promise[v]].kind = "refresh"
               /\ D[promise[v]].ear = exchange[promise[v]].ear
    <3>1. PICK y \in Slots : y = promise[v]
      BY <1>1, <2>5, <2>6 DEF ExchangeTypes
    <3>2. exchange[y].kind = "refresh" /\ exchange[y].tab = v /\ v # t
      BY <1>1, <2>5, <2>6, <3>1 DEF ExchangeTypes, PromiseOK
    <3> QED BY <2>e, <3>1, <3>2
  <2>7. CASE exchange' = D
    <3>1. \A v \in Tabs : promise'[v] # None => promise'[v] = promise[v]
      BY <2>5
    <3>2. \A v \in Tabs : promise'[v] # None => exchange'[promise[v]].ear = exchange[promise[v]].ear
      BY <2>6, <2>7
    <3>3. ExchangeTypes'
      BY <1>1, <2>1, <2>3, <2>5, <2>7, <2>d, <3>1, <3>2, HushedTypes
    <3> QED BY <2>2, <3>3
  <2>8. ASSUME NEW x \in Slots, ~InFlight(x), exchange' = [D EXCEPT ![x] = Request(t, "boot", None)]
        PROVE  ExchangeTypes'
    <3>0. "boot" \in Kinds /\ Request(t, "boot", None) \in Exchanges
      BY <1>1, RequestType DEF Kinds
    <3>1. Moves(x, Request(t, "boot", None))
      BY <2>3, <2>8, <2>d, <3>0 DEF Moves
    <3>2. \A v \in Tabs : promise'[v] # None => promise[v] # x
      <4> SUFFICES ASSUME NEW v \in Tabs, promise'[v] # None, promise[v] = x PROVE FALSE
        OBVIOUS
      <4>1. exchange[x].kind = "refresh" /\ ExchangeOK(x)
        BY <1>1, <2>6 DEF ExchangeTypes
      <4> QED BY <2>8, <4>1 DEF InFlight, ExchangeOK
    <3>3. \A v \in Tabs : promise'[v] # None =>
            promise'[v] = promise[v] /\ exchange'[promise[v]].ear = exchange[promise[v]].ear
      BY <2>5, <2>6, <2>8, <2>d, <3>2
    <3> QED BY <1>1, <2>1, <2>5, <2>8, <3>0, <3>1, <3>3, SentTypes
  <2> QED BY <2>2, <2>4, <2>7, <2>8
<1>11. ASSUME NEW c \in Calls, SendCall(c, t)
       PROVE  TabTypes' /\ CallTypes' /\ ExchangeTypes' /\ disturbed' \in BOOLEAN
  BY <1>1, <1>2, <1>11, CallSteps DEF SendCall, TabTypes
<1> QED BY <1>6, <1>7, <1>8, <1>9, <1>10, <1>11 DEF Visit

LEMMA InitTypes == Init => Typed
<1> SUFFICES ASSUME Init PROVE Typed
  OBVIOUS
<1>1. LedgerTypes
  BY DEF Init, LedgerTypes, OwnerOK, Server!LedgerInit, Server!FreeEntry
<1>2. TabTypes /\ CallTypes
  BY CallRecords DEF Init, TabTypes, CallTypes, CallOK
<1>3. ExchangeTypes
  BY NoExchangeType DEF Init, ExchangeTypes, ExchangeOK, PromiseOK
<1> QED BY <1>1, <1>2, <1>3, TypedParts DEF Init

LEMMA NextTypes ==
  ASSUME Typed, [Next]_vars
  PROVE  Typed'
<1>1. LedgerTypes /\ TabTypes /\ CallTypes /\ ExchangeTypes /\ disturbed \in BOOLEAN
  BY TypedParts
<1> SUFFICES LedgerTypes' /\ TabTypes' /\ CallTypes' /\ ExchangeTypes' /\ disturbed' \in BOOLEAN
  BY TypedParts DEF Typed, TypeOK, LedgerTypes, TabTypes, CallTypes, ExchangeTypes, PromiseOK
<1>2. ledger' = ledger => LedgerTypes'
  BY <1>1 DEF LedgerTypes, OwnerOK
<1>3. UNCHANGED <<cookie, page, user>> => TabTypes'
  BY <1>1 DEF TabTypes
<1>4. call' = call => CallTypes'
  BY <1>1 DEF CallTypes, CallOK
<1>5. UNCHANGED <<exchange, promise>> /\ LedgerGrows => ExchangeTypes'
  <2> SUFFICES ASSUME UNCHANGED <<exchange, promise>>, LedgerGrows PROVE ExchangeTypes'
    OBVIOUS
  <2>1. \A x \in Slots : ExchangeOK(x)'
    BY <1>1 DEF ExchangeTypes, ExchangeOK, LedgerGrows
  <2>2. \A t \in Tabs : PromiseOK(t)'
    BY <1>1 DEF ExchangeTypes, PromiseOK
  <2> QED BY <1>1, <2>1, <2>2 DEF ExchangeTypes
<1>6. ledger' = ledger => LedgerGrows
  BY DEF LedgerGrows
<1>7. ASSUME NEW x \in Slots, Serve(x) PROVE TabTypes' /\ CallTypes' /\ disturbed' \in BOOLEAN
  <2>1. UNCHANGED <<cookie, page, user, call, disturbed>>
    BY <1>7 DEF Serve, FindSession, RevokeSession, GrantSession, CloseSession
  <2> QED BY <1>1, <1>3, <1>4, <2>1
<1>8. ASSUME NEW x \in Slots, Fail(x) PROVE LedgerTypes' /\ TabTypes' /\ CallTypes' /\ disturbed' \in BOOLEAN
  BY <1>2, <1>3, <1>4, <1>8 DEF Fail
<1>9. ASSUME NEW x \in Slots, Settle(x) PROVE LedgerTypes' /\ disturbed' \in BOOLEAN
  BY <1>1, <1>2, <1>9 DEF Settle, SettleRefresh, SettleBoot, SettleLogin, SettleLogout, SettleUnheard
<1>10. ASSUME NEW c \in Calls, AnswerOk(c)
       PROVE  LedgerTypes' /\ TabTypes' /\ CallTypes' /\ ExchangeTypes' /\ disturbed' \in BOOLEAN
  <2>1. UNCHANGED <<ledger, cookie, page, user, promise, exchange, disturbed>>
    BY <1>10 DEF AnswerOk
  <2> QED BY <1>1, <1>2, <1>3, <1>5, <1>6, <1>10, <2>1, CallSteps
<1>11. ASSUME NEW c \in Calls, AnswerUnauthorized(c) PROVE LedgerTypes' /\ TabTypes'
  BY <1>2, <1>3, <1>11 DEF AnswerUnauthorized
<1>12. ASSUME NEW t \in Tabs, Visit(t) PROVE LedgerTypes'
  BY <1>2, <1>12 DEF Visit, OpenApp, SubmitLogin, HandleLogout, LeaveBoot, Reload, SendCall
<1>13. ASSUME EndSessions
       PROVE  LedgerTypes' /\ TabTypes' /\ CallTypes' /\ ExchangeTypes' /\ disturbed' \in BOOLEAN
  <2>1. PICK S \in SUBSET Sids : Server!Retire(S)
    BY <1>13 DEF EndSessions
  <2>2. LedgerTypes' /\ LedgerGrows
    BY <1>1, <2>1, RetireTypes
  <2> QED BY <1>3, <1>4, <1>5, <1>13, <2>2 DEF EndSessions
<1>14. CASE UNCHANGED vars
  BY <1>1, <1>2, <1>3, <1>4, <1>5, <1>6, <1>14 DEF vars
<1> QED BY <1>7, <1>8, <1>9, <1>10, <1>11, <1>12, <1>13, <1>14, ServeTypes, FailTypes, SettleTypes,
           CallSteps, VisitTypes DEF Next

------------------------------------------------------------------------------
(* A browser that nothing disturbs *)

NoneLive == \A s \in Sids : ledger[s].phase # "live"

(* Who is shown, in every tab that shows somebody.                         *)
ShowsOnly(u) == \A t \in Tabs : user[t] \in {None, u}

(* The cookie names the only live session, of the user the tabs show.      *)
Matches ==
  /\ \A s \in Sids : ledger[s].phase = "live" => s = cookie
  /\ cookie # None => ledger[cookie].phase = "live" /\ ShowsOnly(ledger[cookie].user)

(* Some tab can sign out.                                                  *)
Anchored == \E t \in Tabs : user[t] # None /\ page[t] = "app"

Agreed == Matches /\ (cookie # None => Anchored)

(* What holds while x is the exchange in flight.                           *)
Holds(x) ==
  LET e == exchange[x] IN
  /\ e.ear = "page" /\ e.at # "failed"
  /\ e.kind = "refresh" => promise[e.tab] = x
  /\ e.kind = "login" => cookie = None /\ \A t \in Tabs \ {e.tab} : user[t] = None
  /\ e.kind = "login" /\ e.at = "sent" => NoneLive /\ e.sid = None
  /\ e.kind # "login" /\ e.at \in {"sent", "found"} => e.sid = cookie /\ Matches
  /\ e.kind = "refresh" /\ e.at \in {"sent", "found"} /\ cookie # None => Anchored
  /\ e.at = "found" => cookie # None
  /\ e.at = "revoked" => NoneLive /\ ShowsOnly(e.who)
  /\ e.at = "granted" => /\ \A s \in Sids : ledger[s].phase = "live" => s = e.sid
                         /\ ledger[e.sid].phase = "live" /\ ledger[e.sid].user = e.who
                         /\ e.kind # "login" => ShowsOnly(e.who)
  /\ e.kind = "refresh" /\ e.at \in {"revoked", "granted"} => Anchored
  /\ e.at = "done" => NoneLive
  /\ e.at = "denied" => NoneLive /\ e.sid = None /\ cookie = None

Single == \A x, y \in Slots : InFlight(x) /\ InFlight(y) => x = y

Calm ==
  /\ Single
  /\ \A x \in Slots : InFlight(x) => Holds(x)
  /\ Quiet => Agreed

SessionInv == Typed /\ (disturbed \/ Calm)

(* The exchange in flight goes on.                                         *)
LEMMA GoesOn ==
  ASSUME Calm, NEW x \in Slots, InFlight(x), InFlight(x)', Holds(x)',
         \A y \in Slots \ {x} : exchange'[y] = exchange[y]
  PROVE  Calm'
<1>1. \A y \in Slots \ {x} : ~InFlight(y) /\ ~InFlight(y)'
  BY DEF Calm, Single, InFlight
<1> QED BY <1>1 DEF Calm, Single, Quiet

(* It ends.                                                                *)
LEMMA Ends ==
  ASSUME Calm, NEW x \in Slots, InFlight(x), ~InFlight(x)', Agreed',
         \A y \in Slots \ {x} : exchange'[y].at = exchange[y].at
  PROVE  Calm'
<1>1. \A y \in Slots : ~InFlight(y)'
  BY DEF Calm, Single, InFlight
<1> QED BY <1>1 DEF Calm, Single, Quiet

(* One is sent.                                                            *)
LEMMA Begins ==
  ASSUME NEW x \in Slots, Quiet, InFlight(x)', Holds(x)',
         \A y \in Slots \ {x} : exchange'[y].at = exchange[y].at
  PROVE  Calm'
<1>1. \A y \in Slots \ {x} : ~InFlight(y)'
  BY DEF Quiet, InFlight
<1> QED BY <1>1 DEF Calm, Single, Quiet

(* The server's part.                                                      *)
LEMMA CalmServes ==
  ASSUME SessionInv, ~disturbed, NEW x \in Slots, Serve(x)
  PROVE  Calm'
<1>1. /\ Calm /\ ExchangeOK(x) /\ LedgerTypes /\ exchange \in [Slots -> Exchanges]
      /\ exchange[x] \in Exchanges /\ cookie \in Sids \union {None} /\ None \notin Sids
  BY TypedParts, BrowserAssumption DEF SessionInv, ExchangeTypes, TabTypes
<1>2. InFlight(x) /\ UNCHANGED <<cookie, page, user, promise>>
  BY DEF Serve, FindSession, RevokeSession, GrantSession, CloseSession, InFlight
<1>3. Holds(x)
  BY <1>1, <1>2 DEF Calm
<1>f. /\ exchange[x].kind \in {"none", "refresh", "boot", "login", "logout"}
      /\ exchange[x].at \in {"idle", "sent", "found", "revoked", "granted", "done", "denied", "failed"}
      /\ exchange[x].sid \in Sids \union {None} /\ exchange[x].who \in Users \union {None}
  BY <1>1, ExchangeFields
<1>4. /\ Anchored' <=> Anchored
      /\ \A u : ShowsOnly(u)' <=> ShowsOnly(u)
  BY <1>2 DEF Anchored, ShowsOnly
<1>5. CASE FindSession(x)
  <2>1. /\ exchange'[x] = [exchange[x] EXCEPT !.at = IF Live(exchange[x].sid) THEN "found" ELSE "denied"]
        /\ \A y \in Slots \ {x} : exchange'[y] = exchange[y]
        /\ exchange[x].kind \in {"refresh", "boot"} /\ exchange[x].at = "sent" /\ ledger' = ledger
    BY <1>1, <1>5 DEF FindSession
  <2>2. /\ exchange'[x].kind = exchange[x].kind /\ exchange'[x].tab = exchange[x].tab
        /\ exchange'[x].ear = exchange[x].ear /\ exchange'[x].sid = exchange[x].sid
        /\ exchange'[x].at = IF Live(exchange[x].sid) THEN "found" ELSE "denied"
    BY <1>1, <2>1 DEF Exchanges
  <2>3. exchange[x].sid = cookie /\ Matches
    BY <1>3, <2>1 DEF Holds
  <2>4. CASE Live(exchange[x].sid)
    <3>1. cookie # None /\ exchange'[x].at = "found" /\ Matches'
      BY <1>2, <2>1, <2>2, <2>3, <2>4 DEF Live, Matches, ShowsOnly
    <3>2. Holds(x)' /\ InFlight(x)'
      BY <1>2, <1>3, <1>4, <2>1, <2>2, <2>3, <3>1 DEF Holds, InFlight
    <3> QED BY <1>1, <1>2, <2>1, <3>2, GoesOn
  <2>5. CASE ~Live(exchange[x].sid)
    <3>1. cookie = None /\ exchange'[x].at = "denied" /\ NoneLive'
      BY <1>1, <2>1, <2>2, <2>3, <2>5 DEF Live, Matches, NoneLive
    <3>2. Holds(x)' /\ InFlight(x)'
      BY <1>2, <1>3, <2>1, <2>2, <2>3, <3>1 DEF Holds, InFlight
    <3> QED BY <1>1, <1>2, <2>1, <3>2, GoesOn
  <2> QED BY <2>4, <2>5
<1>6. CASE RevokeSession(x)
  <2>1. /\ exchange'[x] = [exchange[x] EXCEPT !.at = "revoked", !.who = ledger[exchange[x].sid].user]
        /\ \A y \in Slots \ {x} : exchange'[y] = exchange[y]
        /\ exchange[x].at = "found" /\ RetireIfLive(exchange[x].sid)
    BY <1>1, <1>6 DEF RevokeSession
  <2>2. /\ exchange'[x].kind = exchange[x].kind /\ exchange'[x].tab = exchange[x].tab
        /\ exchange'[x].ear = exchange[x].ear /\ exchange'[x].at = "revoked"
        /\ exchange'[x].who = ledger[exchange[x].sid].user
    BY <1>1, <2>1 DEF Exchanges
  <2>3. /\ exchange[x].kind \in {"refresh", "boot"} /\ exchange[x].sid = cookie /\ cookie # None
        /\ Matches /\ (exchange[x].kind = "refresh" => Anchored)
    BY <1>1, <1>2, <1>3, <1>f, <2>1 DEF Holds, ExchangeOK, InFlight
  <2>4. Live(exchange[x].sid) /\ Server!Retire({exchange[x].sid})
    BY <2>1, <2>3 DEF Matches, Live, RetireIfLive
  <2>5. NoneLive'
    BY <1>1, <2>3, <2>4 DEF NoneLive, Matches, Server!Retire, LedgerTypes
  <2>6. ShowsOnly(ledger[cookie].user)
    BY <2>3 DEF Matches
  <2>7. PICK u : u = ledger[cookie].user
    OBVIOUS
  <2>8. ShowsOnly(u)' /\ exchange'[x].who = u
    BY <1>4, <2>2, <2>3, <2>6, <2>7
  <2>9. Holds(x)' /\ InFlight(x)'
    BY <1>2, <1>3, <1>4, <2>2, <2>3, <2>5, <2>8 DEF Holds, InFlight, ShowsOnly
  <2> QED BY <1>1, <1>2, <2>1, <2>9, GoesOn
<1>7. CASE GrantSession(x)
  <2>1. PICK s \in Sids : /\ Server!Grant(s, exchange[x].who, exchange[x].sid)
                          /\ exchange' = [exchange EXCEPT ![x].at = "granted", ![x].sid = s]
    BY <1>7 DEF GrantSession
  <2>2. exchange'[x] = [exchange[x] EXCEPT !.at = "granted", !.sid = s]
        /\ \A y \in Slots \ {x} : exchange'[y] = exchange[y]
    BY <1>1, <2>1
  <2>3. /\ exchange'[x].kind = exchange[x].kind /\ exchange'[x].tab = exchange[x].tab
        /\ exchange'[x].ear = exchange[x].ear /\ exchange'[x].at = "granted"
        /\ exchange'[x].who = exchange[x].who /\ exchange'[x].sid = s
    BY <1>1, <2>2 DEF Exchanges
  <2>4. \/ exchange[x].at = "revoked"
        \/ exchange[x].kind = "login" /\ exchange[x].at = "sent"
    BY <1>7 DEF GrantSession
  <2>5. NoneLive /\ exchange[x].who \in Users /\ (exchange[x].kind # "login" => ShowsOnly(exchange[x].who))
    BY <1>1, <1>3, <2>4 DEF Holds, ExchangeOK
  <2>6. ledger' = [ledger EXCEPT ![s] = [phase |-> "live", user |-> exchange[x].who, parent |-> exchange[x].sid]]
    BY <1>1, <1>f, <2>1, <2>5, GrantTypes
  <2>7. /\ \A z \in Sids : ledger'[z].phase = "live" => z = s
        /\ ledger'[s].phase = "live" /\ ledger'[s].user = exchange[x].who
    BY <1>1, <2>5, <2>6 DEF NoneLive, LedgerTypes
  <2>10. PICK u : u = exchange[x].who
    OBVIOUS
  <2>11. exchange[x].kind # "login" => ShowsOnly(u)'
    BY <1>4, <2>5, <2>10
  <2>12. Holds(x)' /\ InFlight(x)'
    BY <1>2, <1>3, <1>4, <2>3, <2>4, <2>7, <2>10, <2>11 DEF Holds, InFlight, ShowsOnly
  <2> QED BY <1>1, <1>2, <2>2, <2>12, GoesOn
<1>8. CASE CloseSession(x)
  <2>1. /\ exchange'[x] = [exchange[x] EXCEPT !.at = "done"]
        /\ \A y \in Slots \ {x} : exchange'[y] = exchange[y]
        /\ exchange[x].kind = "logout" /\ exchange[x].at = "sent" /\ RetireIfLive(exchange[x].sid)
    BY <1>1, <1>8 DEF CloseSession
  <2>2. /\ exchange'[x].kind = exchange[x].kind /\ exchange'[x].ear = exchange[x].ear
        /\ exchange'[x].at = "done"
    BY <1>1, <2>1 DEF Exchanges
  <2>3. exchange[x].sid = cookie /\ Matches
    BY <1>3, <2>1 DEF Holds
  <2>4. NoneLive'
    <3>1. CASE Live(cookie)
      BY <1>1, <2>1, <2>3, <3>1 DEF NoneLive, Matches, RetireIfLive, Server!Retire, LedgerTypes
    <3>2. CASE ~Live(cookie)
      BY <1>1, <2>1, <2>3, <3>2 DEF NoneLive, Matches, RetireIfLive, Live
    <3> QED BY <3>1, <3>2
  <2>5. Holds(x)' /\ InFlight(x)'
    BY <1>3, <2>1, <2>2, <2>4 DEF Holds, InFlight
  <2> QED BY <1>1, <1>2, <2>1, <2>5, GoesOn
<1> QED BY <1>5, <1>6, <1>7, <1>8 DEF Serve

(* The answer is taken.                                                    *)
LEMMA CalmSettles ==
  ASSUME SessionInv, ~disturbed, NEW x \in Slots, Settle(x)
  PROVE  Calm'
<1>1. /\ Calm /\ ExchangeOK(x) /\ exchange \in [Slots -> Exchanges]
      /\ cookie \in Sids \union {None} /\ None \notin Users \union Sids \union Tabs
      /\ user \in [Tabs -> Users \union {None}] /\ page \in [Tabs -> {"login", "boot", "app"}]
  BY TypedParts, BrowserAssumption DEF SessionInv, ExchangeTypes, TabTypes
<1>2. Answered(x) /\ SetCookie(x) /\ ledger' = ledger
  BY DEF Settle, SettleRefresh, SettleBoot, SettleLogin, SettleLogout, SettleUnheard
<1>3. InFlight(x) /\ Holds(x) /\ exchange[x].ear = "page" /\ exchange[x].at \in {"granted", "done", "denied"}
  BY <1>1, <1>2 DEF Calm, Answered, InFlight, Holds
<1>4. PICK t \in Tabs : t = exchange[x].tab
  BY <1>1, <1>3 DEF ExchangeOK, InFlight
<1>5. exchange' \in {Freed(x), Cancelled(t, Freed(x)), Dropped(t, Freed(x))}
  BY <1>3, <1>4 DEF Settle, SettleRefresh, SettleBoot, SettleLogin, SettleLogout, SettleUnheard
<1>6. \A y \in Slots : exchange'[y].at = IF y = x THEN "idle" ELSE exchange[y].at
  <2> DEFINE F == Freed(x)
  <2>1. /\ F \in [Slots -> Exchanges] /\ F[x].at = "idle"
        /\ \A y \in Slots \ {x} : F[y] = exchange[y]
    BY <1>1, NoExchangeType DEF Freed
  <2>2. exchange' \in {F, Cancelled(t, F), Dropped(t, F)}
    BY <1>5
  <2> HIDE DEF F
  <2> QED BY <2>1, <2>2, DroppedFields
<1>7. ~InFlight(x)' /\ \A y \in Slots \ {x} : exchange'[y].at = exchange[y].at
  BY <1>6 DEF InFlight
<1>8. SUFFICES Agreed'
  BY <1>1, <1>3, <1>7, Ends
<1>9. CASE exchange[x].at # "granted"
  <2>1. NoneLive /\ cookie' = None
    BY <1>2, <1>3, <1>9 DEF Holds, SetCookie
  <2> QED BY <1>2, <2>1 DEF Agreed, Matches, NoneLive
<1>10. CASE exchange[x].at = "granted"
  <2>1. /\ cookie' = exchange[x].sid /\ exchange[x].sid \in Sids /\ exchange[x].who \in Users
        /\ exchange[x].kind # "logout"
    BY <1>1, <1>2, <1>3, <1>10 DEF SetCookie, ExchangeOK
  <2>2. PICK u \in Users : u = exchange[x].who
    BY <2>1
  <2>3. /\ \A s \in Sids : ledger[s].phase = "live" => s = cookie'
        /\ ledger[cookie'].phase = "live" /\ ledger[cookie'].user = u
        /\ exchange[x].kind # "login" => ShowsOnly(u)
        /\ exchange[x].kind = "login" => \A v \in Tabs \ {t} : user[v] = None
        /\ exchange[x].kind = "refresh" => Anchored
    BY <1>3, <1>4, <1>10, <2>1, <2>2 DEF Holds
  <2>4. /\ user' = [user EXCEPT ![t] = u]
        /\ \/ exchange[x].kind = "refresh" /\ page' = [page EXCEPT ![t] = IF page[t] = "boot" THEN "app" ELSE page[t]]
           \/ exchange[x].kind \in {"boot", "login"} /\ page' = [page EXCEPT ![t] = "app"]
    BY <1>3, <1>4, <1>10, <2>1, <2>2
       DEF Settle, SettleRefresh, SettleBoot, SettleLogin, SettleLogout, SettleUnheard, Checked
  <2>5. \A v \in Tabs : user'[v] \in {None, u}
    BY <1>1, <2>3, <2>4 DEF ShowsOnly
  <2>6. Anchored'
    <3>1. CASE exchange[x].kind = "refresh"
      <4>1. PICK a \in Tabs : user[a] # None /\ page[a] = "app"
        BY <2>3, <3>1 DEF Anchored
      <4>2. user'[a] # None /\ page'[a] = "app"
        BY <1>1, <2>4, <3>1, <4>1
      <4> QED BY <4>2 DEF Anchored
    <3>2. CASE exchange[x].kind # "refresh"
      <4>1. user'[t] # None /\ page'[t] = "app"
        BY <1>1, <2>4, <3>2
      <4> QED BY <4>1 DEF Anchored
    <3> QED BY <3>1, <3>2
  <2>7. \A v \in Tabs : user'[v] \in {None, ledger'[cookie'].user}
    BY <1>2, <2>3, <2>5
  <2> QED BY <1>2, <2>3, <2>6, <2>7 DEF Agreed, Matches, ShowsOnly
<1> QED BY <1>9, <1>10

(* Nothing is sent or answered.                                            *)
LEMMA Stands ==
  ASSUME Calm, UNCHANGED <<ledger, cookie, user, promise, exchange>>, Anchored => Anchored'
  PROVE  Calm'
<1>1. /\ Matches' <=> Matches
      /\ NoneLive' <=> NoneLive
      /\ Quiet' <=> Quiet
      /\ Single' <=> Single
  BY DEF Matches, ShowsOnly, NoneLive, Quiet, Single, InFlight
<1>2. ASSUME NEW x \in Slots, InFlight(x)' PROVE Holds(x)'
  <2>1. Holds(x)
    BY <1>2 DEF Calm, InFlight
  <2> QED BY <1>1, <2>1 DEF Holds, NoneLive, ShowsOnly
<1>3. Quiet' => Agreed'
  BY <1>1 DEF Calm, Agreed
<1> QED BY <1>1, <1>2, <1>3 DEF Calm

(* A request that races nothing.                                           *)
LEMMA Sends ==
  ASSUME Typed, NEW x \in Slots, NEW t \in Tabs, NEW kind \in Kinds, NEW who \in Users \union {None},
         Send(x, t, kind, who)
  PROVE  /\ exchange'[x].kind = kind /\ exchange'[x].at = "sent" /\ exchange'[x].tab = t
         /\ exchange'[x].ear = "page" /\ exchange'[x].who = who
         /\ exchange'[x].sid = IF kind = "login" THEN None ELSE cookie
         /\ InFlight(x)'
         /\ \A y \in Slots \ {x} : exchange'[y].at = exchange[y].at
<1>1. TabTypes /\ exchange \in [Slots -> Exchanges]
  BY TypedParts DEF ExchangeTypes
<1> DEFINE e == Request(t, kind, who)
<1>2. /\ e.kind = kind /\ e.at = "sent" /\ e.tab = t /\ e.ear = "page" /\ e.who = who
      /\ e.sid = IF kind = "login" THEN None ELSE cookie
  BY <1>1, RequestType
<1>3. exchange' = [exchange EXCEPT ![x] = e]
  BY DEF Send, Request
<1> HIDE DEF e
<1>4. exchange'[x] = e /\ \A y \in Slots \ {x} : exchange'[y] = exchange[y]
  BY <1>1, <1>3
<1> QED BY <1>2, <1>4 DEF InFlight

(* What a tab does.                                                        *)
LEMMA CalmVisits ==
  ASSUME SessionInv, ~disturbed, NEW t \in Tabs, Visit(t), ~disturbed'
  PROVE  Calm'
<1>1. /\ Typed /\ Calm /\ exchange \in [Slots -> Exchanges]
      /\ cookie \in Sids \union {None} /\ None \notin Sids
      /\ user \in [Tabs -> Users \union {None}] /\ page \in [Tabs -> {"login", "boot", "app"}]
  BY TypedParts, BrowserAssumption DEF SessionInv, ExchangeTypes, TabTypes
<1>2. \A kind : kind # "refresh" /\ ~Races(t, kind) => Quiet
  BY DEF Races, Quiet
<1>3. Quiet => Matches
  BY <1>1 DEF Calm, Agreed
<1>4. CASE OpenApp(t)
  <2>1. UNCHANGED <<ledger, cookie, user, promise, call>>
    BY <1>4 DEF OpenApp
  <2>2. CASE page' = [page EXCEPT ![t] = "app"] /\ UNCHANGED <<exchange, disturbed>>
    <3>1. Anchored => Anchored'
      BY <1>1, <2>1, <2>2 DEF Anchored
    <3> QED BY <1>1, <2>1, <2>2, <3>1, Stands
  <2>3. ASSUME NEW x \in Slots, Send(x, t, "boot", None), disturbed' = (disturbed \/ Races(t, "boot"))
        PROVE  Calm'
    <3>1. "boot" \in Kinds /\ Quiet /\ Matches
      BY <1>2, <1>3, <2>3 DEF Kinds
    <3>2. Matches'
      BY <2>1, <3>1 DEF Matches, ShowsOnly
    <3>3. /\ exchange'[x].kind = "boot" /\ exchange'[x].at = "sent" /\ exchange'[x].ear = "page"
          /\ exchange'[x].sid = cookie /\ InFlight(x)'
          /\ \A y \in Slots \ {x} : exchange'[y].at = exchange[y].at
      BY <1>1, <2>3, <3>1, Sends
    <3>4. Holds(x)'
      BY <2>1, <3>2, <3>3 DEF Holds
    <3> QED BY <3>1, <3>3, <3>4, Begins
  <2> QED BY <1>4, <2>2, <2>3 DEF OpenApp
<1>5. CASE SubmitLogin(t)
  <2>1. PICK x \in Slots, u \in Users : Send(x, t, "login", u)
    BY <1>5 DEF SubmitLogin
  <2>2. /\ UNCHANGED <<ledger, cookie, page, user, promise, call>>
        /\ ~Races(t, "login") /\ ~Live(cookie) /\ \A v \in Tabs \ {t} : user[v] = None
    BY <1>5 DEF SubmitLogin
  <2>3. Quiet /\ Matches /\ "login" \in Kinds
    BY <1>2, <1>3, <2>2 DEF Kinds
  <2>4. cookie = None /\ NoneLive
    BY <1>1, <2>2, <2>3 DEF Matches, Live, NoneLive
  <2>5. NoneLive' /\ cookie' = None
    BY <2>2, <2>4 DEF NoneLive
  <2>6. /\ exchange'[x].kind = "login" /\ exchange'[x].at = "sent" /\ exchange'[x].ear = "page"
        /\ exchange'[x].tab = t /\ exchange'[x].sid = None /\ InFlight(x)'
        /\ \A y \in Slots \ {x} : exchange'[y].at = exchange[y].at
    BY <1>1, <2>1, <2>3, Sends
  <2>7. Holds(x)'
    BY <2>2, <2>5, <2>6 DEF Holds
  <2> QED BY <2>3, <2>6, <2>7, Begins
<1>6. CASE HandleLogout(t)
  <2>1. PICK x \in Slots : Send(x, t, "logout", None)
    BY <1>6 DEF HandleLogout
  <2>2. UNCHANGED <<ledger, cookie, page, user, promise, call>> /\ ~Races(t, "logout")
    BY <1>6 DEF HandleLogout
  <2>3. "logout" \in Kinds /\ Quiet /\ Matches
    BY <1>2, <1>3, <2>2 DEF Kinds
  <2>4. Matches'
    BY <2>2, <2>3 DEF Matches, ShowsOnly
  <2>5. /\ exchange'[x].kind = "logout" /\ exchange'[x].at = "sent" /\ exchange'[x].ear = "page"
        /\ exchange'[x].sid = cookie /\ InFlight(x)'
        /\ \A y \in Slots \ {x} : exchange'[y].at = exchange[y].at
    BY <1>1, <2>1, <2>3, Sends
  <2>6. Holds(x)'
    BY <2>2, <2>4, <2>5 DEF Holds
  <2> QED BY <2>3, <2>5, <2>6, Begins
<1>7. CASE LeaveBoot(t)
  BY <1>7 DEF LeaveBoot
<1>8. CASE Reload(t)
  <2>1. /\ user' = [user EXCEPT ![t] = None] /\ UNCHANGED <<ledger, cookie>> /\ Quiet /\ Matches
    BY <1>3, <1>8 DEF Reload
  <2>2. Matches'
    BY <1>1, <2>1 DEF Matches, ShowsOnly
  <2> DEFINE D == Dropped(t, exchange)
  <2>3. D \in [Slots -> Exchanges] /\ \A y \in Slots : D[y].at = exchange[y].at
    BY <1>1, DroppedType, DroppedFields
  <2>4. \/ page[t] = "login" /\ page' = page /\ exchange' = D
        \/ \E x \in Slots : exchange' = [D EXCEPT ![x] = Request(t, "boot", None)]
    BY <1>8 DEF Reload, Request
  <2> HIDE DEF D
  <2>5. CASE page[t] = "login" /\ page' = page /\ exchange' = D
    <3>1. Quiet' /\ \A x \in Slots : ~InFlight(x)'
      BY <2>1, <2>3, <2>5 DEF Quiet, InFlight
    <3>2. cookie # None => Anchored'
      <4> SUFFICES ASSUME Anchored PROVE Anchored'
        BY <1>1, <2>1 DEF Calm, Agreed
      <4>1. PICK a \in Tabs : user[a] # None /\ page[a] = "app"
        BY DEF Anchored
      <4>2. user'[a] # None /\ page'[a] = "app"
        BY <1>1, <2>1, <2>5, <4>1
      <4> QED BY <4>2 DEF Anchored
    <3> QED BY <2>1, <2>2, <3>1, <3>2 DEF Calm, Single, Agreed
  <2>6. ASSUME NEW x \in Slots, exchange' = [D EXCEPT ![x] = Request(t, "boot", None)]
        PROVE  Calm'
    <3>1. "boot" \in Kinds /\ TabTypes
      BY <1>1, TypedParts DEF Kinds
    <3>2. exchange'[x] = Request(t, "boot", None)
          /\ \A y \in Slots \ {x} : exchange'[y].at = exchange[y].at
      BY <2>3, <2>6
    <3>3. /\ exchange'[x].kind = "boot" /\ exchange'[x].at = "sent" /\ exchange'[x].ear = "page"
          /\ exchange'[x].sid = cookie /\ InFlight(x)'
      BY <3>1, <3>2, RequestType DEF InFlight
    <3>4. Holds(x)'
      BY <2>1, <2>2, <3>3 DEF Holds
    <3> QED BY <2>1, <3>2, <3>3, <3>4, Begins
  <2> QED BY <2>4, <2>5, <2>6
<1>9. ASSUME NEW c \in Calls, SendCall(c, t) PROVE Calm'
  BY <1>1, <1>9, Stands DEF SendCall, Anchored
<1> QED BY <1>4, <1>5, <1>6, <1>7, <1>8, <1>9 DEF Visit

(* Single flight: a 401 that finds no refreshPromise finds no refresh of   *)
(* its tab in flight.                                                      *)
LEMMA CalmCalls ==
  ASSUME SessionInv, ~disturbed, NEW c \in Calls, AnswerOk(c) \/ AnswerUnauthorized(c), ~disturbed'
  PROVE  Calm'
<1>1. Typed /\ Calm /\ CallOK /\ None \notin Slots
  BY TypedParts, BrowserAssumption DEF SessionInv, CallTypes
<1>2. UNCHANGED <<ledger, cookie, page, user>>
  BY DEF AnswerOk, AnswerUnauthorized
<1>3. CASE UNCHANGED <<promise, exchange>>
  BY <1>1, <1>2, <1>3, Stands DEF Anchored
<1>4. CASE ~UNCHANGED <<promise, exchange>>
  <2>1. call[c].at = "sent" /\ JoinRefresh(c)
    BY <1>4 DEF AnswerOk, AnswerUnauthorized
  <2>2. PICK t \in Tabs : t = call[c].tab
    BY <1>1, <2>1 DEF CallOK
  <2>3. PICK x \in Slots : /\ Send(x, t, "refresh", None)
                           /\ promise' = [promise EXCEPT ![t] = x]
                           /\ disturbed' = (disturbed \/ Races(t, "refresh"))
    BY <1>4, <2>1, <2>2 DEF JoinRefresh
  <2>4. promise[t] = None
    BY <1>4, <2>1, <2>2 DEF JoinRefresh
  <2>5. Quiet
    <3> SUFFICES ASSUME NEW y \in Slots, InFlight(y) PROVE FALSE
      BY DEF Quiet
    <3>1. exchange[y].tab = t /\ exchange[y].kind = "refresh"
      BY <2>3 DEF Races
    <3>2. promise[exchange[y].tab] = y
      BY <1>1, <3>1 DEF Calm, Holds
    <3> QED BY <1>1, <2>4, <3>1, <3>2
  <2>6. Agreed /\ "refresh" \in Kinds
    BY <1>1, <2>5 DEF Calm, Kinds
  <2>7. /\ exchange'[x].kind = "refresh" /\ exchange'[x].at = "sent" /\ exchange'[x].ear = "page"
        /\ exchange'[x].tab = t /\ exchange'[x].sid = cookie /\ InFlight(x)'
        /\ \A y \in Slots \ {x} : exchange'[y].at = exchange[y].at
    BY <1>1, <2>3, <2>6, Sends
  <2>8. Matches' /\ (cookie' # None => Anchored') /\ promise'[t] = x
    BY <1>1, <1>2, <2>3, <2>6 DEF Agreed, Matches, ShowsOnly, Anchored, Typed
  <2>9. Holds(x)'
    BY <1>2, <2>7, <2>8 DEF Holds
  <2> QED BY <2>5, <2>7, <2>9, Begins
<1> QED BY <1>3, <1>4

LEMMA InitSession == Init => SessionInv
<1> SUFFICES ASSUME Init PROVE SessionInv
  OBVIOUS
<1>1. Quiet
  BY DEF Init, Quiet, InFlight, NoExchange
<1>2. Agreed
  BY DEF Init, Agreed, Matches, Server!LedgerInit, Server!FreeEntry
<1> QED BY <1>1, <1>2, InitTypes DEF SessionInv, Calm, Single, Quiet

LEMMA NextSession == SessionInv /\ [Next]_vars => SessionInv'
<1> SUFFICES ASSUME SessionInv, [Next]_vars PROVE SessionInv'
  OBVIOUS
<1>1. Typed /\ Typed'
  BY NextTypes DEF SessionInv
<1> SUFFICES ASSUME ~disturbed' PROVE Calm'
  BY <1>1 DEF SessionInv
<1>2. ASSUME NEW x \in Slots, Serve(x) PROVE Calm'
  <2>1. ~disturbed
    BY <1>2 DEF Serve, FindSession, RevokeSession, GrantSession, CloseSession
  <2> QED BY <1>2, <2>1, CalmServes
<1>3. ASSUME NEW x \in Slots, Fail(x) PROVE FALSE
  BY <1>3 DEF Fail
<1>4. ASSUME NEW x \in Slots, Settle(x) PROVE Calm'
  <2>1. ~disturbed
    BY <1>4 DEF Settle, SettleRefresh, SettleBoot, SettleLogin, SettleLogout, SettleUnheard
  <2> QED BY <1>4, <2>1, CalmSettles
<1>5. ASSUME NEW c \in Calls, AnswerOk(c) \/ AnswerUnauthorized(c) PROVE Calm'
  <2>1. ~disturbed
    BY <1>5 DEF AnswerOk, AnswerUnauthorized, JoinRefresh
  <2> QED BY <1>5, <2>1, CalmCalls
<1>6. ASSUME NEW t \in Tabs, Visit(t) PROVE Calm'
  <2>1. ~disturbed
    BY <1>6 DEF Visit, OpenApp, SubmitLogin, HandleLogout, LeaveBoot, Reload, SendCall
  <2> QED BY <1>6, <2>1, CalmVisits
<1>7. ASSUME EndSessions PROVE FALSE
  BY <1>7 DEF EndSessions
<1>8. CASE UNCHANGED vars
  <2>1. Calm /\ UNCHANGED <<ledger, cookie, user, promise, exchange, page>>
    BY <1>8 DEF SessionInv, vars
  <2> QED BY <2>1, Stands DEF Anchored
<1> QED BY <1>2, <1>3, <1>4, <1>5, <1>6, <1>7, <1>8 DEF Next

LEMMA SessionHolds == Spec => []SessionInv
BY InitSession, NextSession, PTL DEF Spec

------------------------------------------------------------------------------
(* Theorems *)

(* However many tabs and calls there are, a refreshPromise is there while  *)
(* its refresh is in flight and only then, and when all tabs have signed   *)
(* out undisturbed the server has no live session of the browser left.     *)
THEOREM SessionsAreSound == Spec => []SessionsSound
<1>1. SessionInv => SessionsSound
  <2> SUFFICES ASSUME SessionInv, Quiet, ~disturbed, \A t \in Tabs : user[t] = None
               PROVE  \A s \in Sids : ledger[s].phase # "live"
    BY DEF SessionsSound, SignedOutIsRevoked, SessionInv, Typed
  <2>1. Agreed /\ ~Anchored
    BY DEF SessionInv, Calm, Anchored
  <2>2. cookie = None /\ None \notin Sids
    BY <2>1, BrowserAssumption DEF Agreed
  <2> QED BY <2>1, <2>2 DEF Agreed, Matches
<1> QED BY <1>1, SessionHolds, PTL

(* Single flight: a refresh, or the one of the bootstrap, that presents a  *)
(* cookie is refused it only when something has happened that may cost a   *)
(* session - never because calls of the tab renewed the token together.    *)
THEOREM RefusalsHaveCause == Spec => []RefusedForCause
<1>1. SessionInv => RefusedForCause
  BY DEF SessionInv, Calm, InFlight, Holds, RefusedForCause
<1> QED BY <1>1, SessionHolds, PTL

(* At rest and undisturbed, the cookie names the live session of the user  *)
(* every signed-in tab shows, or another tab has signed the browser out.   *)
THEOREM CookieFollowsTabs == Spec => []CookieMatchesTab
<1>1. SessionInv => CookieMatchesTab
  <2> SUFFICES ASSUME SessionInv, Quiet, ~disturbed, NEW t \in Tabs, user[t] # None, cookie # None
               PROVE  Live(cookie) /\ ledger[cookie].user = user[t]
    BY DEF CookieMatchesTab
  <2>1. Matches
    BY DEF SessionInv, Calm, Agreed
  <2> QED BY <2>1 DEF Matches, Live, ShowsOnly
<1> QED BY <1>1, SessionHolds, PTL

------------------------------------------------------------------------------
(* Everything comes to an end: whoever waits is heard of *)

(* The page of the tab is waiting for the answer to x.                     *)
Hears(t, x) == InFlight(x) /\ exchange[x].tab = t /\ exchange[x].ear = "page"

CallsAwaited ==
  \A c \in Calls : call[c].at = "awaiting" => promise[call[c].tab] # None

AppAwaited ==
  \A t \in Tabs : page[t] = "boot" =>
    \E x \in Slots : exchange[x].kind = "boot" /\ Hears(t, x)

(* What the server needs to grant a session to x.                          *)
Presented(x) ==
  LET e == exchange[x] IN
  /\ e.at = "revoked" => ledger[e.sid].phase = "revoked" /\ ledger[e.sid].user = e.who
  /\ e.kind = "login" /\ e.at = "sent" => e.sid = None

FreeSids == \A s \in Sids : ledger[s].phase = "free" => ledger[s] = Server!FreeEntry

EndsInv == Typed /\ FreeSids /\ (\A x \in Slots : Presented(x)) /\ CallsAwaited /\ AppAwaited

(* How much an exchange has before it.                                     *)
LeftOf(at) ==
  CASE at = "sent" -> 5 [] at = "found" -> 4 [] at = "revoked" -> 3
    [] at \in {"granted", "done"} -> 2 [] at \in {"denied", "failed"} -> 1 [] OTHER -> 0

(* An exchange is answered once, and on its way it only gets further; with *)
(* its answer, all that waited for it do so no longer.                     *)
ComesAlong(x) ==
  InFlight(x) =>
    \/ /\ exchange'[x].kind = exchange[x].kind /\ exchange'[x].tab = exchange[x].tab
       /\ exchange'[x].at # "idle"
       /\ exchange'[x].at = exchange[x].at \/ LeftOf(exchange'[x].at) < LeftOf(exchange[x].at)
    \/ /\ Answered(x) /\ exchange'[x] = NoExchange
       /\ \A c \in Calls : call[c].at = "awaiting" /\ promise[call[c].tab] = x => call'[c].at # "awaiting"
       /\ exchange[x].kind = "boot" /\ exchange[x].ear = "page" => page'[exchange[x].tab] # "boot"

CallLeft(at) == CASE at = "sent" -> 3 [] at = "awaiting" -> 2 [] at = "retried" -> 1 [] OTHER -> 0

(* A call is sent, may await a refresh, is retried once, and is over.      *)
CallComesAlong(c) ==
  call[c].at # "idle" => call'[c] = call[c] \/ CallLeft(call'[c].at) < CallLeft(call[c].at)

(* An exchange, as a step leaves it when only who hears it may change.     *)
Carried(y) ==
  /\ exchange'[y].kind = exchange[y].kind /\ exchange'[y].at = exchange[y].at
  /\ exchange'[y].tab = exchange[y].tab /\ exchange'[y].sid = exchange[y].sid
  /\ exchange'[y].who = exchange[y].who

(* The sessions that were granted keep their user, and stay revoked.       *)
LedgerKeeps ==
  \A s \in Sids : ledger[s].phase # "free" =>
    /\ ledger'[s].user = ledger[s].user
    /\ ledger[s].phase = "revoked" => ledger'[s].phase = "revoked"

(* What one exchange has to keep true of itself.                           *)
GetsOn(x) == Presented(x)' /\ ComesAlong(x)

LEMMA CarriedKept ==
  ASSUME NEW x \in Slots, ExchangeTypes, Presented(x), LedgerKeeps, Carried(x)
  PROVE  GetsOn(x)
<1>1. ExchangeOK(x)
  BY DEF ExchangeTypes
<1>2. Presented(x)'
  <2>1. CASE exchange[x].at = "revoked"
    <3>1. exchange[x].sid \in Sids /\ ledger[exchange[x].sid].phase = "revoked"
          /\ ledger[exchange[x].sid].user = exchange[x].who /\ exchange[x].kind # "login"
      BY <1>1, <2>1 DEF ExchangeOK, Presented
    <3> QED BY <2>1, <3>1 DEF Presented, LedgerKeeps, Carried
  <2>2. CASE exchange[x].at # "revoked"
    BY <2>2 DEF Presented, Carried
  <2> QED BY <2>1, <2>2
<1>3. ComesAlong(x)
  BY DEF ComesAlong, Carried, InFlight
<1> QED BY <1>2, <1>3 DEF GetsOn

LEMMA RetireKeeps ==
  ASSUME LedgerTypes, FreeSids, NEW S \in SUBSET Sids, Server!Retire(S)
  PROVE  /\ LedgerKeeps /\ FreeSids'
         /\ \A s \in S : ledger'[s].phase = "revoked" /\ ledger'[s].user = ledger[s].user
<1>1. \A s \in S : /\ ledger'[s] = [ledger[s] EXCEPT !.phase = "revoked"] /\ ledger[s].phase = "live"
                   /\ ledger'[s].phase = "revoked" /\ ledger'[s].user = ledger[s].user
  BY DEF Server!Retire, LedgerTypes
<1>2. \A s \in Sids \ S : ledger'[s] = ledger[s]
  BY DEF Server!Retire
<1> QED BY <1>1, <1>2 DEF LedgerKeeps, FreeSids, Server!FreeEntry

LEMMA RetireIfLiveKeeps ==
  ASSUME LedgerTypes, FreeSids, NEW s \in Sids \union {None}, RetireIfLive(s)
  PROVE  /\ LedgerKeeps /\ FreeSids'
         /\ s \in Sids /\ ledger[s].phase # "free" =>
              ledger'[s].phase = "revoked" /\ ledger'[s].user = ledger[s].user
<1>1. CASE Live(s)
  <2>1. {s} \in SUBSET Sids
    BY <1>1 DEF Live
  <2> QED BY <1>1, <2>1, RetireKeeps DEF RetireIfLive
<1>2. CASE ~Live(s)
  BY <1>2, BrowserAssumption DEF RetireIfLive, Live, LedgerTypes, LedgerKeeps, FreeSids, Server!FreeEntry
<1> QED BY <1>1, <1>2

(* No tab hears less of what it sent.                                      *)
StillHeard ==
  \A y \in Slots : InFlight(y) =>
    /\ exchange'[y].kind = exchange[y].kind /\ exchange'[y].tab = exchange[y].tab
    /\ exchange'[y].ear = exchange[y].ear /\ exchange'[y].at # "idle"

LEMMA OneMoves ==
  ASSUME ExchangeTypes, NEW x \in Slots, NEW e, exchange' = [exchange EXCEPT ![x] = e]
  PROVE  /\ exchange'[x] = e
         /\ \A y \in Slots \ {x} : Carried(y) /\ exchange'[y] = exchange[y]
BY DEF ExchangeTypes, Carried

LEMMA FindKeeps ==
  ASSUME Typed, FreeSids, NEW x \in Slots, Presented(x), FindSession(x)
  PROVE  LedgerKeeps /\ FreeSids' /\ GetsOn(x) /\ StillHeard /\ \A y \in Slots \ {x} : Carried(y)
<1>1. ExchangeTypes /\ exchange[x] \in Exchanges /\ ExchangeOK(x)
  BY TypedParts DEF ExchangeTypes
<1> DEFINE e == [exchange[x] EXCEPT !.at = IF Live(exchange[x].sid) THEN "found" ELSE "denied"]
<1>2. /\ e.kind = exchange[x].kind /\ e.tab = exchange[x].tab /\ e.ear = exchange[x].ear
      /\ e.at \in {"found", "denied"}
  BY <1>1 DEF Exchanges
<1>3. /\ exchange' = [exchange EXCEPT ![x] = e] /\ ledger' = ledger
      /\ exchange[x].kind \in {"refresh", "boot"} /\ exchange[x].at = "sent"
  BY DEF FindSession
<1> HIDE DEF e
<1>4. exchange'[x] = e /\ \A y \in Slots \ {x} : Carried(y) /\ exchange'[y] = exchange[y]
  BY <1>1, <1>3, OneMoves
<1>5. StillHeard
  BY <1>2, <1>4 DEF StillHeard, InFlight
<1>6. LedgerKeeps /\ FreeSids'
  BY <1>3 DEF LedgerKeeps, FreeSids
<1>7. LeftOf("sent") = 5 /\ LeftOf("found") = 4 /\ LeftOf("denied") = 1
  BY DEF LeftOf
<1>8. GetsOn(x)
  BY <1>2, <1>3, <1>4, <1>7 DEF GetsOn, Presented, ComesAlong
<1> QED BY <1>4, <1>5, <1>6, <1>8

LEMMA RevokeKeeps ==
  ASSUME Typed, FreeSids, NEW x \in Slots, Presented(x), RevokeSession(x)
  PROVE  LedgerKeeps /\ FreeSids' /\ GetsOn(x) /\ StillHeard /\ \A y \in Slots \ {x} : Carried(y)
<1>1. ExchangeTypes /\ LedgerTypes /\ exchange[x] \in Exchanges /\ ExchangeOK(x)
  BY TypedParts DEF ExchangeTypes
<1> DEFINE e == [exchange[x] EXCEPT !.at = "revoked", !.who = ledger[exchange[x].sid].user]
<1>2. /\ e.kind = exchange[x].kind /\ e.tab = exchange[x].tab /\ e.ear = exchange[x].ear
      /\ e.sid = exchange[x].sid /\ e.at = "revoked" /\ e.who = ledger[exchange[x].sid].user
  BY <1>1 DEF Exchanges
<1>3. /\ exchange' = [exchange EXCEPT ![x] = e] /\ RetireIfLive(exchange[x].sid)
      /\ exchange[x].at = "found"
  BY DEF RevokeSession
<1> HIDE DEF e
<1>4. exchange'[x] = e /\ \A y \in Slots \ {x} : Carried(y) /\ exchange'[y] = exchange[y]
  BY <1>1, <1>3, OneMoves
<1>5. StillHeard
  BY <1>2, <1>4 DEF StillHeard, InFlight
<1>6. PICK s \in Sids : s = exchange[x].sid /\ ledger[s].phase # "free"
  BY <1>1, <1>3 DEF ExchangeOK
<1>7. LedgerKeeps /\ FreeSids' /\ ledger'[s].phase = "revoked" /\ ledger'[s].user = ledger[s].user
  BY <1>1, <1>3, <1>6, RetireIfLiveKeeps
<1>8. LeftOf("found") = 4 /\ LeftOf("revoked") = 3
  BY DEF LeftOf
<1>9. GetsOn(x)
  BY <1>2, <1>3, <1>4, <1>6, <1>7, <1>8 DEF GetsOn, Presented, ComesAlong
<1> QED BY <1>4, <1>5, <1>7, <1>9

LEMMA GrantKeeps ==
  ASSUME Typed, FreeSids, NEW x \in Slots, Presented(x), GrantSession(x)
  PROVE  LedgerKeeps /\ FreeSids' /\ GetsOn(x) /\ StillHeard /\ \A y \in Slots \ {x} : Carried(y)
<1>1. ExchangeTypes /\ LedgerTypes /\ exchange[x] \in Exchanges /\ ExchangeOK(x)
  BY TypedParts DEF ExchangeTypes
<1>2. PICK s \in Sids : /\ Server!Grant(s, exchange[x].who, exchange[x].sid)
                        /\ exchange' = [exchange EXCEPT ![x].at = "granted", ![x].sid = s]
  BY DEF GrantSession
<1> DEFINE e == [exchange[x] EXCEPT !.at = "granted", !.sid = s]
<1>3. /\ e.kind = exchange[x].kind /\ e.tab = exchange[x].tab /\ e.ear = exchange[x].ear
      /\ e.at = "granted"
  BY <1>1 DEF Exchanges
<1>4. exchange' = [exchange EXCEPT ![x] = e] /\ exchange[x].at \in {"sent", "revoked"}
  BY <1>2 DEF GrantSession
<1> HIDE DEF e
<1>5. exchange'[x] = e /\ \A y \in Slots \ {x} : Carried(y) /\ exchange'[y] = exchange[y]
  BY <1>1, <1>4, OneMoves
<1>6. StillHeard
  BY <1>3, <1>5 DEF StillHeard, InFlight
<1>7. /\ ledger[s].phase = "free" /\ ledger'[s].phase = "live"
      /\ \A r \in Sids \ {s} : ledger'[r] = ledger[r]
  BY <1>1, <1>2 DEF Server!Grant, Server!FreeEntry, LedgerTypes
<1>8. LedgerKeeps /\ FreeSids'
  BY <1>7 DEF LedgerKeeps, FreeSids, Server!FreeEntry
<1>9. LeftOf("sent") = 5 /\ LeftOf("revoked") = 3 /\ LeftOf("granted") = 2
  BY DEF LeftOf
<1>10. GetsOn(x)
  BY <1>3, <1>4, <1>5, <1>9 DEF GetsOn, Presented, ComesAlong
<1> QED BY <1>5, <1>6, <1>8, <1>10

LEMMA CloseKeeps ==
  ASSUME Typed, FreeSids, NEW x \in Slots, Presented(x), CloseSession(x)
  PROVE  LedgerKeeps /\ FreeSids' /\ GetsOn(x) /\ StillHeard /\ \A y \in Slots \ {x} : Carried(y)
<1>1. ExchangeTypes /\ LedgerTypes /\ exchange[x] \in Exchanges
  BY TypedParts DEF ExchangeTypes
<1> DEFINE e == [exchange[x] EXCEPT !.at = "done"]
<1>2. /\ e.kind = exchange[x].kind /\ e.tab = exchange[x].tab /\ e.ear = exchange[x].ear
      /\ e.at = "done"
  BY <1>1 DEF Exchanges
<1>3. /\ exchange' = [exchange EXCEPT ![x] = e] /\ RetireIfLive(exchange[x].sid)
      /\ exchange[x].at = "sent" /\ exchange[x].sid \in Sids \union {None}
  BY <1>1, ExchangeFields DEF CloseSession
<1> HIDE DEF e
<1>4. exchange'[x] = e /\ \A y \in Slots \ {x} : Carried(y) /\ exchange'[y] = exchange[y]
  BY <1>1, <1>3, OneMoves
<1>5. StillHeard
  BY <1>2, <1>4 DEF StillHeard, InFlight
<1>6. LedgerKeeps /\ FreeSids'
  BY <1>1, <1>3, RetireIfLiveKeeps
<1>7. LeftOf("sent") = 5 /\ LeftOf("done") = 2
  BY DEF LeftOf
<1>8. GetsOn(x)
  BY <1>2, <1>3, <1>4, <1>7 DEF GetsOn, Presented, ComesAlong
<1> QED BY <1>4, <1>5, <1>6, <1>8

LEMMA FailKeeps ==
  ASSUME Typed, FreeSids, NEW x \in Slots, Fail(x)
  PROVE  LedgerKeeps /\ FreeSids' /\ GetsOn(x) /\ StillHeard /\ \A y \in Slots \ {x} : Carried(y)
<1>1. ExchangeTypes /\ exchange[x] \in Exchanges
  BY TypedParts DEF ExchangeTypes
<1> DEFINE e == [exchange[x] EXCEPT !.at = "failed"]
<1>2. /\ e.kind = exchange[x].kind /\ e.tab = exchange[x].tab /\ e.ear = exchange[x].ear
      /\ e.at = "failed"
  BY <1>1 DEF Exchanges
<1>3. /\ exchange' = [exchange EXCEPT ![x] = e] /\ ledger' = ledger
      /\ exchange[x].at \in {"sent", "found", "revoked", "granted", "done"}
  BY DEF Fail
<1> HIDE DEF e
<1>4. exchange'[x] = e /\ \A y \in Slots \ {x} : Carried(y) /\ exchange'[y] = exchange[y]
  BY <1>1, <1>3, OneMoves
<1>5. StillHeard
  BY <1>2, <1>4 DEF StillHeard, InFlight
<1>6. LedgerKeeps /\ FreeSids'
  BY <1>3 DEF LedgerKeeps, FreeSids
<1>7. /\ LeftOf("sent") = 5 /\ LeftOf("found") = 4 /\ LeftOf("revoked") = 3 /\ LeftOf("granted") = 2
      /\ LeftOf("done") = 2 /\ LeftOf("failed") = 1
  BY DEF LeftOf
<1>8. LeftOf("failed") < LeftOf(exchange[x].at)
  BY <1>3, <1>7
<1>9. GetsOn(x)
  BY <1>2, <1>3, <1>4, <1>8 DEF GetsOn, Presented, ComesAlong
<1> QED BY <1>4, <1>5, <1>6, <1>9

CallsKept == CallsAwaited' /\ \A c \in Calls : CallComesAlong(c)

LEMMA CallOrder ==
  /\ CallLeft("sent") = 3 /\ CallLeft("awaiting") = 2 /\ CallLeft("retried") = 1 /\ CallLeft("idle") = 0
  /\ \A k \in CallStates : k.at # "idle" => CallLeft("idle") < CallLeft(k.at)
BY CallRecords DEF CallLeft

LEMMA CallsStay ==
  ASSUME CallsAwaited, call' = call, promise' = promise
  PROVE  CallsKept
BY DEF CallsKept, CallsAwaited, CallComesAlong

(* The refresh is over, or everything the tab waited for is dropped.       *)
LEMMA CallsCleared ==
  ASSUME Typed, CallsAwaited, NEW t \in Tabs, promise' = [promise EXCEPT ![t] = None],
         call' \in {Dismissed(t), Resumed(t)}
  PROVE  /\ CallsKept
         /\ \A c \in Calls : call[c].at = "awaiting" /\ call[c].tab = t => call'[c].at # "awaiting"
<1>1. CallTypes /\ CallTypes' /\ promise \in [Tabs -> Slots \union {None}]
  BY TypedParts, MassCalls DEF ExchangeTypes
<1>2. ASSUME NEW c \in Calls
      PROVE  /\ CallComesAlong(c)
             /\ call'[c].at = "awaiting" =>
                  call[c].at = "awaiting" /\ call[c].tab # t /\ call'[c].tab = call[c].tab
  <2>1. PICK k \in CallStates : k = call[c] /\ (k.at # "idle" => k.tab \in Tabs)
    BY <1>1 DEF CallTypes, CallOK
  <2>2. \/ call'[c] = k /\ ~(k.tab = t /\ k.at = "awaiting")
        \/ call'[c] = NoCall
        \/ call'[c] = [k EXCEPT !.at = "retried"] /\ k.at = "awaiting"
    BY <2>1 DEF Dismissed, Resumed
  <2>3. [k EXCEPT !.at = "retried"].at = "retried"
    BY CallRecords
  <2>4. CASE call'[c] = k /\ ~(k.tab = t /\ k.at = "awaiting")
    BY <2>1, <2>4 DEF CallComesAlong
  <2>5. CASE call'[c] = NoCall
    <3>1. call'[c].at = "idle"
      BY <2>5, CallRecords
    <3>2. k.at # "idle" => CallLeft("idle") < CallLeft(k.at)
      BY CallOrder
    <3> QED BY <2>1, <3>1, <3>2 DEF CallComesAlong
  <2>6. CASE call'[c] = [k EXCEPT !.at = "retried"] /\ k.at = "awaiting"
    <3>1. call'[c].at = "retried"
      BY <2>3, <2>6
    <3>2. CallLeft("retried") < CallLeft("awaiting")
      BY CallOrder
    <3> QED BY <2>1, <2>6, <3>1, <3>2 DEF CallComesAlong
  <2> QED BY <2>2, <2>4, <2>5, <2>6
<1>3. CallsAwaited'
  <2> SUFFICES ASSUME NEW c \in Calls, call'[c].at = "awaiting" PROVE promise'[call'[c].tab] # None
    BY DEF CallsAwaited
  <2>1. call[c].at = "awaiting" /\ call[c].tab # t /\ call'[c].tab = call[c].tab /\ call[c].tab \in Tabs
    BY <1>1, <1>2 DEF CallTypes, CallOK
  <2> QED BY <1>1, <2>1 DEF CallsAwaited
<1> QED BY <1>2, <1>3 DEF CallsKept

(* An answer is taken.                                                     *)
LEMMA FreedMoves ==
  ASSUME ExchangeTypes, NEW x \in Slots, NEW t \in Tabs,
         exchange' \in {Freed(x), Cancelled(t, Freed(x)), Dropped(t, Freed(x))}
  PROVE  /\ exchange'[x] = NoExchange
         /\ \A y \in Slots \ {x} : Carried(y)
         /\ \A y \in Slots \ {x} : exchange[y].tab # t \/ exchange' = Freed(x) => exchange'[y] = exchange[y]
<1> DEFINE F == Freed(x)
<1>1. /\ F \in [Slots -> Exchanges] /\ F[x] = NoExchange
      /\ \A y \in Slots \ {x} : F[y] = exchange[y]
  BY NoExchangeType DEF Freed, ExchangeTypes
<1>2. exchange' \in {F, Cancelled(t, F), Dropped(t, F)}
  OBVIOUS
<1> HIDE DEF F
<1>3. NoExchange.tab = None /\ None \notin Tabs
  BY BrowserAssumption DEF NoExchange
<1>4. exchange'[x] = NoExchange
  BY <1>1, <1>2, <1>3, DroppedFields, NoExchangeType
<1>5. \A y \in Slots \ {x} : /\ Carried(y)
                             /\ exchange[y].tab # t => exchange'[y] = exchange[y]
  BY <1>1, <1>2, DroppedFields DEF Carried
<1>6. exchange' = F => \A y \in Slots \ {x} : exchange'[y] = exchange[y]
  BY <1>1
<1> USE DEF F
<1> QED BY <1>4, <1>5, <1>6

(* The page that opens still hears of it.                                  *)
LEMMA AppStays ==
  ASSUME AppAwaited,
         \A t \in Tabs : page'[t] = "boot" =>
           /\ page[t] = "boot"
           /\ \A x \in Slots : exchange[x].kind = "boot" /\ Hears(t, x) =>
                exchange'[x].kind = "boot" /\ Hears(t, x)'
  PROVE  AppAwaited'
BY DEF AppAwaited

LEMMA SettleKeeps ==
  ASSUME Typed, FreeSids, CallsAwaited, AppAwaited, NEW x \in Slots, Settle(x)
  PROVE  /\ LedgerKeeps /\ FreeSids' /\ GetsOn(x) /\ \A y \in Slots \ {x} : Carried(y)
         /\ CallsKept /\ AppAwaited'
<1>1. /\ TabTypes /\ CallTypes /\ ExchangeTypes /\ ExchangeOK(x) /\ Answered(x) /\ ledger' = ledger
  BY TypedParts DEF ExchangeTypes, Settle, SettleRefresh, SettleBoot, SettleLogin, SettleLogout, SettleUnheard
<1>2. LedgerKeeps /\ FreeSids'
  BY <1>1 DEF LedgerKeeps, FreeSids
<1>3. PICK t \in Tabs : t = exchange[x].tab
  BY <1>1 DEF ExchangeOK, Answered
<1>4. exchange' \in {Freed(x), Cancelled(t, Freed(x)), Dropped(t, Freed(x))}
  BY <1>3 DEF Settle, SettleRefresh, SettleBoot, SettleLogin, SettleLogout, SettleUnheard
<1>5. /\ exchange'[x] = NoExchange /\ \A y \in Slots \ {x} : Carried(y)
      /\ \A y \in Slots \ {x} : exchange[y].tab # t \/ exchange' = Freed(x) => exchange'[y] = exchange[y]
  BY <1>1, <1>4, FreedMoves
<1>6. /\ CallsKept
      /\ SettleRefresh(x) =>
           \A c \in Calls : call[c].at = "awaiting" /\ call[c].tab = t => call'[c].at # "awaiting"
  <2>1. CASE SettleRefresh(x)
    <3>1. promise' = [promise EXCEPT ![t] = None] /\ call' \in {Dismissed(t), Resumed(t)}
      BY <1>3, <2>1 DEF SettleRefresh, ResetPromise
    <3> QED BY <3>1, CallsCleared
  <2>2. CASE ~SettleRefresh(x)
    <3>1. call' = call /\ promise' = promise
      BY <2>2 DEF Settle, SettleBoot, SettleLogin, SettleLogout, SettleUnheard
    <3> QED BY <2>2, <3>1, CallsStay
  <2> QED BY <2>1, <2>2
<1>7. ASSUME NEW c \in Calls, call[c].at = "awaiting", promise[call[c].tab] = x PROVE call'[c].at # "awaiting"
  <2>1. PICK v \in Tabs : v = call[c].tab
    BY <1>1, <1>7 DEF CallTypes, CallOK
  <2>2. x # None
    BY BrowserAssumption
  <2>3. exchange[x].kind = "refresh" /\ exchange[x].tab = v /\ exchange[x].ear = "page"
    BY <1>1, <1>7, <2>1, <2>2 DEF ExchangeTypes, PromiseOK
  <2>4. SettleRefresh(x)
    BY <2>3 DEF Settle, SettleBoot, SettleLogin, SettleLogout, SettleUnheard
  <2> QED BY <1>3, <1>6, <1>7, <2>1, <2>3, <2>4
<1>8. exchange[x].kind = "boot" /\ exchange[x].ear = "page" => page'[t] # "boot"
  <2> SUFFICES ASSUME exchange[x].kind = "boot", exchange[x].ear = "page" PROVE page'[t] # "boot"
    OBVIOUS
  <2>1. SettleBoot(x)
    BY DEF Settle, SettleRefresh, SettleLogin, SettleLogout, SettleUnheard
  <2>2. page' = [page EXCEPT ![t] = IF exchange[x].at = "granted" THEN "app" ELSE "login"]
    BY <1>3, <2>1 DEF SettleBoot, Checked
  <2> QED BY <1>1, <2>2 DEF TabTypes
<1>9. GetsOn(x)
  <2>1. Presented(x)'
    BY <1>5, NoExchangeType DEF Presented
  <2>2. ComesAlong(x)
    BY <1>1, <1>3, <1>5, <1>7, <1>8 DEF ComesAlong
  <2> QED BY <2>1, <2>2 DEF GetsOn
<1>10. ASSUME NEW v \in Tabs, page'[v] = "boot"
       PROVE  /\ page[v] = "boot"
              /\ v # t \/ (exchange' = Freed(x) /\ ~(exchange[x].kind = "boot" /\ exchange[x].ear = "page"))
  <2>1. CASE SettleRefresh(x)
    <3>1. page' = [page EXCEPT ![t] = IF page[t] = "boot" THEN "app" ELSE page[t]]
          \/ page' = [page EXCEPT ![t] = "login"]
      BY <1>3, <2>1 DEF SettleRefresh
    <3> QED BY <1>1, <1>10, <3>1 DEF TabTypes
  <2>2. CASE SettleBoot(x)
    <3>1. page' = [page EXCEPT ![t] = IF exchange[x].at = "granted" THEN "app" ELSE "login"]
      BY <1>3, <2>2 DEF SettleBoot, Checked
    <3> QED BY <1>1, <1>10, <3>1 DEF TabTypes
  <2>3. CASE SettleLogin(x)
    <3>1. \/ page' = [page EXCEPT ![t] = "app"]
          \/ page' = page /\ exchange' = Freed(x) /\ exchange[x].kind = "login"
      BY <1>3, <2>3 DEF SettleLogin
    <3> QED BY <1>1, <1>10, <3>1 DEF TabTypes
  <2>4. CASE SettleLogout(x)
    <3>1. page' = [page EXCEPT ![t] = "login"]
      BY <1>3, <2>4 DEF SettleLogout
    <3> QED BY <1>1, <1>10, <3>1 DEF TabTypes
  <2>5. CASE SettleUnheard(x)
    <3>1. page' = page /\ exchange' = Freed(x) /\ exchange[x].ear # "page"
      BY <1>3, <2>5 DEF SettleUnheard
    <3> QED BY <1>10, <3>1
  <2> QED BY <2>1, <2>2, <2>3, <2>4, <2>5 DEF Settle
<1>11. AppAwaited'
  <2> SUFFICES ASSUME NEW v \in Tabs, page'[v] = "boot", NEW y \in Slots, exchange[y].kind = "boot", Hears(v, y)
               PROVE  exchange'[y].kind = "boot" /\ Hears(v, y)'
    BY <1>10, AppStays
  <2>1. exchange[y].tab = v /\ exchange[y].ear = "page"
    BY DEF Hears
  <2>2. y # x
    BY <1>3, <1>10, <2>1
  <2>3. exchange'[y] = exchange[y]
    BY <1>5, <1>10, <2>1, <2>2
  <2> QED BY <2>3 DEF Hears, InFlight
<1> QED BY <1>2, <1>5, <1>6, <1>9, <1>11

(* What a tab sends begins in a free slot.                                 *)
LEMMA SendKeeps ==
  ASSUME Typed, NEW x \in Slots, NEW t \in Tabs, NEW kind \in Kinds, NEW who \in Users \union {None},
         ~InFlight(x), exchange'[x] = Request(t, kind, who)
  PROVE  GetsOn(x) /\ (kind = "boot" => exchange'[x].kind = "boot" /\ Hears(t, x)')
<1>1. TabTypes
  BY TypedParts
<1> DEFINE e == Request(t, kind, who)
<1>2. /\ exchange'[x] = e /\ e.kind = kind /\ e.at = "sent" /\ e.tab = t /\ e.ear = "page"
      /\ e.sid = IF kind = "login" THEN None ELSE cookie
  BY <1>1, RequestType
<1> HIDE DEF e
<1> QED BY <1>2 DEF GetsOn, Presented, ComesAlong, Hears, InFlight

LEMMA AppElsewhere ==
  ASSUME AppAwaited, NEW t \in Tabs, \A v \in Tabs \ {t} : page'[v] = page[v],
         \A y \in Slots : InFlight(y) /\ exchange[y].tab # t => exchange'[y] = exchange[y],
         page'[t] = "boot" => \E x \in Slots : exchange'[x].kind = "boot" /\ Hears(t, x)'
  PROVE  AppAwaited'
<1> SUFFICES ASSUME NEW v \in Tabs, page'[v] = "boot"
             PROVE  \E x \in Slots : exchange'[x].kind = "boot" /\ Hears(v, x)'
  BY DEF AppAwaited
<1>1. CASE v = t
  BY <1>1
<1>2. CASE v # t
  <2>1. PICK x \in Slots : exchange[x].kind = "boot" /\ Hears(v, x)
    BY <1>2 DEF AppAwaited
  <2>2. exchange'[x] = exchange[x]
    BY <1>2, <2>1 DEF Hears
  <2> QED BY <2>1, <2>2 DEF Hears, InFlight
<1> QED BY <1>1, <1>2

(* What a visit or a call may leave behind.                                *)
Remains ==
  /\ LedgerKeeps /\ FreeSids' /\ \A y \in Slots : GetsOn(y)
  /\ CallsKept /\ AppAwaited'

LEMMA LedgerUnchanged ==
  ASSUME FreeSids, ledger' = ledger
  PROVE  LedgerKeeps /\ FreeSids'
BY DEF LedgerKeeps, FreeSids

LEMMA ExchangeUnchanged ==
  ASSUME Typed, FreeSids, \A y \in Slots : Presented(y), UNCHANGED <<ledger, exchange>>
  PROVE  \A y \in Slots : GetsOn(y)
<1>1. LedgerKeeps /\ ExchangeTypes
  BY LedgerUnchanged, TypedParts
<1>2. \A y \in Slots : Carried(y)
  BY DEF Carried
<1> QED BY <1>1, <1>2, CarriedKept

(* A tab sends x, and the rest stays.                                      *)
LEMMA SendRemains ==
  ASSUME Typed, FreeSids, \A y \in Slots : Presented(y), ledger' = ledger,
         NEW x \in Slots, NEW t \in Tabs, NEW kind \in Kinds, NEW who \in Users \union {None},
         Send(x, t, kind, who)
  PROVE  /\ \A y \in Slots : GetsOn(y)
         /\ \A y \in Slots : InFlight(y) => exchange'[y] = exchange[y]
         /\ kind = "boot" => exchange'[x].kind = "boot" /\ Hears(t, x)'
<1>1. ExchangeTypes /\ LedgerKeeps
  BY LedgerUnchanged, TypedParts
<1>2. ~InFlight(x) /\ exchange' = [exchange EXCEPT ![x] = Request(t, kind, who)]
  BY DEF Send, Request
<1>3. /\ exchange'[x] = Request(t, kind, who)
      /\ \A y \in Slots \ {x} : Carried(y) /\ exchange'[y] = exchange[y]
  BY <1>1, <1>2, OneMoves
<1>4. \A y \in Slots \ {x} : GetsOn(y)
  BY <1>1, <1>3, CarriedKept
<1>5. GetsOn(x) /\ (kind = "boot" => exchange'[x].kind = "boot" /\ Hears(t, x)')
  BY <1>2, <1>3, SendKeeps
<1> QED BY <1>2, <1>3, <1>4, <1>5

LEMMA ReloadRemains ==
  ASSUME Typed, FreeSids, \A y \in Slots : Presented(y), CallsAwaited, AppAwaited,
         NEW t \in Tabs, Reload(t)
  PROVE  Remains
<1>1. TabTypes /\ ExchangeTypes /\ exchange \in [Slots -> Exchanges] /\ ledger' = ledger
  BY TypedParts DEF ExchangeTypes, Reload
<1>2. LedgerKeeps /\ FreeSids'
  BY <1>1, LedgerUnchanged
<1>3. CallsKept
  <2>1. promise' = [promise EXCEPT ![t] = None] /\ call' \in {Dismissed(t), Resumed(t)}
    BY DEF Reload
  <2> QED BY <2>1, CallsCleared
<1> DEFINE D == Dropped(t, exchange)
<1>4. /\ D \in [Slots -> Exchanges]
      /\ \A y \in Slots : /\ D[y].kind = exchange[y].kind /\ D[y].at = exchange[y].at
                          /\ D[y].tab = exchange[y].tab /\ D[y].sid = exchange[y].sid
                          /\ D[y].who = exchange[y].who
                          /\ exchange[y].tab # t => D[y] = exchange[y]
  BY <1>1, DroppedType, DroppedFields
<1>5. \/ page[t] = "login" /\ page' = page /\ exchange' = D
      \/ \E x \in Slots : /\ page' = [page EXCEPT ![t] = "boot"] /\ ~InFlight(x)
                          /\ exchange' = [D EXCEPT ![x] = Request(t, "boot", None)]
  BY DEF Reload, Request
<1> HIDE DEF D
<1>6. CASE page[t] = "login" /\ page' = page /\ exchange' = D
  <2>1. \A y \in Slots : Carried(y)
    BY <1>4, <1>6 DEF Carried
  <2>2. \A y \in Slots : GetsOn(y)
    BY <1>1, <1>2, <2>1, CarriedKept
  <2>3. AppAwaited'
    BY <1>4, <1>6, AppElsewhere
  <2> QED BY <1>2, <1>3, <2>2, <2>3 DEF Remains
<1>7. ASSUME NEW x \in Slots, page' = [page EXCEPT ![t] = "boot"], ~InFlight(x),
             exchange' = [D EXCEPT ![x] = Request(t, "boot", None)]
      PROVE  Remains
  <2>1. /\ exchange'[x] = Request(t, "boot", None)
        /\ \A y \in Slots \ {x} : exchange'[y] = D[y]
    BY <1>4, <1>7
  <2>2. \A y \in Slots \ {x} : Carried(y)
    BY <1>4, <2>1 DEF Carried
  <2>3. GetsOn(x) /\ exchange'[x].kind = "boot" /\ Hears(t, x)'
    BY <1>7, <2>1, SendKeeps DEF Kinds
  <2>4. \A y \in Slots : GetsOn(y)
    BY <1>1, <1>2, <2>2, <2>3, CarriedKept
  <2>5. /\ \A v \in Tabs \ {t} : page'[v] = page[v]
        /\ \A y \in Slots : InFlight(y) /\ exchange[y].tab # t => exchange'[y] = exchange[y]
    BY <1>1, <1>4, <1>7, <2>1 DEF TabTypes
  <2>6. AppAwaited'
    BY <2>3, <2>5, AppElsewhere
  <2> QED BY <1>2, <1>3, <2>4, <2>6 DEF Remains
<1> QED BY <1>5, <1>6, <1>7

LEMMA VisitRemains ==
  ASSUME Typed, FreeSids, \A y \in Slots : Presented(y), CallsAwaited, AppAwaited,
         NEW t \in Tabs, Visit(t)
  PROVE  Remains
<1>1. TabTypes /\ ExchangeTypes /\ exchange \in [Slots -> Exchanges] /\ ledger' = ledger
  BY TypedParts DEF ExchangeTypes, Visit, OpenApp, SubmitLogin, HandleLogout, LeaveBoot, Reload, SendCall
<1>2. LedgerKeeps /\ FreeSids'
  BY <1>1, LedgerUnchanged
<1>3. UNCHANGED <<promise, call>> => CallsKept
  BY CallsStay
<1>4. UNCHANGED <<ledger, exchange>> => \A y \in Slots : GetsOn(y)
  BY ExchangeUnchanged
<1>5. ASSUME NEW x \in Slots, NEW kind \in Kinds, NEW who \in Users \union {None}, Send(x, t, kind, who)
      PROVE  /\ \A y \in Slots : GetsOn(y)
             /\ \A y \in Slots : InFlight(y) => exchange'[y] = exchange[y]
             /\ kind = "boot" => exchange'[x].kind = "boot" /\ Hears(t, x)'
  BY <1>1, <1>5, SendRemains
<1>6. CASE OpenApp(t)
  <2>1. CallsKept /\ \A v \in Tabs \ {t} : page'[v] = page[v]
    BY <1>1, <1>3, <1>6 DEF OpenApp, TabTypes
  <2>2. CASE page' = [page EXCEPT ![t] = "app"] /\ exchange' = exchange
    <3>1. page'[t] # "boot"
      BY <1>1, <2>2 DEF TabTypes
    <3>2. AppAwaited'
      BY <2>1, <2>2, <3>1, AppElsewhere
    <3> QED BY <1>1, <1>2, <1>4, <2>1, <2>2, <3>2 DEF Remains
  <2>3. ASSUME NEW x \in Slots, Send(x, t, "boot", None) PROVE Remains
    <3>1. "boot" \in Kinds
      BY DEF Kinds
    <3>2. /\ \A y \in Slots : GetsOn(y)
          /\ \A y \in Slots : InFlight(y) => exchange'[y] = exchange[y]
          /\ exchange'[x].kind = "boot" /\ Hears(t, x)'
      BY <1>5, <2>3, <3>1
    <3>3. AppAwaited'
      BY <2>1, <3>2, AppElsewhere
    <3> QED BY <1>2, <2>1, <3>2, <3>3 DEF Remains
  <2> QED BY <1>6, <2>2, <2>3 DEF OpenApp
<1>7. CASE SubmitLogin(t) \/ HandleLogout(t)
  <2>1. CallsKept /\ page' = page /\ page[t] # "boot"
    BY <1>3, <1>7 DEF SubmitLogin, HandleLogout
  <2>2. PICK x \in Slots, kind \in Kinds, who \in Users \union {None} : Send(x, t, kind, who)
    BY <1>7 DEF SubmitLogin, HandleLogout, Kinds
  <2>3. /\ \A y \in Slots : GetsOn(y)
        /\ \A y \in Slots : InFlight(y) => exchange'[y] = exchange[y]
    BY <1>5, <2>2
  <2>4. AppAwaited'
    BY <2>1, <2>3, AppElsewhere
  <2> QED BY <1>2, <2>1, <2>3, <2>4 DEF Remains
<1>8. CASE LeaveBoot(t)
  <2>1. /\ page' = [page EXCEPT ![t] = "login"] /\ exchange' = Cancelled(t, exchange)
        /\ UNCHANGED <<promise, call>>
    BY <1>8 DEF LeaveBoot
  <2>2. \A y \in Slots : Carried(y) /\ (exchange[y].tab # t => exchange'[y] = exchange[y])
    BY <1>1, <2>1, DroppedFields DEF Carried
  <2>3. \A y \in Slots : GetsOn(y)
    BY <1>1, <1>2, <2>2, CarriedKept
  <2>4. page'[t] # "boot" /\ \A v \in Tabs \ {t} : page'[v] = page[v]
    BY <1>1, <2>1 DEF TabTypes
  <2>5. AppAwaited'
    BY <2>2, <2>4, AppElsewhere
  <2> QED BY <1>2, <1>3, <2>1, <2>3, <2>5 DEF Remains
<1>9. CASE Reload(t)
  BY <1>9, ReloadRemains
<1>10. ASSUME NEW c \in Calls, SendCall(c, t) PROVE Remains
  <2>1. /\ call' = [call EXCEPT ![c] = [at |-> "sent", tab |-> t]] /\ call[c] = NoCall
        /\ UNCHANGED <<exchange, page, promise>>
    BY <1>10 DEF SendCall
  <2>2. CallTypes
    BY TypedParts
  <2>3. call'[c].at = "sent" /\ call[c].at = "idle" /\ \A d \in Calls \ {c} : call'[d] = call[d]
    BY <2>1, <2>2, CallRecords DEF CallTypes
  <2>4. CallsKept
    BY <2>1, <2>3 DEF CallsKept, CallsAwaited, CallComesAlong
  <2>5. AppAwaited'
    BY <2>1 DEF AppAwaited, Hears, InFlight
  <2> QED BY <1>1, <1>2, <1>4, <2>1, <2>4, <2>5 DEF Remains
<1> QED BY <1>6, <1>7, <1>8, <1>9, <1>10 DEF Visit

LEMMA CallRemains ==
  ASSUME Typed, FreeSids, \A y \in Slots : Presented(y), CallsAwaited, AppAwaited,
         NEW c \in Calls, AnswerOk(c) \/ AnswerUnauthorized(c)
  PROVE  Remains
<1>1. CallTypes /\ ExchangeTypes /\ UNCHANGED <<ledger, page>>
  BY TypedParts DEF AnswerOk, AnswerUnauthorized
<1>2. LedgerKeeps /\ FreeSids'
  BY <1>1, LedgerUnchanged
<1>3. PICK k \in CallStates : k = call[c] /\ (k.at # "idle" => k.tab \in Tabs)
  BY <1>1 DEF CallTypes, CallOK
<1>4. CASE /\ call' = [call EXCEPT ![c] = NoCall] /\ k.at # "idle"
           /\ UNCHANGED <<promise, exchange>>
  <2>1. call'[c].at = "idle" /\ \A d \in Calls \ {c} : call'[d] = call[d]
    BY <1>1, <1>4, CallRecords DEF CallTypes
  <2>2. CallLeft("idle") < CallLeft(k.at)
    BY <1>3, <1>4, CallOrder
  <2>3. CallsKept
    BY <1>3, <1>4, <2>1, <2>2 DEF CallsKept, CallsAwaited, CallComesAlong
  <2>4. AppAwaited'
    BY <1>1, <1>4 DEF AppAwaited, Hears, InFlight
  <2> QED BY <1>1, <1>2, <1>4, <2>3, <2>4, ExchangeUnchanged DEF Remains
<1>5. CASE call' = [call EXCEPT ![c].at = "awaiting"] /\ k.at = "sent" /\ JoinRefresh(c)
  <2> DEFINE n == [k EXCEPT !.at = "awaiting"]
  <2>1. n.at = "awaiting" /\ n.tab = k.tab
    BY CallRecords
  <2>2. call' = [call EXCEPT ![c] = n]
    BY <1>3, <1>5
  <2> HIDE DEF n
  <2>3. call'[c] = n /\ \A d \in Calls \ {c} : call'[d] = call[d]
    BY <1>1, <2>2 DEF CallTypes
  <2>4. PICK t \in Tabs : t = call[c].tab
    BY <1>3, <1>5
  <2>5. \A d \in Calls : CallComesAlong(d)
    BY <1>3, <1>5, <2>1, <2>3, CallOrder DEF CallComesAlong
  <2>6. CASE promise[t] # None
    <3>1. UNCHANGED <<promise, exchange>>
      BY <1>5, <2>4, <2>6 DEF JoinRefresh
    <3>2. CallsAwaited'
      BY <1>3, <2>1, <2>3, <2>4, <2>6, <3>1 DEF CallsAwaited
    <3>3. AppAwaited'
      BY <1>1, <3>1 DEF AppAwaited, Hears, InFlight
    <3> QED BY <1>1, <1>2, <2>5, <3>1, <3>2, <3>3, ExchangeUnchanged DEF Remains, CallsKept
  <2>7. CASE promise[t] = None
    <3>1. PICK x \in Slots : Send(x, t, "refresh", None) /\ promise' = [promise EXCEPT ![t] = x]
      BY <1>5, <2>4, <2>7 DEF JoinRefresh
    <3>2. "refresh" \in Kinds /\ x # None
      BY BrowserAssumption DEF Kinds
    <3>3. /\ \A y \in Slots : GetsOn(y)
          /\ \A y \in Slots : InFlight(y) => exchange'[y] = exchange[y]
      BY <1>1, <3>1, <3>2, SendRemains
    <3>4. promise'[t] # None /\ \A v \in Tabs \ {t} : promise'[v] = promise[v]
      BY <1>1, <3>1, <3>2 DEF ExchangeTypes
    <3>5. CallsAwaited'
      <4> SUFFICES ASSUME NEW d \in Calls, call'[d].at = "awaiting" PROVE promise'[call'[d].tab] # None
        BY DEF CallsAwaited
      <4>1. CASE d = c
        BY <1>3, <2>1, <2>3, <2>4, <3>4, <4>1
      <4>2. CASE d # c
        BY <1>1, <2>3, <3>4, <4>2 DEF CallsAwaited, CallTypes, CallOK
      <4> QED BY <4>1, <4>2
    <3>6. AppAwaited'
      BY <1>1, <3>3, AppStays DEF Hears, InFlight
    <3> QED BY <1>2, <2>5, <3>3, <3>5, <3>6 DEF Remains, CallsKept
  <2> QED BY <2>6, <2>7
<1> QED BY <1>3, <1>4, <1>5 DEF AnswerOk, AnswerUnauthorized

(* The server and the network leave the tabs alone.                        *)
LEMMA ServerRemains ==
  ASSUME Typed, FreeSids, \A y \in Slots : Presented(y), CallsAwaited, AppAwaited,
         NEW x \in Slots, Serve(x) \/ Fail(x)
  PROVE  Remains
<1>1. ExchangeTypes /\ UNCHANGED <<page, call, promise>>
  BY TypedParts DEF Serve, FindSession, RevokeSession, GrantSession, CloseSession, Fail
<1>2. LedgerKeeps /\ FreeSids' /\ GetsOn(x) /\ StillHeard /\ \A y \in Slots \ {x} : Carried(y)
  BY FindKeeps, RevokeKeeps, GrantKeeps, CloseKeeps, FailKeeps DEF Serve
<1>3. \A y \in Slots : GetsOn(y)
  BY <1>1, <1>2, CarriedKept
<1>4. CallsKept
  BY <1>1, CallsStay
<1>5. AppAwaited'
  BY <1>1, <1>2, AppStays DEF StillHeard, Hears, InFlight
<1> QED BY <1>2, <1>3, <1>4, <1>5 DEF Remains

LEMMA InitEnds == Init => EndsInv
<1> SUFFICES ASSUME Init PROVE EndsInv
  OBVIOUS
<1>1. Typed
  BY InitTypes
<1>2. FreeSids
  BY DEF Init, FreeSids, Server!LedgerInit
<1>3. \A x \in Slots : Presented(x)
  BY NoExchangeType DEF Init, Presented
<1>4. CallsAwaited
  BY CallRecords DEF Init, CallsAwaited
<1>5. AppAwaited
  BY DEF Init, AppAwaited
<1> QED BY <1>1, <1>2, <1>3, <1>4, <1>5 DEF EndsInv

LEMMA NextEnds ==
  ASSUME EndsInv, [Next]_vars
  PROVE  EndsInv' /\ (\A x \in Slots : ComesAlong(x)) /\ \A c \in Calls : CallComesAlong(c)
<1>1. Typed /\ FreeSids /\ (\A y \in Slots : Presented(y)) /\ CallsAwaited /\ AppAwaited
  BY DEF EndsInv
<1>2. Typed'
  BY <1>1, NextTypes
<1>3. ExchangeTypes /\ LedgerTypes
  BY <1>1, TypedParts
<1> SUFFICES Remains
  BY <1>2 DEF Remains, CallsKept, GetsOn, EndsInv
<1>4. ASSUME NEW x \in Slots, Settle(x) PROVE Remains
  <2>1. /\ LedgerKeeps /\ FreeSids' /\ GetsOn(x) /\ \A y \in Slots \ {x} : Carried(y)
        /\ CallsKept /\ AppAwaited'
    BY <1>1, <1>4, SettleKeeps
  <2>2. \A y \in Slots : GetsOn(y)
    BY <1>1, <1>3, <2>1, CarriedKept
  <2> QED BY <2>1, <2>2 DEF Remains
<1>5. CASE EndSessions
  <2>1. UNCHANGED <<cookie, page, user, promise, call, exchange>>
    BY <1>5 DEF EndSessions
  <2>2. PICK S \in SUBSET Sids : Server!Retire(S)
    BY <1>5 DEF EndSessions
  <2>3. LedgerKeeps /\ FreeSids'
    BY <1>1, <1>3, <2>2, RetireKeeps
  <2>4. \A y \in Slots : Carried(y)
    BY <2>1 DEF Carried
  <2>5. AppAwaited' /\ CallsKept
    BY <1>1, <2>1, CallsStay DEF AppAwaited, Hears, InFlight
  <2> QED BY <1>1, <1>3, <2>3, <2>4, <2>5, CarriedKept DEF Remains
<1>6. CASE UNCHANGED vars
  <2>1. UNCHANGED <<ledger, page, promise, call, exchange>>
    BY <1>6 DEF vars
  <2>2. LedgerKeeps /\ FreeSids'
    BY <1>1, <2>1, LedgerUnchanged
  <2>3. AppAwaited' /\ CallsKept
    BY <1>1, <2>1, CallsStay DEF AppAwaited, Hears, InFlight
  <2> QED BY <1>1, <2>1, <2>2, <2>3, ExchangeUnchanged DEF Remains
<1> QED BY <1>1, <1>4, <1>5, <1>6, ServerRemains, VisitRemains, CallRemains DEF Next

(* Whoever waits waits for something that is on its way: a call for a      *)
(* refresh, a tab that opens the app for the exchange of AuthBootstrap.    *)
WaitersHear ==
  /\ \A c \in Calls : call[c].at = "awaiting" =>
       \E x \in Slots : /\ promise[call[c].tab] = x /\ exchange[x].kind = "refresh"
                        /\ Hears(call[c].tab, x)
  /\ AppAwaited

(* The server has a statement to make for x: the guards of Serve.          *)
CanBeServed(x) ==
  LET e == exchange[x] IN
  \/ e.kind \in {"refresh", "boot", "logout"} /\ e.at = "sent"
  \/ e.at = "found"
  \/ /\ e.at = "revoked" \/ (e.kind = "login" /\ e.at = "sent")
     /\ \E s \in Sids : /\ ledger[s] = Server!FreeEntry
                        /\ e.sid # None => ledger[e.sid].phase = "revoked" /\ ledger[e.sid].user = e.who

(* Only an instance that has no session id left keeps an exchange waiting. *)
IsAnswered(x) ==
  InFlight(x) => Answered(x) \/ CanBeServed(x) \/ \A s \in Sids : ledger[s].phase # "free"

LEMMA WaitsAreHeard ==
  ASSUME EndsInv
  PROVE  WaitersHear /\ \A x \in Slots : IsAnswered(x)
<1>1. ExchangeTypes /\ CallTypes /\ CallsAwaited /\ AppAwaited /\ FreeSids /\ \A x \in Slots : Presented(x)
  BY TypedParts DEF EndsInv
<1>2. ASSUME NEW c \in Calls, call[c].at = "awaiting"
      PROVE  \E x \in Slots : /\ promise[call[c].tab] = x /\ exchange[x].kind = "refresh"
                              /\ Hears(call[c].tab, x)
  <2>1. PICK t \in Tabs : t = call[c].tab
    BY <1>1, <1>2 DEF CallTypes, CallOK
  <2>2. PICK x \in Slots : promise[t] = x
    BY <1>1, <1>2, <2>1 DEF CallsAwaited, ExchangeTypes
  <2>3. /\ exchange[x].kind = "refresh" /\ exchange[x].tab = t /\ exchange[x].ear = "page"
        /\ ExchangeOK(x)
    BY <1>1, <1>2, <2>1, <2>2 DEF CallsAwaited, ExchangeTypes, PromiseOK
  <2> QED BY <2>1, <2>2, <2>3 DEF Hears, InFlight, ExchangeOK
<1>3. ASSUME NEW x \in Slots, InFlight(x), ~Answered(x), NEW s \in Sids, ledger[s].phase = "free"
      PROVE  CanBeServed(x)
  <2>1. exchange[x] \in Exchanges /\ ExchangeOK(x) /\ Presented(x) /\ ledger[s] = Server!FreeEntry
    BY <1>1, <1>3 DEF ExchangeTypes, FreeSids
  <2>2. /\ exchange[x].kind \in {"refresh", "boot", "login", "logout"}
        /\ exchange[x].at \in {"sent", "found", "revoked"}
    BY <1>3, <2>1, ExchangeFields DEF InFlight, Answered, ExchangeOK
  <2> QED BY <2>1, <2>2 DEF CanBeServed, Presented
<1> QED BY <1>1, <1>2, <1>3 DEF WaitersHear, IsAnswered

(* What EverythingEnds rests on, besides that requests are answered or     *)
(* fail: a call that awaits the refreshPromise and an app that opens have  *)
(* an exchange on its way whose answer the page hears, whatever tabs are   *)
(* reloaded, left or signed out meanwhile; the server can always go on     *)
(* with it; and each step brings it, and each call, nearer to its end or   *)
(* leaves it where it is - its answer ends the wait of all who wait.       *)
THEOREM NobodyIsForgotten ==
  Spec => /\ [](WaitersHear /\ \A x \in Slots : IsAnswered(x))
          /\ [][(\A x \in Slots : ComesAlong(x)) /\ (\A c \in Calls : CallComesAlong(c))]_vars
<1>1. EndsInv /\ [Next]_vars => EndsInv'
  BY NextEnds
<1>2. EndsInv /\ [Next]_vars =>
        [(\A x \in Slots : ComesAlong(x)) /\ (\A c \in Calls : CallComesAlong(c))]_vars
  BY NextEnds
<1>3. EndsInv => WaitersHear /\ \A x \in Slots : IsAnswered(x)
  BY WaitsAreHeard
<1> QED BY <1>1, <1>2, <1>3, InitEnds, PTL DEF Spec

------------------------------------------------------------------------------
(* What a tab shows: the slices of ApiSlices.  First their tables.         *)

QueryIn(q, s) ==
  \E n \in DOMAIN s.queries :
    /\ q.slice = s.slice /\ q.name = n
    /\ q.tags = s.queries[n].tags /\ q.facts = s.queries[n].facts

MutationIn(m, s) ==
  \E n \in DOMAIN s.mutations :
    /\ m.slice = s.slice /\ m.name = n
    /\ m.tags = s.mutations[n].tags /\ m.facts = s.mutations[n].facts

(* m writes a fact that q reads; of one id each, it is the same id.        *)
Shares(m, q) ==
  \E f \in m.facts, g \in q.facts :
    f[1] = g[1] /\ (f[2] = "one" /\ g[2] = "one" => m.arg = own)

(* A tag of m is provided by q.                                            *)
Meets(m, q) ==
  \E t \in m.tags, p \in q.tags :
    /\ t[1] = p[1]
    /\ \/ t[2] = "all" /\ p[2] \in {"all", "one"}
       \/ t[2] = "one" /\ p[2] = "one" /\ m.arg = own
       \/ t[2] = "one" /\ p[2] = "each" /\ m.arg \in q.rows

(* What Untold says of mutations of the slice.                             *)
Unheard(q, m) ==
  \/ m.name \in Deletions /\ q.name \in OfOneRow
  \/ <<q.name, m.name>> \in ShowsNameOf
  \/ m.name = "updateMe" /\ q.name # "getMyProfile"
  \/ m.slice = "users" /\ q.name = "getMyProfile" /\ m.name # "updateMe"
  \/ m.name = "updateUser" /\ q.name = "searchUsersDirectory"
  \/ m.name = "updateUser" /\ q.name = "listUsers" /\ m.arg \notin q.rows

LEMMA Scopes ==
  \A t : /\ All(t)[1] = t /\ All(t)[2] = "all" /\ One(t)[1] = t /\ One(t)[2] = "one"
         /\ PerRow(t)[1] = t /\ PerRow(t)[2] = "each" /\ Mine(t)[1] = t /\ Mine(t)[2] = "mine"
BY DEF All, One, PerRow, Mine

(* The rows of each slice.                                                 *)
LEMMA UnitQueries ==
  ASSUME NEW q, QueryIn(q, UnitEndpoints)
  PROVE  /\ q.slice = "org"
         /\ \/ /\ q.name = "getOrgTree"
               /\ q.tags = {All("OrgTree")} /\ q.facts = {All("units"), All("unit")}
            \/ q.name = "getOrgUnitById" /\ q.tags = {One("OrgUnit")} /\ q.facts = {One("unit")}
            \/ /\ q.name = "getOrgUnitMembers"
               /\ q.tags = {One("OrgUnitMembers")} /\ q.facts = {One("members"), All("position")}
            \/ /\ q.name = "getOrgUnitTags"
               /\ q.tags = {One("OrgUnitTags")} /\ q.facts = {One("unitTags"), All("tag")}
BY DEF QueryIn, UnitEndpoints, Endpoint

LEMMA UnitMutations ==
  ASSUME NEW m, MutationIn(m, UnitEndpoints)
  PROVE  /\ m.slice = "org"
         /\ \/ m.name = "createOrgUnit" /\ m.tags = {All("OrgTree")} /\ m.facts = {All("units")}
            \/ /\ m.name = "updateOrgUnit"
               /\ m.tags = {All("OrgTree"), One("OrgUnit")} /\ m.facts = {One("unit")}
            \/ /\ m.name = "deleteOrgUnit"
               /\ m.tags = {All("OrgTree"), One("OrgUnit")} /\ m.facts = {All("units"), One("unit")}
            \/ /\ m.name \in {"addOrgUnitMember", "changeOrgUnitMemberPosition", "removeOrgUnitMember"}
               /\ m.tags = {One("OrgUnitMembers")} /\ m.facts = {One("members")}
            \/ /\ m.name \in {"addOrgUnitTag", "removeOrgUnitTag"}
               /\ m.tags = {One("OrgUnitTags")} /\ m.facts = {One("unitTags")}
BY DEF MutationIn, UnitEndpoints, Endpoint

LEMMA PositionQueries ==
  ASSUME NEW q, QueryIn(q, PositionEndpoints)
  PROVE  /\ q.slice = "org"
         /\ \/ /\ q.name = "listPositions"
               /\ q.tags = {All("Positions")} /\ q.facts = {All("positions"), All("position")}
            \/ /\ q.name = "listPositionRoles"
               /\ q.tags = {One("PositionRoles")} /\ q.facts = {One("positionRoles")}
            \/ /\ q.name = "listTags"
               /\ q.tags = {All("Tags")} /\ q.facts = {All("tags"), All("tag")}
BY DEF QueryIn, PositionEndpoints, Endpoint

LEMMA PositionMutations ==
  ASSUME NEW m, MutationIn(m, PositionEndpoints)
  PROVE  /\ m.slice = "org"
         /\ \/ /\ m.name = "createPosition"
               /\ m.tags = {All("Positions")} /\ m.facts = {All("positions")}
            \/ /\ m.name = "updatePosition"
               /\ m.tags = {All("Positions")} /\ m.facts = {One("position")}
            \/ /\ m.name = "deletePosition"
               /\ m.tags = {All("Positions")} /\ m.facts = {All("positions"), One("position")}
            \/ /\ m.name \in {"assignPositionRoles", "removePositionRole"}
               /\ m.tags = {One("PositionRoles")} /\ m.facts = {One("positionRoles")}
            \/ m.name = "createTag" /\ m.tags = {All("Tags")} /\ m.facts = {All("tags")}
            \/ m.name = "updateTag" /\ m.tags = {All("Tags")} /\ m.facts = {}
            \/ /\ m.name = "deleteTag"
               /\ m.tags = {All("Tags")} /\ m.facts = {All("tags"), One("tag")}
BY DEF MutationIn, PositionEndpoints, Endpoint

LEMMA RoleQueries ==
  ASSUME NEW q, QueryIn(q, RoleEndpoints)
  PROVE  /\ q.slice = "rbac"
         /\ \/ /\ q.name = "listRoles"
               /\ q.tags = {All("Roles")} /\ q.facts = {All("roles"), All("role")}
            \/ /\ q.name = "getRole"
               /\ q.tags = {One("Role")} /\ q.facts = {One("role"), One("rolePermissions")}
            \/ /\ q.name \in {"listUserRoles", "listMyRoles"}
               /\ q.tags = {One("UserRoles")} /\ q.facts = {One("userRoles"), All("role")}
BY DEF QueryIn, RoleEndpoints, Endpoint

LEMMA RoleMutations ==
  ASSUME NEW m, MutationIn(m, RoleEndpoints)
  PROVE  /\ m.slice = "rbac"
         /\ \/ m.name = "createRole" /\ m.tags = {All("Roles")} /\ m.facts = {All("roles")}
            \/ /\ m.name = "updateRole"
               /\ m.tags = {All("Roles"), One("Role")} /\ m.facts = {One("role")}
            \/ /\ m.name = "deleteRole"
               /\ m.tags = {All("Roles")} /\ m.facts = {All("roles"), One("role")}
            \/ /\ m.name \in {"addRolePermissions", "removeRolePermission"}
               /\ m.tags = {All("Roles"), One("Role")} /\ m.facts = {One("rolePermissions")}
            \/ /\ m.name \in {"assignUserRoles", "removeUserRole"}
               /\ m.tags = {One("UserRoles")} /\ m.facts = {One("userRoles")}
BY DEF MutationIn, RoleEndpoints, Endpoint

LEMMA RoomRoleQueries ==
  ASSUME NEW q, QueryIn(q, RoomRoleEndpoints)
  PROVE  /\ q.slice = "rbac"
         /\ \/ /\ q.name = "listRoomRoles"
               /\ q.tags = {All("RoomRoles")} /\ q.facts = {All("roomRoles"), All("roomRole")}
            \/ /\ q.name = "getRoomRole"
               /\ q.tags = {One("RoomRoles")} /\ q.facts = {One("roomRole")}
BY DEF QueryIn, RoomRoleEndpoints, Endpoint

LEMMA RoomRoleMutations ==
  ASSUME NEW m, MutationIn(m, RoomRoleEndpoints)
  PROVE  /\ m.slice = "rbac"
         /\ \/ /\ m.name = "createRoomRole"
               /\ m.tags = {All("RoomRoles")} /\ m.facts = {All("roomRoles")}
            \/ /\ m.name \in {"updateRoomRole", "addRoomRolePermissions", "removeRoomRolePermission"}
               /\ m.tags = {All("RoomRoles"), One("RoomRoles")} /\ m.facts = {One("roomRole")}
BY DEF MutationIn, RoomRoleEndpoints, Endpoint

LEMMA UserQueries ==
  ASSUME NEW q, QueryIn(q, UserEndpoints)
  PROVE  /\ q.slice = "users"
         /\ \/ /\ q.name = "getMyProfile"
               /\ q.tags = {All("User"), All("Me")} /\ q.facts = {One("user")}
            \/ /\ q.name = "listUsers"
               /\ q.tags = {All("Users"), PerRow("User")} /\ q.facts = {All("users"), All("user")}
            \/ /\ q.name = "searchUsersDirectory"
               /\ q.tags = {All("Users")} /\ q.facts = {All("users"), All("user")}
            \/ /\ q.name \in {"getUserById", "getUserProfileById"}
               /\ q.tags = {One("User")} /\ q.facts = {One("user")}
BY DEF QueryIn, UserEndpoints, Endpoint

LEMMA UserMutations ==
  ASSUME NEW m, MutationIn(m, UserEndpoints)
  PROVE  /\ m.slice = "users"
         /\ \/ m.name = "createUser" /\ m.tags = {All("Users")} /\ m.facts = {All("users")}
            \/ m.name = "updateUser" /\ m.tags = {One("User")} /\ m.facts = {One("user")}
            \/ /\ m.name = "deleteUser"
               /\ m.tags = {All("Users")} /\ m.facts = {All("users"), One("user")}
            \/ /\ m.name = "updateMe"
               /\ m.tags = {All("Me"), All("Profile")} /\ m.facts = {Mine("user")}
            \/ /\ m.name \in {"blockUser", "unblockUser", "activateUser", "deactivateUser", "resetUserPassword"}
               /\ m.tags = {All("Users"), One("User")} /\ m.facts = {One("user")}
BY DEF MutationIn, UserEndpoints, Endpoint

LEMMA TaskQueries ==
  ASSUME NEW q, QueryIn(q, TaskEndpoints)
  PROVE  /\ q.slice = "tasks"
         /\ \/ /\ q.name \in {"getMyTasks", "getCreatedTasks"}
               /\ q.tags = {All("Tasks"), PerRow("Task")} /\ q.facts = {All("tasks"), All("task")}
            \/ q.name = "getTask" /\ q.tags = {One("Task")} /\ q.facts = {One("task")}
BY DEF QueryIn, TaskEndpoints, Endpoint

LEMMA TaskMutations ==
  ASSUME NEW m, MutationIn(m, TaskEndpoints)
  PROVE  /\ m.slice = "tasks"
         /\ \/ m.name = "createTask" /\ m.tags = {All("Tasks")} /\ m.facts = {All("tasks")}
            \/ /\ m.name = "deleteTask"
               /\ m.tags = {All("Tasks")} /\ m.facts = {All("tasks"), One("task")}
            \/ /\ m.name \in {"updateTask", "assignParticipants", "removeParticipant", "updateWorkStatus", "reviewParticipant"}
               /\ m.tags = {All("Tasks"), One("Task")} /\ m.facts = {One("task")}
BY DEF MutationIn, TaskEndpoints, Endpoint

LEMMA EventQueries ==
  ASSUME NEW q, QueryIn(q, EventEndpoints)
  PROVE  /\ q.slice = "events"
         /\ \/ /\ q.name \in {"getMyEvents", "getCreatedEvents"}
               /\ q.tags = {All("Events"), PerRow("Event")} /\ q.facts = {All("events"), All("event")}
            \/ q.name = "getEvent" /\ q.tags = {One("Event")} /\ q.facts = {One("event")}
BY DEF QueryIn, EventEndpoints, Endpoint

LEMMA EventMutations ==
  ASSUME NEW m, MutationIn(m, EventEndpoints)
  PROVE  /\ m.slice = "events"
         /\ \/ m.name = "createEvent" /\ m.tags = {All("Events")} /\ m.facts = {All("events")}
            \/ /\ m.name = "deleteEvent"
               /\ m.tags = {All("Events")} /\ m.facts = {All("events"), One("event")}
            \/ /\ m.name \in {"updateEvent", "inviteParticipants", "removeParticipant", "confirmAttendance"}
               /\ m.tags = {All("Events"), One("Event")} /\ m.facts = {One("event")}
BY DEF MutationIn, EventEndpoints, Endpoint

LEMMA PollQueries ==
  ASSUME NEW q, QueryIn(q, PollEndpoints)
  PROVE  /\ q.slice = "polls"
         /\ \/ /\ q.name \in {"getMyPolls", "getCreatedPolls"}
               /\ q.tags = {All("Polls"), PerRow("Poll")} /\ q.facts = {All("polls"), All("poll")}
            \/ q.name = "getPoll" /\ q.tags = {One("Poll")} /\ q.facts = {One("poll")}
BY DEF QueryIn, PollEndpoints, Endpoint

LEMMA PollMutations ==
  ASSUME NEW m, MutationIn(m, PollEndpoints)
  PROVE  /\ m.slice = "polls"
         /\ \/ m.name = "createPoll" /\ m.tags = {All("Polls")} /\ m.facts = {All("polls")}
            \/ /\ m.name = "deletePoll"
               /\ m.tags = {All("Polls")} /\ m.facts = {All("polls"), One("poll")}
            \/ /\ m.name \in {"updatePoll", "inviteParticipants", "removeParticipant", "vote", "retractVote"}
               /\ m.tags = {All("Polls"), One("Poll")} /\ m.facts = {One("poll")}
BY DEF MutationIn, PollEndpoints, Endpoint

LEMMA NotificationQueries ==
  ASSUME NEW q, QueryIn(q, NotificationEndpoints)
  PROVE  /\ q.slice = "notifications"
         /\ \/ /\ q.name = "getNotifications"
               /\ q.tags = {All("Notifications"), PerRow("Notifications")} /\ q.facts = {All("notification")}
BY DEF QueryIn, NotificationEndpoints, Endpoint

LEMMA NotificationMutations ==
  ASSUME NEW m, MutationIn(m, NotificationEndpoints)
  PROVE  /\ m.slice = "notifications"
         /\ \/ /\ m.name = "markAsRead"
               /\ m.tags = {One("Notifications"), All("Notifications")} /\ m.facts = {One("notification")}
            \/ /\ m.name = "markAllAsRead"
               /\ m.tags = {All("Notifications")} /\ m.facts = {All("notification")}
            \/ /\ m.name = "hideNotification"
               /\ m.tags = {All("Notifications")} /\ m.facts = {One("notification")}
BY DEF MutationIn, NotificationEndpoints, Endpoint

LEMMA AuthQueries ==
  ASSUME NEW q, QueryIn(q, AuthEndpoints)
  PROVE  /\ q.slice = "auth"
         /\ \/ q.name = "getMe" /\ q.tags = {All("User")} /\ q.facts = {All("me")}
            \/ /\ q.name = "listPasswordResetRequests"
               /\ q.tags = {All("PasswordResetRequests")} /\ q.facts = {All("resets")}
            \/ /\ q.name = "listRegistrationRequests"
               /\ q.tags = {All("RegistrationRequests")} /\ q.facts = {All("registrations")}
BY DEF QueryIn, AuthEndpoints, Endpoint

LEMMA AuthMutations ==
  ASSUME NEW m, MutationIn(m, AuthEndpoints)
  PROVE  /\ m.slice = "auth"
         /\ \/ /\ m.name = "approveRegistrationRequest"
               /\ m.tags = {All("RegistrationRequests"), All("User")} /\ m.facts = {All("registrations"), All("users")}
            \/ /\ m.name = "rejectRegistrationRequest"
               /\ m.tags = {All("RegistrationRequests")} /\ m.facts = {All("registrations")}
            \/ /\ m.name \in {"approvePasswordResetRequest", "rejectPasswordResetRequest"}
               /\ m.tags = {All("PasswordResetRequests")} /\ m.facts = {All("resets")}
            \/ /\ m.name \in {"refresh", "changePassword", "logout"}
               /\ m.tags = {All("User")} /\ m.facts = {}
BY DEF MutationIn, AuthEndpoints, Endpoint

(* Within a slice, whoever reads what a mutation writes is told, or is one *)
(* of those Untold names.                                                  *)
LEMMA OrgTable ==
  ASSUME NEW q, NEW m, QueryIn(q, UnitEndpoints) \/ QueryIn(q, PositionEndpoints),
         MutationIn(m, UnitEndpoints) \/ MutationIn(m, PositionEndpoints), Shares(m, q)
  PROVE  Meets(m, q) \/ Unheard(q, m)
<1>1. CASE q.name = "getOrgTree"
  BY <1>1, UnitQueries, PositionQueries, UnitMutations, PositionMutations, Scopes
  DEF Shares, Meets, Unheard, Deletions, OfOneRow, ShowsNameOf
<1>2. CASE q.name = "getOrgUnitById"
  BY <1>2, UnitQueries, PositionQueries, UnitMutations, PositionMutations, Scopes
  DEF Shares, Meets, Unheard, Deletions, OfOneRow, ShowsNameOf
<1>3. CASE q.name = "getOrgUnitMembers"
  BY <1>3, UnitQueries, PositionQueries, UnitMutations, PositionMutations, Scopes
  DEF Shares, Meets, Unheard, Deletions, OfOneRow, ShowsNameOf
<1>4. CASE q.name = "getOrgUnitTags"
  BY <1>4, UnitQueries, PositionQueries, UnitMutations, PositionMutations, Scopes
  DEF Shares, Meets, Unheard, Deletions, OfOneRow, ShowsNameOf
<1>5. CASE q.name = "listPositions"
  BY <1>5, UnitQueries, PositionQueries, UnitMutations, PositionMutations, Scopes
  DEF Shares, Meets, Unheard, Deletions, OfOneRow, ShowsNameOf
<1>6. CASE q.name = "listPositionRoles"
  BY <1>6, UnitQueries, PositionQueries, UnitMutations, PositionMutations, Scopes
  DEF Shares, Meets, Unheard, Deletions, OfOneRow, ShowsNameOf
<1>7. CASE q.name = "listTags"
  BY <1>7, UnitQueries, PositionQueries, UnitMutations, PositionMutations, Scopes
  DEF Shares, Meets, Unheard, Deletions, OfOneRow, ShowsNameOf
<1> QED
  BY UnitQueries, PositionQueries, <1>1, <1>2, <1>3, <1>4, <1>5, <1>6, <1>7

LEMMA RoleTable ==
  ASSUME NEW q, NEW m, QueryIn(q, RoleEndpoints) \/ QueryIn(q, RoomRoleEndpoints),
         MutationIn(m, RoleEndpoints) \/ MutationIn(m, RoomRoleEndpoints), Shares(m, q)
  PROVE  Meets(m, q) \/ Unheard(q, m)
<1>1. CASE q.name = "listRoles"
  BY <1>1, RoleQueries, RoomRoleQueries, RoleMutations, RoomRoleMutations, Scopes
  DEF Shares, Meets, Unheard, Deletions, OfOneRow, ShowsNameOf
<1>2. CASE q.name = "getRole"
  BY <1>2, RoleQueries, RoomRoleQueries, RoleMutations, RoomRoleMutations, Scopes
  DEF Shares, Meets, Unheard, Deletions, OfOneRow, ShowsNameOf
<1>3. CASE q.name \in {"listUserRoles", "listMyRoles"}
  BY <1>3, RoleQueries, RoomRoleQueries, RoleMutations, RoomRoleMutations, Scopes
  DEF Shares, Meets, Unheard, Deletions, OfOneRow, ShowsNameOf
<1>4. CASE q.name = "listRoomRoles"
  BY <1>4, RoleQueries, RoomRoleQueries, RoleMutations, RoomRoleMutations, Scopes
  DEF Shares, Meets, Unheard, Deletions, OfOneRow, ShowsNameOf
<1>5. CASE q.name = "getRoomRole"
  BY <1>5, RoleQueries, RoomRoleQueries, RoleMutations, RoomRoleMutations, Scopes
  DEF Shares, Meets, Unheard, Deletions, OfOneRow, ShowsNameOf
<1> QED
  BY RoleQueries, RoomRoleQueries, <1>1, <1>2, <1>3, <1>4, <1>5

LEMMA UserTable ==
  ASSUME NEW q, NEW m, QueryIn(q, UserEndpoints),
         MutationIn(m, UserEndpoints), Shares(m, q)
  PROVE  Meets(m, q) \/ Unheard(q, m)
<1>1. CASE q.name = "getMyProfile"
  BY <1>1, UserQueries, UserMutations, Scopes
  DEF Shares, Meets, Unheard, Deletions, OfOneRow, ShowsNameOf
<1>2. CASE q.name = "listUsers"
  BY <1>2, UserQueries, UserMutations, Scopes
  DEF Shares, Meets, Unheard, Deletions, OfOneRow, ShowsNameOf
<1>3. CASE q.name = "searchUsersDirectory"
  BY <1>3, UserQueries, UserMutations, Scopes
  DEF Shares, Meets, Unheard, Deletions, OfOneRow, ShowsNameOf
<1>4. CASE q.name \in {"getUserById", "getUserProfileById"}
  BY <1>4, UserQueries, UserMutations, Scopes
  DEF Shares, Meets, Unheard, Deletions, OfOneRow, ShowsNameOf
<1> QED
  BY UserQueries, <1>1, <1>2, <1>3, <1>4

LEMMA TaskTable ==
  ASSUME NEW q, NEW m, QueryIn(q, TaskEndpoints),
         MutationIn(m, TaskEndpoints), Shares(m, q)
  PROVE  Meets(m, q) \/ Unheard(q, m)
BY TaskQueries, TaskMutations, Scopes
DEF Shares, Meets, Unheard, Deletions, OfOneRow, ShowsNameOf

LEMMA EventTable ==
  ASSUME NEW q, NEW m, QueryIn(q, EventEndpoints),
         MutationIn(m, EventEndpoints), Shares(m, q)
  PROVE  Meets(m, q) \/ Unheard(q, m)
BY EventQueries, EventMutations, Scopes
DEF Shares, Meets, Unheard, Deletions, OfOneRow, ShowsNameOf

LEMMA PollTable ==
  ASSUME NEW q, NEW m, QueryIn(q, PollEndpoints),
         MutationIn(m, PollEndpoints), Shares(m, q)
  PROVE  Meets(m, q) \/ Unheard(q, m)
BY PollQueries, PollMutations, Scopes
DEF Shares, Meets, Unheard, Deletions, OfOneRow, ShowsNameOf

LEMMA NotificationTable ==
  ASSUME NEW q, NEW m, QueryIn(q, NotificationEndpoints),
         MutationIn(m, NotificationEndpoints), Shares(m, q)
  PROVE  Meets(m, q) \/ Unheard(q, m)
BY NotificationQueries, NotificationMutations, Scopes
DEF Shares, Meets, Unheard, Deletions, OfOneRow, ShowsNameOf

LEMMA AuthTable ==
  ASSUME NEW q, NEW m, QueryIn(q, AuthEndpoints),
         MutationIn(m, AuthEndpoints), Shares(m, q)
  PROVE  Meets(m, q) \/ Unheard(q, m)
BY AuthQueries, AuthMutations, Scopes
DEF Shares, Meets, Unheard, Deletions, OfOneRow, ShowsNameOf

(* Of which slice a fact is.                                               *)
HomeOf ==
  [units |-> "org", unit |-> "org", members |-> "org", unitTags |-> "org", positions |-> "org",
   position |-> "org", positionRoles |-> "org", tags |-> "org", tag |-> "org",
   roles |-> "rbac", role |-> "rbac", rolePermissions |-> "rbac", userRoles |-> "rbac",
   roomRoles |-> "rbac", roomRole |-> "rbac",
   users |-> "users", user |-> "users", tasks |-> "tasks", task |-> "tasks",
   events |-> "events", event |-> "events", polls |-> "polls", poll |-> "polls",
   notification |-> "notifications",
   me |-> "auth", resets |-> "auth", registrations |-> "auth"]

LEMMA Homes ==
  /\ \A x \in {"units", "unit", "members", "unitTags", "positions", "position", "positionRoles", "tags", "tag"} : HomeOf[x] = "org"
  /\ \A x \in {"roles", "role", "rolePermissions", "userRoles", "roomRoles", "roomRole"} : HomeOf[x] = "rbac"
  /\ \A x \in {"users", "user"} : HomeOf[x] = "users"
  /\ \A x \in {"tasks", "task"} : HomeOf[x] = "tasks"
  /\ \A x \in {"events", "event"} : HomeOf[x] = "events"
  /\ \A x \in {"polls", "poll"} : HomeOf[x] = "polls"
  /\ \A x \in {"notification"} : HomeOf[x] = "notifications"
  /\ \A x \in {"me", "resets", "registrations"} : HomeOf[x] = "auth"
BY DEF HomeOf

Reading(q) ==
  /\ \A f \in q.facts : HomeOf[f[1]] = q.slice /\ f[2] \in {"all", "one"}
  /\ \A t \in q.tags : t[2] \in {"all", "one", "each"}

Writing(m) ==
  /\ \A f \in m.facts :
       /\ f[2] \in {"all", "one", "mine"}
       /\ \/ HomeOf[f[1]] = m.slice
          \/ m.name = "approveRegistrationRequest" /\ f = All("users")
  /\ \A t \in m.tags : t[2] \in {"all", "one"}

LEMMA SliceReads ==
  ASSUME NEW q, NEW s \in Slices, QueryIn(q, s)
  PROVE  Reading(q)
<1>1. CASE s = UnitEndpoints
  BY <1>1, UnitQueries, Homes, Scopes DEF Reading
<1>2. CASE s = PositionEndpoints
  BY <1>2, PositionQueries, Homes, Scopes DEF Reading
<1>3. CASE s = RoleEndpoints
  BY <1>3, RoleQueries, Homes, Scopes DEF Reading
<1>4. CASE s = RoomRoleEndpoints
  BY <1>4, RoomRoleQueries, Homes, Scopes DEF Reading
<1>5. CASE s = UserEndpoints
  BY <1>5, UserQueries, Homes, Scopes DEF Reading
<1>6. CASE s = TaskEndpoints
  BY <1>6, TaskQueries, Homes, Scopes DEF Reading
<1>7. CASE s = EventEndpoints
  BY <1>7, EventQueries, Homes, Scopes DEF Reading
<1>8. CASE s = PollEndpoints
  BY <1>8, PollQueries, Homes, Scopes DEF Reading
<1>9. CASE s = NotificationEndpoints
  BY <1>9, NotificationQueries, Homes, Scopes DEF Reading
<1>10. CASE s = AuthEndpoints
  BY <1>10, AuthQueries, Homes, Scopes DEF Reading
<1> QED
  BY <1>1, <1>2, <1>3, <1>4, <1>5, <1>6, <1>7, <1>8, <1>9, <1>10 DEF Slices

LEMMA SliceWrites ==
  ASSUME NEW m, NEW s \in Slices, MutationIn(m, s)
  PROVE  Writing(m)
<1>1. CASE s = UnitEndpoints
  BY <1>1, UnitMutations, Homes, Scopes DEF Writing
<1>2. CASE s = PositionEndpoints
  BY <1>2, PositionMutations, Homes, Scopes DEF Writing
<1>3. CASE s = RoleEndpoints
  BY <1>3, RoleMutations, Homes, Scopes DEF Writing
<1>4. CASE s = RoomRoleEndpoints
  BY <1>4, RoomRoleMutations, Homes, Scopes DEF Writing
<1>5. CASE s = UserEndpoints
  BY <1>5, UserMutations, Homes, Scopes DEF Writing
<1>6. CASE s = TaskEndpoints
  BY <1>6, TaskMutations, Homes, Scopes DEF Writing
<1>7. CASE s = EventEndpoints
  BY <1>7, EventMutations, Homes, Scopes DEF Writing
<1>8. CASE s = PollEndpoints
  BY <1>8, PollMutations, Homes, Scopes DEF Writing
<1>9. CASE s = NotificationEndpoints
  BY <1>9, NotificationMutations, Homes, Scopes DEF Writing
<1>10. CASE s = AuthEndpoints
  BY <1>10, AuthMutations, Homes, Scopes DEF Writing
<1> QED
  BY <1>1, <1>2, <1>3, <1>4, <1>5, <1>6, <1>7, <1>8, <1>9, <1>10 DEF Slices

LEMMA QueryIs ==
  ASSUME NEW q \in Queries
  PROVE  \E s \in Slices :
           /\ QueryIn(q, s)
           /\ q.rows \in {{}, Ids}
           /\ q.rows = Ids => \E t \in q.tags : t[2] = "each"
BY DEF Queries, QueryIn

LEMMA MutationIs ==
  ASSUME NEW m \in Mutations
  PROVE  m.arg \in Ids /\ \E s \in Slices : MutationIn(m, s)
BY DEF Mutations, MutationIn

------------------------------------------------------------------------------
(* Who is told of a mutation                                               *)

LEMMA InstanceIn ==
  ASSUME NEW forms, NEW arg, NEW rows, NEW f \in forms, NEW i \in IdsOf(f[2], arg, rows)
  PROVE  \E t \in Instances(forms, arg, rows) : t[1] = f[1] /\ t[2] = i
<1>1. <<f[1], i>> \in Instances(forms, arg, rows)
  BY DEF Instances
<1>2. <<f[1], i>>[1] = f[1] /\ <<f[1], i>>[2] = i
  OBVIOUS
<1> QED
  BY <1>1, <1>2

LEMMA InstanceOf ==
  ASSUME NEW forms, NEW arg, NEW rows, NEW t \in Instances(forms, arg, rows)
  PROVE  \E f \in forms : t[1] = f[1] /\ t[2] \in IdsOf(f[2], arg, rows)
BY DEF Instances

(* The id of a tag, as the tables write it.                                *)
OneId(i) == {i}

LEMMA ScopeIds ==
  ASSUME NEW arg, NEW rows
  PROVE  /\ IdsOf("all", arg, rows) = {{}} /\ IdsOf("one", arg, rows) = {{arg}}
         /\ IdsOf("each", arg, rows) = {{i} : i \in rows}
BY DEF IdsOf

LEMMA AllInstance ==
  ASSUME NEW forms, NEW arg, NEW rows, NEW f \in forms, f[2] = "all"
  PROVE  \E t \in Instances(forms, arg, rows) : t[1] = f[1] /\ t[2] = {}
<1> DEFINE id == {}
<1>1. id \in IdsOf(f[2], arg, rows)
  BY ScopeIds
<1> HIDE DEF id
<1>2. \E t \in Instances(forms, arg, rows) : t[1] = f[1] /\ t[2] = id
  BY <1>1, InstanceIn
<1> QED
  BY <1>2 DEF id

LEMMA OneInstance ==
  ASSUME NEW forms, NEW arg, NEW rows, NEW f \in forms, f[2] = "one"
  PROVE  \E t \in Instances(forms, arg, rows) : t[1] = f[1] /\ t[2] = OneId(arg)
<1> DEFINE id == OneId(arg)
<1>1. id \in IdsOf(f[2], arg, rows)
  BY ScopeIds DEF OneId
<1> HIDE DEF id
<1>2. \E t \in Instances(forms, arg, rows) : t[1] = f[1] /\ t[2] = id
  BY <1>1, InstanceIn
<1> QED
  BY <1>2 DEF id

LEMMA RowInstance ==
  ASSUME NEW forms, NEW arg, NEW rows, NEW f \in forms, f[2] = "each", NEW r \in rows
  PROVE  \E t \in Instances(forms, arg, rows) : t[1] = f[1] /\ t[2] = OneId(r)
<1> DEFINE id == OneId(r)
<1>1. id \in IdsOf(f[2], arg, rows)
  BY ScopeIds DEF OneId
<1> HIDE DEF id
<1>2. \E t \in Instances(forms, arg, rows) : t[1] = f[1] /\ t[2] = id
  BY <1>1, InstanceIn
<1> QED
  BY <1>2 DEF id

LEMMA TouchesShares ==
  ASSUME NEW m, NEW q, Touches(m, q)
  PROVE  Shares(m, q)
<1>1. PICK w \in Instances(m.facts, m.arg, {}), r \in Instances(q.facts, own, Ids) :
         w[1] = r[1] /\ (w[2] = {} \/ r[2] = {} \/ w[2] = r[2])
  BY DEF Touches
<1>2. PICK f \in m.facts : w[1] = f[1] /\ w[2] \in IdsOf(f[2], m.arg, {})
  BY InstanceOf
<1>3. PICK g \in q.facts : r[1] = g[1] /\ r[2] \in IdsOf(g[2], own, Ids)
  BY InstanceOf
<1>4. ASSUME f[2] = "one", g[2] = "one" PROVE m.arg = own
  <2>1. w[2] = {m.arg} /\ r[2] = {own}
    BY <1>2, <1>3, <1>4, ScopeIds
  <2> QED
    BY <1>1, <2>1
<1> QED
  BY <1>1, <1>2, <1>3, <1>4 DEF Shares

LEMMA SliceNames ==
  /\ UnitEndpoints.slice = "org" /\ PositionEndpoints.slice = "org"
  /\ RoleEndpoints.slice = "rbac" /\ RoomRoleEndpoints.slice = "rbac"
  /\ UserEndpoints.slice = "users" /\ TaskEndpoints.slice = "tasks"
  /\ EventEndpoints.slice = "events" /\ PollEndpoints.slice = "polls"
  /\ NotificationEndpoints.slice = "notifications" /\ AuthEndpoints.slice = "auth"
BY DEF UnitEndpoints, PositionEndpoints, RoleEndpoints, RoomRoleEndpoints, UserEndpoints,
       TaskEndpoints, EventEndpoints, PollEndpoints, NotificationEndpoints, AuthEndpoints

LEMMA ResetOrKept ==
  ASSUME NEW q \in Queries
  PROVE  q.slice \in ResetSlices \union {"rbac", "tasks", "events", "polls"}
<1>1. PICK s \in Slices : q.slice = s.slice
  BY QueryIs DEF QueryIn
<1> QED
  BY <1>1, SliceNames DEF Slices, ResetSlices

LEMMA MutationHeard ==
  ASSUME NEW m \in Mutations, NEW q \in Queries, Touches(m, q)
  PROVE  /\ m.slice = q.slice => Meets(m, q) \/ Unheard(q, m)
         /\ m.slice # q.slice => /\ m.name = "approveRegistrationRequest" /\ q.slice = "users"
                                 /\ All("Users") \in q.tags
<1>1. PICK s \in Slices : QueryIn(q, s)
  BY QueryIs
<1>2. PICK z \in Slices : MutationIn(m, z)
  BY MutationIs
<1>3. Shares(m, q)
  BY TouchesShares
<1>4. ASSUME m.slice = q.slice PROVE Meets(m, q) \/ Unheard(q, m)
  <2>1. s.slice = q.slice /\ z.slice = m.slice
    BY <1>1, <1>2 DEF QueryIn, MutationIn
  <2>3. \/ s \in {UnitEndpoints, PositionEndpoints} /\ z \in {UnitEndpoints, PositionEndpoints}
        \/ s \in {RoleEndpoints, RoomRoleEndpoints} /\ z \in {RoleEndpoints, RoomRoleEndpoints}
        \/ /\ s = z
           /\ s \in {UserEndpoints, TaskEndpoints, EventEndpoints, PollEndpoints,
                     NotificationEndpoints, AuthEndpoints}
    BY <1>4, <2>1, SliceNames DEF Slices
  <2> QED
    BY <1>1, <1>2, <1>3, <2>3, OrgTable, RoleTable, UserTable, TaskTable, EventTable, PollTable,
       NotificationTable, AuthTable
<1>5. ASSUME m.slice # q.slice
      PROVE  /\ m.name = "approveRegistrationRequest" /\ q.slice = "users"
             /\ All("Users") \in q.tags
  <2>1. PICK f \in m.facts, g \in q.facts : f[1] = g[1]
    BY <1>3 DEF Shares
  <2>2. HomeOf[g[1]] = q.slice
    BY <1>1, SliceReads DEF Reading
  <2>3. m.name = "approveRegistrationRequest" /\ f = All("users")
    BY <1>2, <1>5, <2>1, <2>2, SliceWrites DEF Writing
  <2>4. g[1] = "users" /\ q.slice = "users"
    BY <2>1, <2>2, <2>3, Scopes, Homes
  <2>5. s = UserEndpoints
    BY <1>1, <2>4, UnitQueries, PositionQueries, RoleQueries, RoomRoleQueries, TaskQueries,
       EventQueries, PollQueries, NotificationQueries, AuthQueries DEF Slices
  <2>6. All("Users") \in q.tags
    BY <1>1, <2>4, <2>5, UserQueries, Scopes
  <2> QED
    BY <2>3, <2>4, <2>6
<1> QED
  BY <1>4, <1>5

(* Whom a tag hits once the answer is there.                               *)
HitsRows(q, t) ==
  \E p \in Instances(q.tags, own, q.rows) : t[1] = p[1] /\ (t[2] = {} \/ t[2] = p[2])

LEMMA HitIs ==
  ASSUME NEW t, NEW e, ~e.failed
  PROVE  Hit(t, e) <=> HitsRows(watched, t)
BY DEF Hit, HitsRows

LEMMA MeetsHits ==
  ASSUME NEW m, Meets(m, watched)
  PROVE  \E t \in Instances(m.tags, m.arg, {}) : HitsRows(watched, t)
<1> DEFINE tags == m.tags
           id == m.arg
           none == {}
<1> HIDE DEF tags, id, none
<1>0. SUFFICES \E t \in Instances(tags, id, none) : HitsRows(watched, t)
  BY DEF tags, id, none
<1>1. PICK x \in tags, y \in watched.tags :
        /\ x[1] = y[1]
        /\ \/ x[2] = "all" /\ y[2] \in {"all", "one"}
           \/ x[2] = "one" /\ y[2] = "one" /\ id = own
           \/ x[2] = "one" /\ y[2] = "each" /\ id \in watched.rows
  BY DEF Meets, tags, id
<1>2. CASE x[2] = "all" /\ y[2] \in {"all", "one"}
  <2>1. PICK t \in Instances(tags, id, none) : t[1] = x[1] /\ t[2] = {}
    BY <1>2, AllInstance
  <2>2. \E p \in Instances(watched.tags, own, watched.rows) : p[1] = y[1]
    <3>1. CASE y[2] = "all"
      BY <3>1, AllInstance
    <3>2. CASE y[2] = "one"
      BY <3>2, OneInstance
    <3> QED
      BY <1>2, <3>1, <3>2
  <2> QED
    BY <1>1, <2>1, <2>2 DEF HitsRows
<1>6. ASSUME x[2] = "one" PROVE \E t \in Instances(tags, id, none) : t[1] = x[1] /\ t[2] = OneId(id)
  BY <1>1, <1>6, OneInstance
<1>7. ASSUME y[2] = "one"
      PROVE \E p \in Instances(watched.tags, own, watched.rows) : p[1] = y[1] /\ p[2] = OneId(own)
  BY <1>1, <1>7, OneInstance
<1>8. ASSUME y[2] = "each", NEW r \in watched.rows
      PROVE \E p \in Instances(watched.tags, own, watched.rows) : p[1] = y[1] /\ p[2] = OneId(r)
  BY <1>1, <1>8, RowInstance
<1>3. CASE x[2] = "one" /\ y[2] = "one" /\ id = own
  <2>1. PICK t \in Instances(tags, id, none) : t[1] = x[1] /\ t[2] = OneId(id)
    BY <1>3, <1>6
  <2>2. PICK p \in Instances(watched.tags, own, watched.rows) : p[1] = y[1] /\ p[2] = OneId(own)
    BY <1>3, <1>7
  <2>3. t[1] = p[1] /\ t[2] = p[2]
    BY <1>1, <1>3, <2>1, <2>2
  <2> QED
    BY <2>3 DEF HitsRows
<1>4. CASE x[2] = "one" /\ y[2] = "each" /\ id \in watched.rows
  <2>1. PICK t \in Instances(tags, id, none) : t[1] = x[1] /\ t[2] = OneId(id)
    BY <1>4, <1>6
  <2>2. PICK p \in Instances(watched.tags, own, watched.rows) : p[1] = y[1] /\ p[2] = OneId(id)
    BY <1>4, <1>8
  <2> QED
    BY <1>1, <2>1, <2>2 DEF HitsRows
<1> QED
  BY <1>1, <1>2, <1>3, <1>4

LEMMA AllHits ==
  ASSUME NEW x, All(x) \in watched.tags, NEW t, t[1] = x, t[2] = {}
  PROVE  HitsRows(watched, t)
<1>1. \E p \in Instances(watched.tags, own, watched.rows) : p[1] = x
  <2> DEFINE f == All(x)
  <2>1. f \in watched.tags /\ f[1] = x /\ f[2] = "all"
    BY Scopes
  <2> HIDE DEF f
  <2> QED
    BY <2>1, AllInstance
<1> QED
  BY <1>1 DEF HitsRows

(* The tags a settled mutation has told.                                   *)
ToldBy(m, ok) ==
  (IF m.slice = watched.slice THEN Instances(m.tags, m.arg, {}) ELSE {})
  \union IF ok THEN AcrossSlices(m) ELSE {}

LEMMA SettledIsTold ==
  ASSUME NEW m \in Mutations, watched \in Queries, Touches(m, watched),
         NEW ok \in BOOLEAN, NEW c, c.mutation = m, c.ok = ok
  PROVE  Untold(watched, c) \/ \E t \in ToldBy(m, ok) : HitsRows(watched, t)
<1>1. CASE m.slice = watched.slice
  <2>1. Meets(m, watched) \/ Unheard(watched, m)
    BY <1>1, MutationHeard
  <2>2. Unheard(watched, m) => Untold(watched, c)
    BY DEF Unheard, Untold
  <2>3. Meets(m, watched) => \E t \in ToldBy(m, ok) : HitsRows(watched, t)
    BY <1>1, MeetsHits DEF ToldBy
  <2> QED
    BY <2>1, <2>2, <2>3
<1>2. CASE m.slice # watched.slice
  <2>1. /\ m.name = "approveRegistrationRequest" /\ watched.slice = "users"
        /\ All("Users") \in watched.tags
    BY <1>2, MutationHeard
  <2>2. CASE ~ok
    BY <1>2, <2>2 DEF Untold
  <2>3. CASE ok
    <3>1. <<"Users", {}>> \in ToldBy(m, ok)
      BY <2>1, <2>3 DEF ToldBy, AcrossSlices
    <3>2. <<"Users", {}>>[1] = "Users" /\ <<"Users", {}>>[2] = {}
      OBVIOUS
    <3>3. HitsRows(watched, <<"Users", {}>>)
      BY <2>1, <3>2, AllHits
    <3> QED
      BY <3>1, <3>3
  <2> QED
    BY <2>2, <2>3
<1> QED
  BY <1>1, <1>2

------------------------------------------------------------------------------
(* The inductive invariant                                                 *)

Entries ==
  [in : BOOLEAN, mounted : BOOLEAN, fetch : {"none", "asked", "served"},
   asker : UserIds \union {Nobody}, got : SUBSET Changes, held : SUBSET Changes,
   of : UserIds \union {Nobody}, failed : BOOLEAN]

ChangeStates ==
  [at : {"unused", "sent", "written", "settled", "late"}, done : BOOLEAN, ok : BOOLEAN,
   kept : BOOLEAN, mutation : Mutations \union {Nobody}]

(* A change that is under way is of a mutation the rows depend on.         *)
InOrder(q, c) ==
  /\ c.at # "unused" => c.mutation \in Mutations /\ Touches(c.mutation, q)
  /\ c.done => c.at \in {"written", "settled", "late"}

(* An entry in use, or being fetched, is in the cache, and what it holds   *)
(* or waits for is the reader's unless its slice is kept across users.     *)
Cached(q, e, u) ==
  /\ e.mounted \/ e.fetch # "none" => e.in
  /\ q.slice \notin {"rbac", "tasks", "events", "polls"} =>
       /\ e.of \in {Nobody, u}
       /\ e.fetch # "none" => e.asker = u

(* Why a change that was made is in the rows, or will be: its answer is    *)
(* still due, the server has yet to read the rows or has read them since,  *)
(* nobody looks at the rows, or a tag that hits them waits.                *)
Covered(q, e, c, waiting, s) ==
  \/ OnTheWay(c)
  \/ e.fetch = "asked"
  \/ e.fetch = "served" /\ s \in e.got
  \/ e.fetch = "none" /\ (s \in e.held \/ e.failed \/ ~e.mounted)
  \/ \E t \in waiting : HitsRows(q, t)
  \/ Untold(q, c)

Pending(q, e, changes, o) ==
  \/ e.fetch # "none"
  \/ o
  \/ \E s \in Changes :
       OnTheWay(changes[s]) /\ changes[s].kept /\ changes[s].mutation.slice = q.slice

Kept(q, e, changes, o, waiting, u) ==
  /\ q \in Queries /\ e \in Entries /\ changes \in [Changes -> ChangeStates]
  /\ o \in BOOLEAN /\ u \in UserIds
  /\ Cached(q, e, u)
  /\ \A s \in Changes : /\ InOrder(q, changes[s])
                        /\ changes[s].done => Covered(q, e, changes[s], waiting, s)

Waits(q, e, changes, o, waiting) == waiting # {} => Pending(q, e, changes, o) \/ ~e.mounted

SlicesInv ==
  /\ Kept(watched, entry, change, others, delayed, reader)
  /\ Waits(watched, entry, change, others, delayed)

LEMMA NoEntryIs ==
  /\ NoEntry \in Entries /\ NoEntry.fetch = "none" /\ ~NoEntry.mounted /\ ~NoEntry.in
  /\ NoEntry.of = Nobody
BY DEF NoEntry, Entries

LEMMA FetchingIs ==
  ASSUME NEW e \in Entries, reader \in UserIds
  PROVE  /\ Fetching(e) \in Entries /\ Fetching(e).in /\ Fetching(e).fetch = "asked"
         /\ Fetching(e).asker = reader /\ Fetching(e).of = e.of
         /\ Fetching(e).mounted = e.mounted
BY DEF Fetching, Entries

LEMMA LandedIs ==
  ASSUME NEW e \in Entries
  PROVE  /\ Landed(e) \in Entries /\ Landed(e).in = e.in /\ Landed(e).mounted = e.mounted
         /\ Landed(e).fetch = "none" /\ Landed(e).held = e.got /\ Landed(e).of = e.asker
BY DEF Landed, Entries

LEMMA FailedIs ==
  ASSUME NEW e \in Entries
  PROVE  /\ Failed(e) \in Entries /\ Failed(e).in = e.in /\ Failed(e).mounted = e.mounted
         /\ Failed(e).fetch = "none" /\ Failed(e).failed /\ Failed(e).of = e.of
BY DEF Failed, Entries

(* Invalidation loses no change, and leaves no tag waiting for nothing.    *)
LEMMA TellKeeps ==
  ASSUME NEW e, NEW changes, NEW o, NEW tags, Tell(e, changes, o, tags),
         Kept(watched, e, changes, o, delayed \union tags, reader)
  PROVE  SlicesInv'
<1> DEFINE due == delayed \union tags
<1>1. /\ watched' = watched /\ reader' = reader /\ change' = changes /\ others' = o
      /\ BusyWith(e, changes, o) => entry' = e /\ delayed' = due
      /\ ~BusyWith(e, changes, o) => delayed' = {}
  BY DEF Tell
<1>2. BusyWith(e, changes, o) <=> Pending(watched, e, changes, o)
  BY DEF BusyWith, Pending
<1>3. /\ watched \in Queries /\ e \in Entries /\ changes \in [Changes -> ChangeStates]
      /\ o \in BOOLEAN /\ reader \in UserIds /\ Cached(watched, e, reader)
      /\ \A s \in Changes : /\ InOrder(watched, changes[s])
                            /\ changes[s].done => Covered(watched, e, changes[s], due, s)
  BY DEF Kept
<1> HIDE DEF due
<1>4. SUFFICES Kept(watched, entry', changes, o, delayed', reader)
               /\ Waits(watched, entry', changes, o, delayed')
  BY <1>1 DEF SlicesInv
<1>5. CASE BusyWith(e, changes, o)
  <2>1. entry' = e /\ delayed' = due
    BY <1>1, <1>5
  <2> QED
    BY <1>2, <1>3, <1>5, <2>1 DEF Kept, Waits
<1>6. CASE ~BusyWith(e, changes, o)
  <2>1. delayed' = {} /\ e.fetch = "none"
    BY <1>1, <1>2, <1>6 DEF Pending
  <2>2. Waits(watched, entry', changes, o, delayed')
    BY <2>1 DEF Waits
  <2>3. SUFFICES /\ entry' \in Entries /\ Cached(watched, entry', reader)
                 /\ \A s \in Changes : changes[s].done =>
                                         Covered(watched, entry', changes[s], {}, s)
    BY <1>3, <2>1, <2>2 DEF Kept
  <2>4. \/ entry' = e /\ (~e.in \/ ~(\E t \in due : Hit(t, e)))
        \/ entry' = NoEntry
        \/ entry' = Fetching(e)
    BY <1>6, <2>1 DEF Tell, due, Entries
  <2>5. CASE entry' = e /\ (~e.in \/ ~(\E t \in due : Hit(t, e)))
    <3>1. ASSUME NEW s \in Changes, changes[s].done
          PROVE  Covered(watched, e, changes[s], {}, s)
      <4>1. Covered(watched, e, changes[s], due, s)
        BY <1>3, <3>1
      <4>2. CASE e.failed \/ ~e.mounted
        BY <2>1, <4>2 DEF Covered
      <4>3. CASE ~e.failed /\ e.mounted
        <5>1. e.in
          BY <1>3, <4>3 DEF Cached
        <5>2. ~\E t \in due : HitsRows(watched, t)
          BY <2>5, <4>3, <5>1, HitIs
        <5> QED
          BY <4>1, <5>2 DEF Covered
      <4> QED
        BY <4>2, <4>3
    <3> QED
      BY <1>3, <2>5, <3>1
  <2>6. CASE entry' = NoEntry
    BY <2>6, NoEntryIs DEF Cached, Covered
  <2>7. CASE entry' = Fetching(e)
    BY <1>3, <2>7, FetchingIs DEF Cached, Covered
  <2> QED
    BY <2>4, <2>5, <2>6, <2>7
<1> QED
  BY <1>5, <1>6

LEMMA UseKeeps ==
  ASSUME SlicesInv, Use
  PROVE  SlicesInv'
<1> DEFINE base == IF entry.fetch = "none" THEN Fetching(entry) ELSE entry
           next == [base EXCEPT !.mounted = TRUE]
<1>1. /\ watched' = watched /\ reader' = reader /\ change' = change /\ others' = others
      /\ delayed' = delayed /\ entry' = next
  BY DEF Use
<1>2. entry \in Entries /\ reader \in UserIds /\ Cached(watched, entry, reader)
  BY DEF SlicesInv, Kept
<1>3. /\ base \in Entries /\ base.in /\ base.fetch # "none" /\ base.of = entry.of
      /\ entry.fetch = "none" => base.fetch = "asked" /\ base.asker = reader
      /\ entry.fetch # "none" => base = entry
  BY <1>2, FetchingIs DEF Cached
<1> HIDE DEF base
<1>4. /\ next \in Entries /\ next.in /\ next.fetch = base.fetch /\ next.of = base.of
      /\ next.asker = base.asker /\ next.got = base.got
  BY <1>3 DEF Entries
<1> HIDE DEF next
<1>5. Cached(watched, next, reader)
  BY <1>2, <1>3, <1>4 DEF Cached
<1>6. ASSUME NEW s \in Changes, Covered(watched, entry, change[s], delayed, s)
      PROVE  Covered(watched, next, change[s], delayed, s)
  <2>1. CASE entry.fetch = "none"
    BY <1>3, <1>4, <2>1 DEF Covered
  <2>2. CASE entry.fetch # "none"
    BY <1>3, <1>4, <1>6, <2>2 DEF Covered
  <2> QED
    BY <2>1, <2>2
<1>7. Kept(watched, next, change, others, delayed, reader)
  BY <1>4, <1>5, <1>6 DEF SlicesInv, Kept
<1>8. Waits(watched, next, change, others, delayed)
  BY <1>3, <1>4 DEF Waits, Pending
<1> QED
  BY <1>1, <1>7, <1>8 DEF SlicesInv

LEMMA LeaveKeeps ==
  ASSUME SlicesInv, Leave
  PROVE  SlicesInv'
<1> DEFINE next == [entry EXCEPT !.mounted = FALSE]
<1>1. /\ watched' = watched /\ reader' = reader /\ change' = change /\ others' = others
      /\ delayed' = delayed /\ entry' = next
  BY DEF Leave
<1>2. entry \in Entries /\ Cached(watched, entry, reader)
  BY DEF SlicesInv, Kept
<1>3. /\ next \in Entries /\ next.in = entry.in /\ next.fetch = entry.fetch /\ ~next.mounted
      /\ next.of = entry.of /\ next.asker = entry.asker /\ next.got = entry.got
  BY <1>2 DEF Entries
<1> HIDE DEF next
<1>4. Cached(watched, next, reader)
  BY <1>2, <1>3 DEF Cached
<1>5. ASSUME NEW s \in Changes, Covered(watched, entry, change[s], delayed, s)
      PROVE  Covered(watched, next, change[s], delayed, s)
  BY <1>3, <1>5 DEF Covered
<1>6. Kept(watched, next, change, others, delayed, reader)
  BY <1>3, <1>4, <1>5 DEF SlicesInv, Kept
<1> QED
  BY <1>1, <1>3, <1>6 DEF SlicesInv, Waits

LEMMA DropKeeps ==
  ASSUME SlicesInv, Drop
  PROVE  SlicesInv'
<1>1. /\ watched' = watched /\ reader' = reader /\ change' = change /\ others' = others
      /\ delayed' = delayed /\ entry' = NoEntry
  BY DEF Drop
<1>2. Kept(watched, NoEntry, change, others, delayed, reader)
  BY NoEntryIs DEF SlicesInv, Kept, Cached, Covered
<1> QED
  BY <1>1, <1>2, NoEntryIs DEF SlicesInv, Waits

LEMMA ReadKeeps ==
  ASSUME SlicesInv, Read
  PROVE  SlicesInv'
<1> DEFINE next == [entry EXCEPT !.fetch = "served", !.got = Done]
<1>1. /\ watched' = watched /\ reader' = reader /\ change' = change /\ others' = others
      /\ delayed' = delayed /\ entry' = next /\ entry.fetch = "asked"
  BY DEF Read
<1>2. entry \in Entries /\ Cached(watched, entry, reader)
  BY DEF SlicesInv, Kept
<1>3. Done \in SUBSET Changes /\ \A s \in Changes : change[s].done => s \in Done
  BY DEF Done
<1>4. /\ next \in Entries /\ next.in = entry.in /\ next.fetch = "served" /\ next.of = entry.of
      /\ next.asker = entry.asker /\ next.got = Done /\ next.mounted = entry.mounted
  BY <1>2, <1>3 DEF Entries
<1> HIDE DEF next
<1>5. Cached(watched, next, reader)
  BY <1>1, <1>2, <1>4 DEF Cached
<1>6. ASSUME NEW s \in Changes, change[s].done
      PROVE  Covered(watched, next, change[s], delayed, s)
  BY <1>3, <1>4, <1>6 DEF Covered
<1>7. Kept(watched, next, change, others, delayed, reader)
  BY <1>4, <1>5, <1>6 DEF SlicesInv, Kept
<1> QED
  BY <1>1, <1>4, <1>7 DEF SlicesInv, Waits, Pending

LEMMA AnswerKeeps ==
  ASSUME SlicesInv, Answer
  PROVE  SlicesInv'
<1> DEFINE next == Landed(entry)
<1>1. entry.fetch = "served" /\ Tell(next, change, others, {})
  BY DEF Answer
<1>2. entry \in Entries /\ Cached(watched, entry, reader)
  BY DEF SlicesInv, Kept
<1>3. /\ next \in Entries /\ next.in = entry.in /\ next.mounted = entry.mounted
      /\ next.fetch = "none" /\ next.held = entry.got /\ next.of = entry.asker
  BY <1>2, LandedIs
<1> HIDE DEF next
<1>4. Cached(watched, next, reader)
  BY <1>1, <1>2, <1>3 DEF Cached
<1>5. ASSUME NEW s \in Changes, Covered(watched, entry, change[s], delayed, s)
      PROVE  Covered(watched, next, change[s], delayed, s)
  BY <1>1, <1>3, <1>5 DEF Covered
<1>6. delayed \union {} = delayed
  OBVIOUS
<1>7. Kept(watched, next, change, others, delayed \union {}, reader)
  BY <1>3, <1>4, <1>5, <1>6 DEF SlicesInv, Kept
<1> QED
  BY <1>1, <1>7, TellKeeps

LEMMA AnswerFailsKeeps ==
  ASSUME SlicesInv, AnswerFails
  PROVE  SlicesInv'
<1> DEFINE next == Failed(entry)
<1>1. entry.fetch # "none" /\ Tell(next, change, others, {})
  BY DEF AnswerFails
<1>2. entry \in Entries /\ Cached(watched, entry, reader)
  BY DEF SlicesInv, Kept
<1>3. /\ next \in Entries /\ next.in = entry.in /\ next.mounted = entry.mounted
      /\ next.fetch = "none" /\ next.failed /\ next.of = entry.of
  BY <1>2, FailedIs
<1> HIDE DEF next
<1>4. Cached(watched, next, reader)
  BY <1>1, <1>2, <1>3 DEF Cached
<1>5. ASSUME NEW s \in Changes
      PROVE  Covered(watched, next, change[s], delayed, s)
  BY <1>3 DEF Covered
<1>6. delayed \union {} = delayed
  OBVIOUS
<1>7. Kept(watched, next, change, others, delayed \union {}, reader)
  BY <1>3, <1>4, <1>5, <1>6 DEF SlicesInv, Kept
<1> QED
  BY <1>1, <1>7, TellKeeps

LEMMA OthersAskKeeps ==
  ASSUME SlicesInv, OthersAsk
  PROVE  SlicesInv'
BY DEF SlicesInv, OthersAsk, Kept, Waits, Pending

LEMMA OthersEndKeeps ==
  ASSUME SlicesInv, OthersEnd
  PROVE  SlicesInv'
<1>1. Tell(entry, change, FALSE, {})
  BY DEF OthersEnd
<1>2. delayed \union {} = delayed
  OBVIOUS
<1>3. Kept(watched, entry, change, FALSE, delayed \union {}, reader)
  BY <1>2 DEF SlicesInv, Kept
<1> QED
  BY <1>1, <1>3, TellKeeps

LEMMA MutateKeeps ==
  ASSUME SlicesInv, NEW s \in Changes, NEW m \in Relevant, Mutate(s, m)
  PROVE  SlicesInv'
<1> DEFINE c == Sending(m)
           next == [change EXCEPT ![s] = c]
<1>1. /\ watched' = watched /\ reader' = reader /\ entry' = entry /\ others' = others
      /\ delayed' = delayed /\ change' = next /\ change[s] = Unused
  BY DEF Mutate
<1>2. change \in [Changes -> ChangeStates]
  BY DEF SlicesInv, Kept
<1>3. m \in Mutations /\ Touches(m, watched)
  BY DEF Relevant
<1>4. Unused \in ChangeStates /\ Unused.at = "unused" /\ ~Unused.done
  BY DEF Unused, ChangeStates
<1>5. c \in ChangeStates /\ c.at = "sent" /\ ~c.done /\ c.mutation = m
  BY <1>3, <1>4 DEF Sending, ChangeStates
<1> HIDE DEF c
<1>6. /\ next \in [Changes -> ChangeStates] /\ next[s] = c
      /\ \A r \in Changes \ {s} : next[r] = change[r]
  BY <1>2, <1>5
<1> HIDE DEF next
<1>7. InOrder(watched, c)
  BY <1>3, <1>5 DEF InOrder
<1>8. ASSUME NEW r \in Changes
      PROVE  /\ InOrder(watched, next[r])
             /\ next[r].done => Covered(watched, entry, next[r], delayed, r)
  <2>1. CASE r = s
    BY <1>5, <1>6, <1>7, <2>1
  <2>2. CASE r # s
    BY <1>6, <2>2 DEF SlicesInv, Kept
  <2> QED
    BY <2>1, <2>2
<1>9. Kept(watched, entry, next, others, delayed, reader)
  BY <1>6, <1>8 DEF SlicesInv, Kept
<1>10. Pending(watched, entry, change, others) => Pending(watched, entry, next, others)
  <2>1. ASSUME NEW r \in Changes, OnTheWay(change[r])
        PROVE  next[r] = change[r]
    BY <1>1, <1>4, <1>6, <2>1 DEF OnTheWay
  <2> QED
    BY <2>1 DEF Pending
<1> QED
  BY <1>1, <1>9, <1>10 DEF SlicesInv, Waits

LEMMA PerformKeeps ==
  ASSUME SlicesInv, NEW s \in Changes, Perform(s)
  PROVE  SlicesInv'
<1> DEFINE c == [change[s] EXCEPT !.at = "written", !.done = TRUE]
           next == [change EXCEPT ![s] = c]
<1>1. change \in [Changes -> ChangeStates]
  BY DEF SlicesInv, Kept
<1>2. /\ watched' = watched /\ reader' = reader /\ entry' = entry /\ others' = others
      /\ delayed' = delayed /\ change' = next /\ change[s].at = "sent"
  BY <1>1 DEF Perform
<1>3. PICK b \in ChangeStates : b = change[s]
  BY <1>1
<1>4. /\ c \in ChangeStates /\ c.at = "written" /\ c.mutation = change[s].mutation
      /\ c.kept = change[s].kept
  BY <1>3 DEF ChangeStates
<1> HIDE DEF c
<1>5. /\ next \in [Changes -> ChangeStates] /\ next[s] = c
      /\ \A r \in Changes \ {s} : next[r] = change[r]
  BY <1>1, <1>4
<1> HIDE DEF next
<1>6. InOrder(watched, change[s])
  BY DEF SlicesInv, Kept
<1>7. InOrder(watched, c) /\ OnTheWay(c)
  BY <1>2, <1>4, <1>6 DEF InOrder, OnTheWay
<1>8. ASSUME NEW r \in Changes
      PROVE  /\ InOrder(watched, next[r])
             /\ next[r].done => Covered(watched, entry, next[r], delayed, r)
  <2>1. CASE r = s
    BY <1>5, <1>7, <2>1 DEF Covered
  <2>2. CASE r # s
    BY <1>5, <2>2 DEF SlicesInv, Kept
  <2> QED
    BY <2>1, <2>2
<1>9. Kept(watched, entry, next, others, delayed, reader)
  BY <1>5, <1>8 DEF SlicesInv, Kept
<1>10. Pending(watched, entry, change, others) => Pending(watched, entry, next, others)
  <2>1. ASSUME NEW r \in Changes, OnTheWay(change[r])
        PROVE  /\ OnTheWay(next[r]) /\ next[r].kept = change[r].kept
               /\ next[r].mutation = change[r].mutation
    <3>1. CASE r = s
      BY <1>4, <1>5, <1>7, <3>1
    <3>2. CASE r # s
      BY <1>5, <2>1, <3>2
    <3> QED
      BY <3>1, <3>2
  <2> QED
    BY <2>1 DEF Pending
<1> QED
  BY <1>2, <1>9, <1>10 DEF SlicesInv, Waits

LEMMA PerformLateKeeps ==
  ASSUME SlicesInv, NEW s \in Changes, PerformLate(s)
  PROVE  SlicesInv'
<1> DEFINE c == [change[s] EXCEPT !.at = "late", !.done = TRUE]
           next == [change EXCEPT ![s] = c]
<1>1. change \in [Changes -> ChangeStates]
  BY DEF SlicesInv, Kept
<1>2. /\ watched' = watched /\ reader' = reader /\ entry' = entry /\ others' = others
      /\ delayed' = delayed /\ change' = next /\ change[s].at = "settled"
  BY <1>1 DEF PerformLate
<1>3. PICK b \in ChangeStates : b = change[s]
  BY <1>1
<1>4. /\ c \in ChangeStates /\ c.at = "late" /\ c.mutation = change[s].mutation
      /\ c.kept = change[s].kept
  BY <1>3 DEF ChangeStates
<1> HIDE DEF c
<1>5. /\ next \in [Changes -> ChangeStates] /\ next[s] = c
      /\ \A r \in Changes \ {s} : next[r] = change[r]
  BY <1>1, <1>4
<1> HIDE DEF next
<1>6. InOrder(watched, change[s])
  BY DEF SlicesInv, Kept
<1>7. InOrder(watched, c) /\ Untold(watched, c)
  BY <1>2, <1>4, <1>6 DEF InOrder, Untold
<1>8. ASSUME NEW r \in Changes
      PROVE  /\ InOrder(watched, next[r])
             /\ next[r].done => Covered(watched, entry, next[r], delayed, r)
  <2>1. CASE r = s
    BY <1>5, <1>7, <2>1 DEF Covered
  <2>2. CASE r # s
    BY <1>5, <2>2 DEF SlicesInv, Kept
  <2> QED
    BY <2>1, <2>2
<1>9. Kept(watched, entry, next, others, delayed, reader)
  BY <1>5, <1>8 DEF SlicesInv, Kept
<1>10. Pending(watched, entry, change, others) => Pending(watched, entry, next, others)
  <2>1. ASSUME NEW r \in Changes, OnTheWay(change[r])
        PROVE  next[r] = change[r]
    BY <1>2, <1>5, <2>1 DEF OnTheWay
  <2> QED
    BY <2>1 DEF Pending
<1> QED
  BY <1>2, <1>9, <1>10 DEF SlicesInv, Waits

LEMMA MutationEndsKeeps ==
  ASSUME SlicesInv, NEW s \in Changes, NEW ok \in BOOLEAN, MutationEnds(s, ok)
  PROVE  SlicesInv'
<1> DEFINE m == change[s].mutation
           c == [change[s] EXCEPT !.at = "settled", !.ok = ok]
           next == [change EXCEPT ![s] = c]
           told == ToldBy(m, ok)
<1>1. change \in [Changes -> ChangeStates]
  BY DEF SlicesInv, Kept
<1>2. OnTheWay(change[s]) /\ Tell(entry, next, others, told)
  BY <1>1 DEF MutationEnds, ToldBy
<1>3. PICK b \in ChangeStates : b = change[s]
  BY <1>1
<1>4. /\ c \in ChangeStates /\ c.at = "settled" /\ c.mutation = m /\ c.ok = ok
      /\ c.done = change[s].done
  BY <1>3 DEF ChangeStates
<1> HIDE DEF c
<1>5. /\ next \in [Changes -> ChangeStates] /\ next[s] = c
      /\ \A r \in Changes \ {s} : next[r] = change[r]
  BY <1>1, <1>4
<1> HIDE DEF next
<1>6. InOrder(watched, change[s]) /\ watched \in Queries
  BY DEF SlicesInv, Kept
<1>7. m \in Mutations /\ Touches(m, watched)
  BY <1>2, <1>6 DEF InOrder, OnTheWay
<1> HIDE DEF m
<1>8. InOrder(watched, c)
  BY <1>4, <1>7 DEF InOrder
<1>9. Untold(watched, c) \/ \E t \in told : HitsRows(watched, t)
  BY <1>4, <1>6, <1>7, SettledIsTold
<1> HIDE DEF told
<1>10. ASSUME NEW r \in Changes
       PROVE  /\ InOrder(watched, next[r])
              /\ next[r].done => Covered(watched, entry, next[r], delayed \union told, r)
  <2>1. CASE r = s
    BY <1>5, <1>8, <1>9, <2>1 DEF Covered
  <2>2. CASE r # s
    <3>1. next[r] = change[r]
      BY <1>5, <2>2
    <3>2. /\ InOrder(watched, change[r])
          /\ change[r].done => Covered(watched, entry, change[r], delayed, r)
      BY DEF SlicesInv, Kept
    <3> QED
      BY <3>1, <3>2 DEF Covered
  <2> QED
    BY <2>1, <2>2
<1>11. Kept(watched, entry, next, others, delayed \union told, reader)
  BY <1>5, <1>10 DEF SlicesInv, Kept
<1> QED
  BY <1>2, <1>11, TellKeeps

LEMMA ChangeUserKeeps ==
  ASSUME SlicesInv, NEW u \in UserIds, ChangeUser(u)
  PROVE  SlicesInv'
<1>1. /\ watched' = watched /\ reader' = u /\ delayed' = delayed
      /\ watched \in Queries /\ entry \in Entries /\ Cached(watched, entry, reader)
      /\ change \in [Changes -> ChangeStates]
  BY DEF ChangeUser, SlicesInv, Kept
<1>2. CASE watched.slice \in ResetSlices
  <2> DEFINE next == [s \in Changes |-> [change[s] EXCEPT !.kept = FALSE]]
  <2>1. entry' = NoEntry /\ others' = FALSE /\ change' = next
    BY <1>2 DEF ChangeUser
  <2>2. ASSUME NEW s \in Changes
        PROVE  /\ next[s] \in ChangeStates /\ next[s].at = change[s].at
               /\ next[s].done = change[s].done /\ next[s].mutation = change[s].mutation
    <3>1. PICK b \in ChangeStates : b = change[s]
      BY <1>1
    <3> QED
      BY <3>1 DEF ChangeStates
  <2>3. next \in [Changes -> ChangeStates]
    BY <2>2
  <2> HIDE DEF next
  <2>4. ASSUME NEW s \in Changes
        PROVE  /\ InOrder(watched, next[s])
               /\ Covered(watched, NoEntry, next[s], delayed, s)
    BY <2>2, NoEntryIs DEF InOrder, Covered, SlicesInv, Kept
  <2>5. Cached(watched, NoEntry, u)
    BY NoEntryIs DEF Cached
  <2>6. Kept(watched, NoEntry, next, FALSE, delayed, u)
    BY <1>1, <2>3, <2>4, <2>5, NoEntryIs DEF Kept
  <2> QED
    BY <1>1, <2>1, <2>6, NoEntryIs DEF SlicesInv, Waits
<1>3. CASE watched.slice \notin ResetSlices
  <2> DEFINE next == [entry EXCEPT !.mounted = FALSE]
  <2>1. entry' = next /\ others' = others /\ change' = change
    BY <1>3 DEF ChangeUser
  <2>2. /\ next \in Entries /\ next.in = entry.in /\ next.fetch = entry.fetch /\ ~next.mounted
        /\ next.got = entry.got
    BY <1>1 DEF Entries
  <2> HIDE DEF next
  <2>3. watched.slice \in {"rbac", "tasks", "events", "polls"}
    BY <1>1, <1>3, ResetOrKept
  <2>4. Cached(watched, next, u)
    BY <1>1, <2>2, <2>3 DEF Cached
  <2>5. ASSUME NEW s \in Changes, Covered(watched, entry, change[s], delayed, s)
        PROVE  Covered(watched, next, change[s], delayed, s)
    BY <2>2, <2>5 DEF Covered
  <2>6. Kept(watched, next, change, others, delayed, u)
    BY <2>2, <2>4, <2>5 DEF SlicesInv, Kept
  <2> QED
    BY <1>1, <2>1, <2>2, <2>6 DEF SlicesInv, Waits
<1> QED
  BY <1>2, <1>3

(* What is on the screen once nothing is on its way.                       *)
LEMMA SettledEntry ==
  ASSUME SlicesInv
  PROVE  EntriesSound
<1>1. FreshUnlessUntold
  <2>1. SUFFICES ASSUME NothingPending, entry.mounted, ~entry.failed
                 PROVE  /\ \A s \in Done : s \in entry.held \/ Untold(watched, change[s])
                        /\ delayed = {}
    BY DEF FreshUnlessUntold
  <2>2. ~Pending(watched, entry, change, others) /\ \A s \in Changes : ~OnTheWay(change[s])
    BY <2>1 DEF NothingPending, BusyWith, Pending
  <2>3. delayed = {}
    BY <2>1, <2>2 DEF SlicesInv, Waits
  <2>4. entry.fetch = "none"
    BY <2>2 DEF Pending
  <2>5. ASSUME NEW s \in Done PROVE s \in entry.held \/ Untold(watched, change[s])
    <3>1. s \in Changes /\ change[s].done
      BY DEF Done
    <3>2. Covered(watched, entry, change[s], delayed, s)
      BY <3>1 DEF SlicesInv, Kept
    <3> QED
      BY <2>1, <2>2, <2>3, <2>4, <3>1, <3>2 DEF Covered
  <2> QED
    BY <2>3, <2>5
<1>2. OwnRowsUnlessKept
  BY DEF OwnRowsUnlessKept, SlicesInv, Kept, Cached
<1> QED
  BY <1>1, <1>2 DEF EntriesSound

LEMMA SlicesStart ==
  ASSUME SlicesInit
  PROVE  SlicesInv
<1> DEFINE start == [s \in Changes |-> Unused]
<1>1. /\ watched \in Queries /\ entry = NoEntry /\ change = start /\ others = FALSE
      /\ delayed = {} /\ reader \in UserIds
  BY DEF SlicesInit
<1>2. Unused \in ChangeStates /\ Unused.at = "unused" /\ ~Unused.done
  BY DEF Unused, ChangeStates
<1>3. start \in [Changes -> ChangeStates] /\ \A s \in Changes : start[s] = Unused
  BY <1>2
<1> HIDE DEF start
<1>4. InOrder(watched, Unused)
  BY <1>2 DEF InOrder
<1>5. Cached(watched, entry, reader)
  BY <1>1, NoEntryIs DEF Cached
<1>6. Kept(watched, entry, change, others, delayed, reader)
  BY <1>1, <1>2, <1>3, <1>4, <1>5, NoEntryIs DEF Kept
<1> QED
  BY <1>1, <1>6 DEF SlicesInv, Waits

(* Whatever order the answers of queries and mutations come in, and        *)
(* whoever signs in meanwhile: once nothing is on its way, the rows on the *)
(* screen contain every change of the tab but those their slice is not     *)
(* told of, and they were read for the user signed in unless signing out   *)
(* does not reset their slice.  The tags of the nine slices are looked up  *)
(* in their tables, for any number of rows, users and mutations.           *)
THEOREM EntriesComeOutRight == SlicesSpec => []EntriesSound
<1>1. SlicesInit => SlicesInv
  BY SlicesStart
<1>2. SlicesInv /\ [SlicesNext]_sliceVars => SlicesInv'
  <2> SUFFICES ASSUME SlicesInv, [SlicesNext]_sliceVars
               PROVE  SlicesInv'
    OBVIOUS
  <2>1. CASE Use
    BY <2>1, UseKeeps
  <2>2. CASE Leave
    BY <2>2, LeaveKeeps
  <2>3. CASE Drop
    BY <2>3, DropKeeps
  <2>4. CASE Read
    BY <2>4, ReadKeeps
  <2>5. CASE Answer
    BY <2>5, AnswerKeeps
  <2>6. CASE AnswerFails
    BY <2>6, AnswerFailsKeeps
  <2>7. CASE OthersAsk
    BY <2>7, OthersAskKeeps
  <2>8. CASE OthersEnd
    BY <2>8, OthersEndKeeps
  <2>9. CASE \E s \in Changes, m \in Relevant : Mutate(s, m)
    BY <2>9, MutateKeeps
  <2>10. CASE \E s \in Changes : Perform(s)
    BY <2>10, PerformKeeps
  <2>11. CASE \E s \in Changes, ok \in BOOLEAN : MutationEnds(s, ok)
    BY <2>11, MutationEndsKeeps
  <2>12. CASE \E u \in UserIds : ChangeUser(u)
    BY <2>12, ChangeUserKeeps
  <2>13. CASE UNCHANGED sliceVars
    BY <2>13 DEF sliceVars, SlicesInv
  <2>14. CASE \E s \in Changes : PerformLate(s)
    BY <2>14, PerformLateKeeps
  <2> QED
    BY <2>1, <2>2, <2>3, <2>4, <2>5, <2>6, <2>7, <2>8, <2>9, <2>10, <2>11, <2>12, <2>13,
       <2>14 DEF SlicesNext
<1>3. SlicesInv => EntriesSound
  BY SettledEntry
<1> QED
  BY <1>1, <1>2, <1>3, PTL DEF SlicesSpec

------------------------------------------------------------------------------
(* The forms of Editing                                                    *)

(* What the forms have in common: a table to look a form up in.            *)
Filling(f) ==
  /\ f.rows \in {"one", "many", "menu"} /\ f.refill \in {"never", "row", "data", "idle"}
  /\ f.opening \in {"filled", "kept"} /\ f.answered \in {"filled", "kept"}
  /\ f.lags \in BOOLEAN /\ f.leaves \in BOOLEAN /\ f.closing \subseteq {"filled", "kept"}
  /\ f.modes \subseteq {"edit", "create"}
  /\ f.rows = "one" => ~f.lags /\ ~f.added
  /\ f.rows = "menu" =>
       /\ ~f.lags /\ ~f.added /\ ~f.buttons /\ f.refill = "never"
       /\ f.opening = "kept" =>
            f.closing = {"kept"} /\ f \in FollowsTheUser /\ "create" \notin f.modes
       /\ f.opening = "filled" => f \in OpenMeanwhile
  /\ f.rows = "many" =>
       /\ f.refill \in {"row", "data"} \/ f.buttons \/ f \in FollowsTheUser
       /\ f.leaves \/ f.buttons \/ f \in OpenMeanwhile \/ f = VisibilityForm
  /\ f.lags => f = RoleForm \/ f.buttons \/ f \in FollowsTheUser
  /\ f.refill = "row" => f \in OpenMeanwhile
  /\ f.added /\ ~f.lags => f.answered = "kept"
  /\ f.refill = "idle" => f = VisibilityForm

Creating(f) ==
  /\ "create" \in f.modes =>
       /\ f.refill = "never" /\ ~f.buttons
       /\ f.answered = "filled" \/ (~f.leaves /\ f.opening = "filled")
  /\ f.opening = "kept" /\ f.rows # "menu" =>
       \/ f.buttons \/ f.modes = {"create"} \/ f.refill = "row" \/ (f.refill = "data" /\ ~f.locked)
       \/ f \in {TitleForm, VisibilityForm}

LEMMA AdminForms ==
  ASSUME NEW f \in {RoleForm, RoleButtons, RoleCreation,
                    PositionForm, PositionButtons, PositionCreation, UserForm,
                    UserCreation, TagCreation}
  PROVE  Filling(f) /\ Creating(f)
<1>1. CASE f = RoleForm
  BY <1>1 DEF Filling, Creating, RoleForm, Edits, OpenMeanwhile
<1>2. CASE f = RoleButtons
  BY <1>2 DEF Filling, Creating, RoleButtons, Buttons, Edits
<1>3. CASE f = RoleCreation
  BY <1>3 DEF Filling, Creating, RoleCreation, Creates, Edits
<1>4. CASE f = PositionForm
  BY <1>4 DEF Filling, Creating, PositionForm, Edits, OpenMeanwhile
<1>5. CASE f = PositionButtons
  BY <1>5 DEF Filling, Creating, PositionButtons, Buttons, Edits
<1>6. CASE f = PositionCreation
  BY <1>6 DEF Filling, Creating, PositionCreation, Creates, Edits
<1>7. CASE f = UserForm
  BY <1>7 DEF Filling, Creating, UserForm, Edits
<1>8. CASE f = UserCreation
  BY <1>8 DEF Filling, Creating, UserCreation, Creates, Edits
<1>9. CASE f = TagCreation
  BY <1>9 DEF Filling, Creating, TagCreation, Creates, Edits
<1> QED
  BY <1>1, <1>2, <1>3, <1>4, <1>5, <1>6, <1>7, <1>8, <1>9

LEMMA UnitForms ==
  ASSUME NEW f \in {UnitMenuForm, UnitForm, UnitButtons,
                    ChildCreation, MemberAddition, RegistrationRejection,
                    ResetRejection}
  PROVE  Filling(f) /\ Creating(f)
<1>1. CASE f = UnitMenuForm
  BY <1>1 DEF Filling, Creating, UnitMenuForm, Edits, OpenMeanwhile
<1>2. CASE f = UnitForm
  BY <1>2 DEF Filling, Creating, UnitForm, Edits, FollowsTheUser, OpenMeanwhile
<1>3. CASE f = UnitButtons
  BY <1>3 DEF Filling, Creating, UnitButtons, Buttons, Edits
<1>4. CASE f = ChildCreation
  BY <1>4 DEF Filling, Creating, ChildCreation, Creates, Edits, FollowsTheUser, OpenMeanwhile
<1>5. CASE f = MemberAddition
  BY <1>5 DEF Filling, Creating, MemberAddition, Creates, Edits, FollowsTheUser, OpenMeanwhile
<1>6. CASE f = RegistrationRejection
  BY <1>6 DEF Filling, Creating, RegistrationRejection, Edits, FollowsTheUser
<1>7. CASE f = ResetRejection
  BY <1>7 DEF Filling, Creating, ResetRejection, RegistrationRejection, Edits, FollowsTheUser
<1> QED
  BY <1>1, <1>2, <1>3, <1>4, <1>5, <1>6, <1>7

LEMMA OwnForms ==
  ASSUME NEW f \in {ProfileForm, PasswordForm, Application,
                    TaskCreation, EventCreation, PollCreation, TaskInvitation,
                    EventInvitation, PollInvitation, DueDateForm, PollForm}
  PROVE  Filling(f) /\ Creating(f)
<1>1. CASE f = ProfileForm
  BY <1>1 DEF Filling, Creating, ProfileForm, Edits
<1>2. CASE f = PasswordForm
  BY <1>2 DEF Filling, Creating, PasswordForm, Creates, Edits
<1>3. CASE f = Application
  BY <1>3 DEF Filling, Creating, Application, Creates, Edits
<1>4. CASE f = TaskCreation
  BY <1>4 DEF Filling, Creating, TaskCreation, Creates, Edits
<1>5. CASE f = EventCreation
  BY <1>5 DEF Filling, Creating, EventCreation, TaskCreation, Creates, Edits
<1>6. CASE f = PollCreation
  BY <1>6 DEF Filling, Creating, PollCreation, Creates, Edits
<1>7. CASE f = TaskInvitation
  BY <1>7 DEF Filling, Creating, TaskInvitation, Creates, Edits
<1>8. CASE f = EventInvitation
  BY <1>8 DEF Filling, Creating, EventInvitation, TaskInvitation, Creates, Edits
<1>9. CASE f = PollInvitation
  BY <1>9 DEF Filling, Creating, PollInvitation, TaskInvitation, Creates, Edits
<1>10. CASE f = DueDateForm
  BY <1>10 DEF Filling, Creating, DueDateForm, Creates, Edits
<1>11. CASE f = PollForm
  BY <1>11 DEF Filling, Creating, PollForm, Edits
<1> QED
  BY <1>1, <1>2, <1>3, <1>4, <1>5, <1>6, <1>7, <1>8, <1>9, <1>10, <1>11

LEMMA ChatForms ==
  ASSUME NEW f \in {TitleForm, VisibilityForm,
                    TopicCreation, MessageDraft, RoomButtons, RoomCreation,
                    RoomMemberAddition}
  PROVE  Filling(f) /\ Creating(f)
<1>1. CASE f = TitleForm
  BY <1>1 DEF Filling, Creating, TitleForm, Edits, OpenMeanwhile
<1>2. CASE f = VisibilityForm
  BY <1>2 DEF Filling, Creating, VisibilityForm, Edits, FollowsTheUser
<1>3. CASE f = TopicCreation
  BY <1>3 DEF Filling, Creating, TopicCreation, Creates, Edits, FollowsTheUser, OpenMeanwhile
<1>4. CASE f = MessageDraft
  BY <1>4 DEF Filling, Creating, MessageDraft, Creates, Edits, FollowsTheUser
<1>5. CASE f = RoomButtons
  BY <1>5 DEF Filling, Creating, RoomButtons, Buttons, Edits
<1>6. CASE f = RoomCreation
  BY <1>6 DEF Filling, Creating, RoomCreation, Creates, Edits
<1>7. CASE f = RoomMemberAddition
  BY <1>7 DEF Filling, Creating, RoomMemberAddition, MemberAddition, Creates, Edits,
              FollowsTheUser
<1> QED
  BY <1>1, <1>2, <1>3, <1>4, <1>5, <1>6, <1>7

LEMMA FormsAre ==
  ASSUME NEW f \in Forms
  PROVE  Filling(f) /\ Creating(f)
BY AdminForms, UnitForms, OwnForms, ChatForms DEF Forms

(* The forms of which more is said.                                        *)
LEMMA NamedForms ==
  /\ \A f \in FollowsTheUser : f.rows # "one" /\ f.refill \in {"never", "idle"}
  /\ TitleForm.rows = "many" /\ TitleForm.refill = "data" /\ TitleForm.locked
  /\ ~TitleForm.closable /\ ~TitleForm.lags /\ ~TitleForm.added
  /\ TitleForm.modes = {"edit"}
  /\ ~TitleForm.buttons /\ "kept" \notin TitleForm.closing
  /\ VisibilityForm.rows = "many" /\ VisibilityForm.refill = "idle" /\ ~VisibilityForm.closable
  /\ VisibilityForm.lags /\ VisibilityForm.modes = {"edit"} /\ ~VisibilityForm.buttons
  /\ TopicCreation.modes = {"create"} /\ RoomCreation.modes = {"create"}
  /\ TopicCreation.rows # "menu" /\ RoomCreation.rows # "menu"
BY DEF FollowsTheUser, UnitForm, ChildCreation, VisibilityForm, TopicCreation, MessageDraft,
       RegistrationRejection, ResetRejection, MemberAddition, RoomMemberAddition, TitleForm,
       RoomCreation, Creates, Edits

------------------------------------------------------------------------------
(* The inductive invariant of Editing                                      *)

FieldStates ==
  [open : BOOLEAN, of : Rows, version : Nat, contents : {"filled", "typed", "sent"},
   mode : {"edit", "create"}]

Requests ==
  [at : {"none", "sent", "written", "accepted"}, to : Rows \union {NoRow},
   of : Rows \union {NoRow}, early : BOOLEAN, button : BOOLEAN, mode : {"edit", "create"}]

EditTypes ==
  /\ form \in Forms /\ saved \in [Rows -> Nat] /\ known \in [Rows -> Nat]
  /\ chosen \in Rows /\ shown \in Rows \union {NoRow}
  /\ fields \in FieldStates /\ request \in Requests
  /\ \A r \in Rows : known[r] <= saved[r]

(* Which row a page shows: the chosen one, unless it is still loading.     *)
Placed(f, r, s, k) ==
  /\ f.lags => s # NoRow
  /\ ~f.lags => s \in {r, NoRow}
  /\ ~f.lags /\ ~f.added => s = r /\ \A x \in Rows : k[x] # 0

OfShown(f, s, x) == s # NoRow /\ f \notin FollowsTheUser /\ ~f.buttons => x.of = s

(* A form that is closed holds what it is to be opened with.               *)
Rested(f, s, k, x) ==
  ~x.open =>
    /\ f = VisibilityForm => x.contents = "filled" /\ x.of = s /\ x.version = k[s]
    /\ f = TitleForm => x.contents = "filled"
    /\ x.mode = "create" /\ f.opening = "kept" /\ "kept" \notin f.closing =>
         x.contents = "filled"

FieldsFit(f, r, s, k, x) ==
  /\ Placed(f, r, s, k)
  /\ OfShown(f, s, x)
  /\ Rested(f, s, k, x)
  /\ f = TitleForm => x.version = k[s]
  /\ f.buttons => ~x.open
  /\ x.mode \in f.modes

OnItsWay(q) == q.at \in {"sent", "written"}

(* The title a topic was given is not the one the list has, until the list *)
(* is loaded again and the form filled from it.                            *)
TitleSent(f, v, k, r, x, q) ==
  f = TitleForm /\ x.contents # "filled" =>
    /\ q.at = "sent" => q.to = r
    /\ q.at = "written" => q.to = r /\ k[r] # v[r]

RequestFits(f, v, k, r, x, q) ==
  /\ q.button => f.buttons
  /\ q.at # "none" => q.to \in Rows /\ q.mode \in f.modes
  /\ q.at = "accepted" => f \in {TopicCreation, RoomCreation}
  /\ OnItsWay(q) /\ q.of # q.to =>
       f \in FollowsTheUser \/ (q.early /\ (f = RoleForm \/ f.buttons))
  /\ x.mode = "create" /\ x.contents = "sent" =>
       OnItsWay(q) \/ q.at = "accepted" \/ (~x.open /\ f.opening = "filled")
  /\ q.at # "none" /\ ~f.leaves /\ ~f.buttons /\ f \notin OpenMeanwhile => x.of = q.of
  /\ q.at # "none" /\ f = VisibilityForm => x.open
  /\ TitleSent(f, v, k, r, x, q)

EditInv ==
  /\ EditTypes
  /\ FieldsFit(form, chosen, shown, known, fields)
  /\ RequestFits(form, saved, known, chosen, fields, request)

(* What a step must mind, of EditingSound, besides the states it leads to. *)
Minded == OpenedAsShown /\ NewsKeepsTyping /\ AnswerMindsForm

------------------------------------------------------------------------------
(* Showing a row                                                           *)

LEMMA FilledIs ==
  ASSUME NEW x \in FieldStates, NEW r \in Rows, NEW k \in [Rows -> Nat], NEW how
  PROVE  /\ Filled(x, r, k) \in FieldStates /\ Filled(x, r, k).of = r
         /\ Filled(x, r, k).version = k[r] /\ Filled(x, r, k).contents = "filled"
         /\ Filled(x, r, k).open = x.open /\ Filled(x, r, k).mode = x.mode
         /\ FilledIf(how, x, r, k) \in {x, Filled(x, r, k)}
         /\ how = "filled" => FilledIf(how, x, r, k) = Filled(x, r, k)
         /\ how = "kept" => FilledIf(how, x, r, k) = x
BY DEF Filled, FilledIf, FieldStates

LEMMA WithOpen ==
  ASSUME NEW x \in FieldStates, NEW b \in BOOLEAN
  PROVE  LET y == [x EXCEPT !.open = b]
         IN y \in FieldStates /\ y.open = b /\ y.of = x.of /\ y.version = x.version
            /\ y.contents = x.contents /\ y.mode = x.mode
BY DEF FieldStates

(* An effect fills the fields from what is shown, or leaves them alone.    *)
LEMMA Refills ==
  ASSUME NEW x \in FieldStates, NEW s \in Rows \union {NoRow}, NEW k \in [Rows -> Nat],
         NEW y, y = Refilled(x, s, k), form \in Forms
  PROVE  \/ /\ y = x
            /\ \/ s = NoRow \/ form.refill = "never"
               \/ form.refill = "row" /\ s = shown
               \/ form.refill = "data" /\ s = shown /\ k[s] = known[s]
               \/ form.refill = "idle" /\ x.open
         \/ /\ y \in FieldStates /\ y.contents = "filled" /\ y.of = s /\ y.version = k[s]
            /\ s \in Rows /\ y.mode = x.mode
            /\ \/ form.refill = "row" /\ s # shown /\ ~y.open
               \/ form.refill = "data" /\ y.open = x.open
               \/ form.refill = "idle" /\ ~x.open /\ ~y.open
<1>1. form.refill \in {"never", "row", "data", "idle"}
  BY FormsAre DEF Filling
<1>2. CASE s = NoRow
  BY <1>2 DEF Refilled
<1>3. CASE s \in Rows
  <2> DEFINE z == Filled(x, s, k)
             w == [z EXCEPT !.open = FALSE]
  <2>0. s # NoRow
    BY <1>3, EditingAssumption
  <2>1. /\ z \in FieldStates /\ z.of = s /\ z.version = k[s] /\ z.contents = "filled"
        /\ z.open = x.open /\ z.mode = x.mode
    BY <1>3, FilledIs
  <2>2. /\ w \in FieldStates /\ w.of = s /\ w.version = k[s] /\ w.contents = "filled"
        /\ ~w.open /\ w.mode = x.mode
    BY <2>1 DEF FieldStates
  <2>3. CASE form.refill = "never"
    BY <2>0, <2>3 DEF Refilled
  <2>4. CASE form.refill = "row"
    <3>1. y = IF s # shown THEN w ELSE x
      BY <2>0, <2>4 DEF Refilled
    <3> HIDE DEF w
    <3> QED
      BY <1>3, <2>2, <2>4, <3>1
  <2>5. CASE form.refill = "data"
    <3>1. y = IF s # shown \/ k[s] # known[s] THEN z ELSE x
      BY <2>0, <2>5 DEF Refilled
    <3> HIDE DEF z
    <3> QED
      BY <1>3, <2>1, <2>5, <3>1
  <2>6. CASE form.refill = "idle"
    <3>1. y = IF ~x.open THEN z ELSE x
      BY <2>0, <2>6 DEF Refilled
    <3> HIDE DEF z
    <3> QED
      BY <1>3, <2>1, <2>6, <3>1
  <2> QED
    BY <1>1, <2>3, <2>4, <2>5, <2>6
<1> QED
  BY <1>2, <1>3

(* Whatever row is chosen and whatever is known of it: the page shows a    *)
(* row with the fields that fit it.                                        *)
LEMMA ShowFits ==
  ASSUME EditInv, NEW r \in Rows, NEW k \in [Rows -> Nat], NEW x \in FieldStates,
         Show(r, k, x), r = chosen \/ form.rows = "many",
         ~form.lags /\ ~form.added => \A z \in Rows : k[z] # 0,
         OfShown(form, shown, x),
         ~x.open /\ x.mode = "create" /\ form.opening = "kept" /\ "kept" \notin form.closing =>
           x.contents = "filled",
         form = TitleForm => x.version = known[shown],
         form = TitleForm /\ ~x.open /\ x.contents # "filled" => k[chosen] # known[chosen],
         form.buttons => ~x.open,
         x.mode \in form.modes
  PROVE  /\ chosen' = r /\ known' = k
         /\ shown' \in Rows \union {NoRow} /\ fields' \in FieldStates
         /\ FieldsFit(form, r, shown', k, fields')
         /\ fields' = x \/ (fields'.contents = "filled" /\ fields'.of = shown')
         /\ fields'.open => x.open
         /\ fields'.mode = x.mode
         /\ x.open /\ ~fields'.open => form.refill = "row"
         /\ fields' # x => form.refill # "never" /\ (form.refill = "idle" => ~x.open)
         /\ form = TitleForm /\ fields'.contents # "filled" => r = chosen /\ k[r] = known[r]
<1> DEFINE s == Shows(r, k)
           y == Refilled(x, s, k)
<1>1. /\ chosen' = r /\ known' = k /\ shown' = s /\ fields' = y
  BY DEF Show
<1>2. /\ form \in Forms /\ shown \in Rows \union {NoRow}
      /\ Placed(form, chosen, shown, known)
  BY DEF EditInv, EditTypes, FieldsFit
<1>3. Filling(form) /\ Creating(form)
  BY <1>2, FormsAre
<1>4. s \in Rows \union {NoRow}
  BY <1>2 DEF Shows
<1>5. Placed(form, r, s, k)
  BY <1>2, EditingAssumption DEF Shows, Placed
<1>6. \/ /\ y = x
         /\ \/ s = NoRow \/ form.refill = "never"
            \/ form.refill = "row" /\ s = shown
            \/ form.refill = "data" /\ s = shown /\ k[s] = known[s]
            \/ form.refill = "idle" /\ x.open
      \/ /\ y \in FieldStates /\ y.contents = "filled" /\ y.of = s /\ y.version = k[s]
         /\ s \in Rows /\ y.mode = x.mode
         /\ \/ form.refill = "row" /\ s # shown /\ ~y.open
            \/ form.refill = "data" /\ y.open = x.open
            \/ form.refill = "idle" /\ ~x.open /\ ~y.open
  BY <1>2, <1>4, Refills
<1> HIDE DEF s, y
<1>7. OfShown(form, s, y)
  <2>1. SUFFICES ASSUME s # NoRow, form \notin FollowsTheUser, ~form.buttons, y.of # s
                 PROVE  FALSE
    BY DEF OfShown
  <2>0. y = x
    BY <1>6, <2>1
  <2>2. CASE s = shown
    BY <2>0, <2>1, <2>2 DEF OfShown
  <2>3. CASE s # shown
    <3>1. form.rows # "many"
      BY <1>3, <1>6, <2>1, <2>3 DEF Filling
    <3>2. ~form.lags /\ ~form.added /\ r = chosen
      BY <1>3, <3>1 DEF Filling
    <3>3. s = r /\ shown = chosen
      BY <1>2, <1>5, <3>2 DEF Placed
    <3> QED
      BY <2>3, <3>2, <3>3
  <2> QED
    BY <2>2, <2>3
<1>8. Rested(form, s, k, y)
  <2>1. ASSUME ~y.open, form = VisibilityForm
        PROVE  y.contents = "filled" /\ y.of = s /\ y.version = k[s]
    <3>1. s # NoRow /\ form.refill = "idle"
      BY <1>5, <2>1, NamedForms DEF Placed
    <3> QED
      BY <1>6, <2>1, <3>1
  <2>2. ASSUME ~y.open, form = TitleForm
        PROVE  y.contents = "filled"
    <3>1. s = r /\ shown = chosen /\ form.refill = "data"
      BY <1>2, <1>5, <2>2, NamedForms DEF Placed
    <3>2. y.contents = "filled" \/ (y = x /\ s = shown /\ k[s] = known[s])
      BY <1>6, <3>1, EditingAssumption
    <3> QED
      BY <2>2, <3>1, <3>2
  <2>3. ASSUME ~y.open, y.mode = "create", form.opening = "kept", "kept" \notin form.closing
        PROVE  y.contents = "filled"
    BY <1>6, <2>3
  <2> QED
    BY <2>1, <2>2, <2>3 DEF Rested
<1>9. ASSUME form = TitleForm
      PROVE  /\ y.version = k[s]
             /\ y.contents # "filled" => r = chosen /\ k[r] = known[r]
  <2>1. s = r /\ shown = chosen /\ form.refill = "data"
    BY <1>2, <1>5, <1>9, NamedForms DEF Placed
  <2>2. \/ y = x /\ s = shown /\ k[s] = known[s]
        \/ y.version = k[s] /\ y.contents = "filled"
    BY <1>6, <2>1, EditingAssumption
  <2> QED
    BY <1>9, <2>1, <2>2
<1>10. (form.buttons => ~y.open) /\ y.mode = x.mode
  BY <1>6
<1>11. FieldsFit(form, r, s, k, y)
  BY <1>5, <1>7, <1>8, <1>9, <1>10 DEF FieldsFit
<1>12. /\ y \in FieldStates
       /\ y = x \/ (y.contents = "filled" /\ y.of = s)
       /\ y.open => x.open
       /\ x.open /\ ~y.open => form.refill = "row"
       /\ y # x => form.refill # "never" /\ (form.refill = "idle" => ~x.open)
  BY <1>6
<1> QED
  BY <1>1, <1>4, <1>9, <1>10, <1>11, <1>12

------------------------------------------------------------------------------
(* The steps of Editing                                                    *)

LEMMA QuietStep ==
  ASSUME request' = request \/ request'.at # "none", fields'.open => fields.open,
         known' = known
  PROVE  Minded
BY DEF Minded, OpenedAsShown, NewsKeepsTyping, AnswerMindsForm, NoRequest

(* What a request asks for stays true of it while its page shows another   *)
(* row, or other contents.                                                 *)
LEMMA RequestStays ==
  ASSUME EditInv, NEW r \in Rows, NEW k \in [Rows -> Nat], NEW x, NEW y, NEW s,
         FieldsFit(form, r, s, k, y), r = chosen \/ form.rows = "many",
         form.rows = "menu" /\ form \notin OpenMeanwhile => x.of = fields.of,
         y = x \/ (y.contents = "filled" /\ y.of = s),
         y # x => form.refill # "never" /\ (form.refill = "idle" => ~x.open),
         form = VisibilityForm /\ request.at # "none" => x = fields,
         y.mode = "create" /\ y.contents = "sent" =>
           OnItsWay(request) \/ request.at = "accepted" \/ (~y.open /\ form.opening = "filled"),
         TitleSent(form, saved, k, r, y, request)
  PROVE  RequestFits(form, saved, k, r, y, request)
<1>1. form \in Forms /\ RequestFits(form, saved, known, chosen, fields, request)
  BY DEF EditInv, EditTypes
<1>2. Filling(form)
  BY <1>1, FormsAre
<1>3. ASSUME request.at # "none", ~form.leaves, ~form.buttons, form \notin OpenMeanwhile
      PROVE  y.of = request.of
  <2>1. fields.of = request.of
    BY <1>1, <1>3 DEF RequestFits
  <2>2. CASE form.rows = "one"
    <3>1. /\ form \notin FollowsTheUser /\ ~form.lags /\ ~form.added /\ r = chosen
      BY <1>2, <2>2, NamedForms DEF Filling
    <3>2. s = chosen /\ shown = chosen
      BY <3>1 DEF FieldsFit, Placed, EditInv
    <3>3. y.of = chosen /\ fields.of = chosen
      BY <1>3, <3>1, <3>2, EditingAssumption DEF FieldsFit, OfShown, EditInv, EditTypes
    <3> QED
      BY <2>1, <3>3
  <2>3. CASE form.rows = "menu"
    <3>1. form.refill = "never"
      BY <1>2, <2>3 DEF Filling
    <3> QED
      BY <1>3, <2>1, <2>3, <3>1
  <2>4. CASE form.rows = "many"
    <3>1. form = VisibilityForm
      BY <1>2, <1>3, <2>4 DEF Filling
    <3>2. x = fields /\ fields.open /\ form.refill = "idle"
      BY <1>1, <1>3, <3>1, NamedForms DEF RequestFits
    <3> QED
      BY <2>1, <3>2
  <2> QED
    BY <1>2, <2>2, <2>3, <2>4 DEF Filling
<1>4. ASSUME request.at # "none", form = VisibilityForm
      PROVE  y.open
  <2>1. x = fields /\ fields.open /\ form.refill = "idle"
    BY <1>1, <1>4, NamedForms DEF RequestFits
  <2> QED
    BY <2>1
<1> QED
  BY <1>1, <1>3, <1>4 DEF RequestFits

LEMMA EditTypeFacts ==
  ASSUME EditInv
  PROVE  /\ form \in Forms /\ Filling(form) /\ Creating(form)
         /\ fields \in FieldStates /\ request \in Requests
         /\ known \in [Rows -> Nat] /\ saved \in [Rows -> Nat]
         /\ chosen \in Rows /\ shown \in Rows \union {NoRow}
         /\ \A r \in Rows : known[r] <= saved[r]
         /\ FieldsFit(form, chosen, shown, known, fields)
         /\ RequestFits(form, saved, known, chosen, fields, request)
BY FormsAre DEF EditInv, EditTypes

(* The fields as they are may be shown with any row.                       *)
LEMMA FieldsReady ==
  ASSUME EditInv
  PROVE  /\ OfShown(form, shown, fields)
         /\ ~fields.open /\ fields.mode = "create" /\ form.opening = "kept"
              /\ "kept" \notin form.closing => fields.contents = "filled"
         /\ fields.mode \in form.modes
         /\ form = TitleForm => fields.version = known[shown]
         /\ form = TitleForm /\ ~fields.open => fields.contents = "filled"
         /\ form.buttons => ~fields.open
         /\ ~form.lags /\ ~form.added => \A z \in Rows : known[z] # 0
BY DEF EditInv, FieldsFit, Rested, Placed

LEMMA ChooseFits ==
  ASSUME EditInv, NEW r \in Rows, Choose(r)
  PROVE  EditInv' /\ Minded
<1>1. /\ form' = form /\ saved' = saved /\ request' = request
      /\ form.rows = "many" /\ r # chosen /\ Show(r, known, fields)
  BY DEF Choose
<1>2. /\ chosen' = r /\ known' = known
      /\ shown' \in Rows \union {NoRow} /\ fields' \in FieldStates
      /\ FieldsFit(form, r, shown', known, fields') /\ fields'.mode = fields.mode
      /\ fields' = fields \/ (fields'.contents = "filled" /\ fields'.of = shown')
      /\ fields'.open => fields.open
      /\ fields' # fields => form.refill # "never" /\ (form.refill = "idle" => ~fields.open)
      /\ form = TitleForm /\ fields'.contents # "filled" => r = chosen
  BY <1>1, EditTypeFacts, FieldsReady, ShowFits
<1>3. TitleSent(form, saved, known, r, fields', request)
  BY <1>1, <1>2 DEF TitleSent
<1>4. fields'.mode = "create" /\ fields'.contents = "sent" =>
        OnItsWay(request) \/ request.at = "accepted" \/ (~fields'.open /\ form.opening = "filled")
  BY <1>2, EditTypeFacts DEF RequestFits
<1>5. RequestFits(form, saved, known, r, fields', request)
  BY <1>1, <1>2, <1>3, <1>4, EditTypeFacts, RequestStays
<1>6. EditInv'
  BY <1>1, <1>2, <1>5 DEF EditInv, EditTypes
<1> QED
  BY <1>1, <1>2, <1>6, QuietStep

LEMMA LoadFits ==
  ASSUME EditInv, Load
  PROVE  EditInv' /\ Minded
<1> DEFINE k == IF form.lags THEN [known EXCEPT ![chosen] = saved[chosen]] ELSE saved
<1>1. /\ form' = form /\ saved' = saved /\ request' = request /\ Show(chosen, k, fields)
  BY DEF Load
<1>2. /\ k \in [Rows -> Nat] /\ \A r \in Rows : known[r] <= k[r] /\ k[r] <= saved[r]
      /\ k[chosen] = saved[chosen]
  BY EditTypeFacts
<1> HIDE DEF k
<1>3. ASSUME ~form.lags /\ ~form.added, NEW z \in Rows
      PROVE  k[z] # 0
  <2>1. known[z] # 0
    BY <1>3, FieldsReady
  <2>2. known[z] \in Nat /\ k[z] \in Nat /\ known[z] <= k[z]
    BY <1>2, EditTypeFacts
  <2> QED
    BY <2>1, <2>2
<1>4. /\ chosen' = chosen /\ known' = k
      /\ shown' \in Rows \union {NoRow} /\ fields' \in FieldStates
      /\ FieldsFit(form, chosen, shown', k, fields') /\ fields'.mode = fields.mode
      /\ fields' = fields \/ (fields'.contents = "filled" /\ fields'.of = shown')
      /\ fields'.open => fields.open
      /\ fields' # fields => form.refill # "never" /\ (form.refill = "idle" => ~fields.open)
      /\ form = TitleForm /\ fields'.contents # "filled" => k[chosen] = known[chosen]
  BY <1>1, <1>2, <1>3, EditTypeFacts, FieldsReady, ShowFits
<1>5. TitleSent(form, saved, k, chosen, fields', request)
  BY <1>2, <1>4, EditTypeFacts DEF RequestFits, TitleSent
<1>6. fields'.mode = "create" /\ fields'.contents = "sent" =>
        OnItsWay(request) \/ request.at = "accepted" \/ (~fields'.open /\ form.opening = "filled")
  BY <1>4, EditTypeFacts DEF RequestFits
<1>7. RequestFits(form, saved, k, chosen, fields', request)
  BY <1>1, <1>2, <1>4, <1>5, <1>6, EditTypeFacts, RequestStays
<1>8. EditInv'
  BY <1>1, <1>2, <1>4, <1>7 DEF EditInv, EditTypes
<1>9. OpenedAsShown /\ AnswerMindsForm
  BY <1>1, <1>4 DEF OpenedAsShown, AnswerMindsForm, NoRequest
<1>10. NewsKeepsTyping
  <2>1. SUFFICES ASSUME shown' = shown, fields.contents = "typed", fields'.contents # "typed",
                        form.refill # "data"
                 PROVE  FALSE
    BY DEF NewsKeepsTyping
  <2>2. form.refill = "idle" /\ ~fields.open
    <3>1. fields' = Refilled(fields, shown', k) /\ fields' # fields
      BY <1>1, <1>4, <2>1 DEF Show
    <3>2. \/ form.refill = "row" /\ shown' # shown
          \/ form.refill = "idle" /\ ~fields.open
      BY <1>2, <1>4, <2>1, <3>1, EditTypeFacts, Refills
    <3> QED
      BY <2>1, <3>2
  <2>3. form = VisibilityForm
    BY <2>2, EditTypeFacts DEF Filling
  <2> QED
    BY <2>1, <2>2, <2>3, EditTypeFacts DEF FieldsFit, Rested
<1> QED
  BY <1>8, <1>9, <1>10 DEF Minded

LEMMA OpenFits ==
  ASSUME EditInv, Open
  PROVE  EditInv' /\ Minded
<1> DEFINE x == FilledIf(form.opening, fields, shown, known)
           y == [x EXCEPT !.open = TRUE]
<1>1. /\ form' = form /\ saved' = saved /\ known' = known /\ chosen' = chosen /\ shown' = shown
      /\ request' = request /\ fields' = y
      /\ form.rows # "menu" /\ ~form.buttons /\ ~fields.open /\ shown \in Rows
  BY EditTypeFacts DEF Open
<1>2. /\ x \in FieldStates /\ x.mode = fields.mode
      /\ form.opening = "kept" => x = fields
      /\ form.opening = "filled" => /\ x.of = shown /\ x.version = known[shown]
                                   /\ x.contents = "filled"
      /\ form.opening \in {"filled", "kept"}
  BY <1>1, EditTypeFacts, FilledIs DEF Filling
<1> HIDE DEF x
<1>3. /\ y \in FieldStates /\ y.open /\ y.of = x.of /\ y.version = x.version
      /\ y.contents = x.contents /\ y.mode = x.mode
  BY <1>2, WithOpen
<1> HIDE DEF y
<1>4. FieldsFit(form, chosen, shown, known, y)
  BY <1>1, <1>2, <1>3, EditTypeFacts, FieldsReady DEF FieldsFit, OfShown, Rested
<1>5. RequestFits(form, saved, known, chosen, y, request)
  <2>1. y.mode = "create" /\ y.contents = "sent" => OnItsWay(request) \/ request.at = "accepted"
    BY <1>2, <1>3, EditTypeFacts DEF RequestFits
  <2>2. request.at # "none" => form # VisibilityForm
    BY <1>1, EditTypeFacts DEF RequestFits
  <2>3. form = TitleForm => y.contents = "filled"
    BY <1>1, <1>2, <1>3, FieldsReady
  <2>4. ASSUME request.at # "none", ~form.leaves, ~form.buttons, form \notin OpenMeanwhile
        PROVE  y.of = request.of
    <3>1. form.rows = "one"
      BY <1>1, <2>2, <2>4, EditTypeFacts DEF Filling
    <3>2. form \notin FollowsTheUser /\ shown # NoRow
      BY <1>1, <3>1, NamedForms, EditingAssumption
    <3>3. y.of = shown /\ fields.of = shown
      BY <1>1, <1>4, <3>2, EditTypeFacts DEF FieldsFit, OfShown
    <3> QED
      BY <2>4, <3>3, EditTypeFacts DEF RequestFits
  <2> QED
    BY <1>3, <2>1, <2>2, <2>3, <2>4, EditTypeFacts DEF RequestFits, TitleSent
<1>6. EditInv'
  BY <1>1, <1>3, <1>4, <1>5 DEF EditInv, EditTypes
<1>7. OpenedAsShown
  <2>1. CASE form.opening = "filled"
    BY <1>1, <1>2, <1>3, <2>1 DEF OpenedAsShown
  <2>2. CASE form.opening = "kept"
    <3>1. \/ form.modes = {"create"} \/ form.refill = "row" \/ (form.refill = "data" /\ ~form.locked)
          \/ form \in {TitleForm, VisibilityForm}
      BY <1>1, <2>2, EditTypeFacts DEF Creating
    <3>2. CASE form \in {TitleForm, VisibilityForm}
      <4>1. /\ fields.contents = "filled" /\ fields.version = known[shown]
            /\ fields.of = shown
        <5>1. CASE form = TitleForm
          <6>1. form \notin FollowsTheUser /\ ~form.buttons
            BY <5>1, NamedForms
          <6> QED
            BY <1>1, <5>1, <6>1, EditTypeFacts, FieldsReady, EditingAssumption DEF OfShown
        <5>2. CASE form = VisibilityForm
          BY <1>1, <5>2, EditTypeFacts DEF FieldsFit, Rested
        <5> QED
          BY <3>2, <5>1, <5>2
      <4> QED
        BY <1>1, <1>2, <1>3, <2>2, <4>1 DEF OpenedAsShown
    <3>3. CASE form.modes = {"create"}
      BY <1>1, <1>2, <1>3, <2>2, <3>3, FieldsReady DEF OpenedAsShown
    <3> QED
      BY <3>1, <3>2, <3>3 DEF OpenedAsShown
  <2> QED
    BY <1>2, <2>1, <2>2
<1> QED
  BY <1>1, <1>3, <1>6, <1>7 DEF Minded, NewsKeepsTyping, AnswerMindsForm

LEMMA OpenForFits ==
  ASSUME EditInv, NEW r \in Rows, NEW mode, OpenFor(r, mode)
  PROVE  EditInv' /\ Minded
<1> DEFINE how == IF fields.contents = "filled" THEN "filled" ELSE form.opening
           x == FilledIf(how, fields, r, known)
           y == [x EXCEPT !.open = TRUE, !.mode = mode]
<1>1. /\ form' = form /\ saved' = saved /\ known' = known /\ chosen' = r /\ shown' = r
      /\ request' = request /\ fields' = y /\ form.rows = "menu"
      /\ form.opening = "kept" => ~fields.open /\ ~Busy
      /\ mode \in form.modes
  BY DEF OpenFor
<1>2. /\ x \in FieldStates
      /\ form.opening = "filled" => /\ x.of = r /\ x.version = known[r]
                                   /\ x.contents = "filled"
      /\ form.opening \in {"filled", "kept"}
  BY EditTypeFacts, FilledIs DEF Filling
<1> HIDE DEF x
<1>3. /\ y \in FieldStates /\ y.open /\ y.of = x.of /\ y.version = x.version
      /\ y.contents = x.contents /\ y.mode = mode /\ mode \in form.modes
  BY <1>1, <1>2, EditTypeFacts DEF FieldStates, Filling
<1> HIDE DEF y
<1>4. /\ ~form.lags /\ ~form.added /\ ~form.buttons
      /\ form # TitleForm /\ form # VisibilityForm /\ form \notin {TopicCreation, RoomCreation}
      /\ form.opening = "kept" => form \in FollowsTheUser /\ "create" \notin form.modes
      /\ form.opening = "filled" => form \in OpenMeanwhile
  BY <1>1, EditTypeFacts, NamedForms DEF Filling
<1>5. FieldsFit(form, r, r, known, y)
  BY <1>2, <1>3, <1>4, EditTypeFacts DEF FieldsFit, OfShown, Rested, Placed
<1>6. form \in OpenMeanwhile \/ request.at = "none"
  BY <1>1, <1>2, <1>4, EditTypeFacts DEF RequestFits, Busy, Requests
<1>7. RequestFits(form, saved, known, r, y, request)
  BY <1>2, <1>3, <1>4, <1>6, EditTypeFacts DEF RequestFits, TitleSent
<1>8. EditInv'
  BY <1>1, <1>3, <1>5, <1>7 DEF EditInv, EditTypes
<1>9. OpenedAsShown
  BY <1>1, <1>2, <1>3 DEF OpenedAsShown
<1> QED
  BY <1>1, <1>3, <1>8, <1>9 DEF Minded, NewsKeepsTyping, AnswerMindsForm

LEMMA TypeFits ==
  ASSUME EditInv, Type
  PROVE  EditInv' /\ Minded
<1> DEFINE of == IF fields.mode = "create" /\ fields.contents = "filled" THEN shown ELSE fields.of
           y == [fields EXCEPT !.contents = "typed", !.of = of]
<1>1. /\ form' = form /\ saved' = saved /\ known' = known /\ chosen' = chosen /\ shown' = shown
      /\ request' = request /\ fields' = y /\ fields.open /\ shown \in Rows
      /\ Busy => ~form.locked
  BY EditTypeFacts DEF Type, Editable
<1>2. of \in Rows /\ (of = fields.of \/ (of = shown /\ fields.mode = "create"))
  BY <1>1, EditTypeFacts DEF FieldStates
<1> HIDE DEF of
<1>3. /\ y \in FieldStates /\ y.open /\ y.of = of /\ y.version = fields.version
      /\ y.contents = "typed" /\ y.mode = fields.mode
  BY <1>1, <1>2, EditTypeFacts DEF FieldStates
<1> HIDE DEF y
<1>4. FieldsFit(form, chosen, shown, known, y)
  <2>1. ~form.buttons
    BY <1>1, FieldsReady
  <2>2. OfShown(form, shown, y)
    BY <1>2, <1>3, FieldsReady DEF OfShown
  <2>3. form = TitleForm => y.version = known[shown]
    BY <1>3, FieldsReady
  <2> QED
    BY <1>3, <2>1, <2>2, <2>3, EditTypeFacts DEF FieldsFit, Rested
<1>5. RequestFits(form, saved, known, chosen, y, request)
  <2>1. TitleSent(form, saved, known, chosen, y, request)
    BY <1>1, NamedForms DEF TitleSent, Busy
  <2>2. ASSUME request.at # "none", ~form.leaves, ~form.buttons, form \notin OpenMeanwhile
        PROVE  y.of = request.of
    <3>1. fields.of = request.of
      BY <2>2, EditTypeFacts DEF RequestFits
    <3>2. CASE fields.mode = "create"
      <4>0. "create" \in form.modes
        BY <3>2, FieldsReady
      <4>1. form.rows = "one"
        BY <2>2, <4>0, EditTypeFacts, NamedForms DEF Filling
      <4>2. form \notin FollowsTheUser /\ shown # NoRow
        BY <1>1, <4>1, NamedForms, EditingAssumption
      <4>3. y.of = shown /\ fields.of = shown
        BY <1>4, <2>2, <4>2, EditTypeFacts DEF FieldsFit, OfShown
      <4> QED
        BY <3>1, <4>3
    <3>3. CASE fields.mode # "create"
      BY <1>2, <1>3, <3>1, <3>3
    <3> QED
      BY <3>2, <3>3
  <2> QED
    BY <1>3, <2>1, <2>2, EditTypeFacts DEF RequestFits
<1>6. EditInv'
  BY <1>1, <1>3, <1>4, <1>5 DEF EditInv, EditTypes
<1> QED
  BY <1>1, <1>6, QuietStep

LEMMA CloseFits ==
  ASSUME EditInv, Close
  PROVE  EditInv' /\ Minded
<1>1. /\ form' = form /\ saved' = saved /\ request' = request
      /\ fields.open /\ shown \in Rows /\ (Busy => form.closable)
  BY EditTypeFacts DEF Close, Editable
<1>2. PICK how \in form.closing :
        Show(chosen, known, [FilledIf(how, fields, shown, known) EXCEPT !.open = FALSE])
  BY DEF Close
<1> DEFINE f == FilledIf(how, fields, shown, known)
           x == [f EXCEPT !.open = FALSE]
<1>3. /\ f \in FieldStates /\ f.mode = fields.mode
      /\ f = fields \/ (f.of = shown /\ f.version = known[shown] /\ f.contents = "filled")
      /\ how = "filled" => f.contents = "filled"
      /\ how = "kept" => f = fields
  BY <1>1, EditTypeFacts, FilledIs
<1> HIDE DEF f
<1>4. /\ x \in FieldStates /\ ~x.open /\ x.of = f.of /\ x.version = f.version
      /\ x.contents = f.contents /\ x.mode = fields.mode /\ Show(chosen, known, x)
  BY <1>2, <1>3, WithOpen DEF f
<1> HIDE DEF x
<1>5. OfShown(form, shown, x)
  BY <1>3, <1>4, FieldsReady DEF OfShown
<1>6. /\ form = TitleForm => x.version = known[shown]
      /\ x.mode = "create" /\ form.opening = "kept" /\ "kept" \notin form.closing =>
           x.contents = "filled"
      /\ form = TitleForm => x.contents = "filled"
  <2>1. form = TitleForm => x.version = known[shown]
    BY <1>3, <1>4, FieldsReady
  <2>2. "kept" \notin form.closing => x.contents = "filled"
    BY <1>2, <1>3, <1>4, EditTypeFacts DEF Filling
  <2>3. form = TitleForm => x.contents = "filled"
    BY <2>2, NamedForms
  <2> QED
    BY <2>1, <2>2, <2>3
<1>7. /\ chosen' = chosen /\ known' = known
      /\ shown' \in Rows \union {NoRow} /\ fields' \in FieldStates
      /\ FieldsFit(form, chosen, shown', known, fields') /\ fields'.mode = fields.mode
      /\ fields' = x \/ (fields'.contents = "filled" /\ fields'.of = shown')
      /\ ~fields'.open
      /\ fields' # x => form.refill # "never"
  BY <1>4, <1>5, <1>6, EditTypeFacts, FieldsReady, ShowFits
<1>8. form \in {TitleForm, VisibilityForm} => request.at = "none"
  BY <1>1, EditTypeFacts, NamedForms DEF RequestFits, Busy, Requests
<1>9. form.rows = "menu" /\ form \notin OpenMeanwhile => x.of = fields.of
  BY <1>2, <1>3, <1>4, EditTypeFacts DEF Filling
<1>10. fields'.mode = "create" /\ fields'.contents = "sent" =>
         \/ OnItsWay(request) \/ request.at = "accepted"
         \/ ~fields'.open /\ form.opening = "filled"
  BY <1>1, <1>3, <1>4, <1>7, EditTypeFacts DEF RequestFits
<1>11. TitleSent(form, saved, known, chosen, fields', request)
  BY <1>8 DEF TitleSent
<1>12. RequestFits(form, saved, known, chosen, fields', request)
  BY <1>4, <1>7, <1>8, <1>9, <1>10, <1>11, EditTypeFacts, RequestStays
<1>13. EditInv'
  BY <1>1, <1>7, <1>12, EditTypeFacts DEF EditInv, EditTypes
<1> QED
  BY <1>1, <1>7, <1>13, QuietStep

LEMMA SubmitFits ==
  ASSUME EditInv, Submit
  PROVE  EditInv' /\ Minded
<1> DEFINE y == [fields EXCEPT !.contents = "sent"]
           q == Asking(fields.of)
<1>1. /\ form' = form /\ saved' = saved /\ known' = known /\ chosen' = chosen /\ shown' = shown
      /\ request' = q /\ fields' = y /\ fields.open /\ shown \in Rows
  BY EditTypeFacts DEF Submit, Editable
<1>2. /\ y \in FieldStates /\ y.open /\ y.of = fields.of /\ y.version = fields.version
      /\ y.contents = "sent" /\ fields.of \in Rows /\ y.mode = fields.mode
  BY <1>1, EditTypeFacts DEF FieldStates
<1>3. /\ q \in Requests /\ q.at = "sent" /\ q.to = chosen /\ q.of = fields.of
      /\ q.early = (shown # chosen) /\ ~q.button /\ q.mode = fields.mode
  BY <1>2, EditTypeFacts DEF Asking, NoRequest, Requests, FieldStates
<1> HIDE DEF y, q
<1>4. ~form.buttons
  BY <1>1, FieldsReady
<1>5. FieldsFit(form, chosen, shown, known, y)
  BY <1>2, <1>4, EditTypeFacts DEF FieldsFit, OfShown, Rested
<1>6. q.of # q.to => form \in FollowsTheUser \/ (q.early /\ form = RoleForm)
  <2>1. SUFFICES ASSUME fields.of # chosen, form \notin FollowsTheUser
                 PROVE  shown # chosen /\ form = RoleForm
    BY <1>3
  <2>2. shown # chosen
    BY <1>1, <1>4, <2>1, FieldsReady, EditingAssumption DEF OfShown
  <2>3. form.lags
    BY <1>1, <2>2, EditTypeFacts, EditingAssumption DEF FieldsFit, Placed
  <2> QED
    BY <1>4, <2>1, <2>2, <2>3, EditTypeFacts DEF Filling
<1>7. RequestFits(form, saved, known, chosen, y, q)
  BY <1>2, <1>3, <1>6, EditTypeFacts, FieldsReady DEF RequestFits, TitleSent, OnItsWay
<1>8. EditInv'
  BY <1>1, <1>2, <1>3, <1>5, <1>7, EditTypeFacts DEF EditInv, EditTypes
<1> QED
  BY <1>1, <1>3, <1>8, QuietStep

LEMMA PressFits ==
  ASSUME EditInv, Press
  PROVE  EditInv' /\ Minded
<1> DEFINE q == [Asking(shown) EXCEPT !.button = TRUE]
<1>1. /\ form' = form /\ saved' = saved /\ known' = known /\ chosen' = chosen /\ shown' = shown
      /\ request' = q /\ fields' = fields /\ form.buttons
  BY DEF Press
<1>2. /\ q \in Requests /\ q.at = "sent" /\ q.to = chosen /\ q.of = shown
      /\ q.early = (shown # chosen) /\ q.button /\ q.mode = fields.mode
  BY EditTypeFacts DEF Asking, NoRequest, Requests, FieldStates
<1> HIDE DEF q
<1>3. /\ "create" \notin form.modes /\ form # VisibilityForm /\ form # TitleForm
  BY <1>1, EditTypeFacts, NamedForms DEF Creating
<1>4. RequestFits(form, saved, known, chosen, fields, q)
  BY <1>1, <1>2, <1>3, EditTypeFacts, FieldsReady DEF RequestFits, TitleSent
<1>5. EditInv'
  BY <1>1, <1>2, <1>4, EditTypeFacts DEF EditInv, EditTypes
<1> QED
  BY <1>1, <1>2, <1>5, QuietStep

LEMMA WriteFits ==
  ASSUME EditInv, Write
  PROVE  EditInv' /\ Minded
<1> DEFINE q == [request EXCEPT !.at = "written"]
           v == IF request.mode = "create" THEN saved ELSE NewVersion(request.to)
<1>1. /\ form' = form /\ saved' = v /\ known' = known /\ chosen' = chosen /\ shown' = shown
      /\ request' = q /\ fields' = fields /\ request.at = "sent"
  BY EditTypeFacts DEF Write, Requests
<1>2. /\ q \in Requests /\ q.at = "written" /\ q.to = request.to /\ q.of = request.of
      /\ q.early = request.early /\ q.button = request.button
      /\ q.mode = request.mode
  BY EditTypeFacts DEF Requests
<1>3. request.to \in Rows
  BY <1>1, EditTypeFacts DEF RequestFits
<1>4. /\ v \in [Rows -> Nat] /\ \A r \in Rows : saved[r] <= v[r]
      /\ request.mode # "create" => v[request.to] = saved[request.to] + 1
  BY <1>3, EditTypeFacts DEF NewVersion
<1> HIDE DEF q, v
<1>5. ASSUME NEW r \in Rows PROVE known[r] <= v[r]
  <2>1. /\ known[r] \in Nat /\ saved[r] \in Nat /\ v[r] \in Nat
        /\ known[r] <= saved[r] /\ saved[r] <= v[r]
    BY <1>4, EditTypeFacts
  <2> QED
    BY <2>1
<1>6. TitleSent(form, v, known, chosen, fields, q)
  <2>1. SUFFICES ASSUME form = TitleForm, fields.contents # "filled"
                 PROVE  request.to = chosen /\ known[chosen] # v[chosen]
    BY <1>2 DEF TitleSent
  <2>2. request.to = chosen /\ request.mode # "create"
    BY <1>1, <2>1, EditTypeFacts, NamedForms DEF RequestFits, TitleSent
  <2>3. v[chosen] = saved[chosen] + 1 /\ known[chosen] <= saved[chosen]
        /\ known[chosen] \in Nat /\ saved[chosen] \in Nat
    BY <1>3, <1>4, <2>2, EditTypeFacts
  <2> QED
    BY <2>2, <2>3
<1>7. RequestFits(form, v, known, chosen, fields, q)
  BY <1>1, <1>2, <1>6, EditTypeFacts DEF RequestFits, OnItsWay
<1>8. EditInv'
  BY <1>1, <1>2, <1>4, <1>5, <1>7, EditTypeFacts DEF EditInv, EditTypes
<1> QED
  BY <1>1, <1>2, <1>8, QuietStep

LEMMA AcceptFirstFits ==
  ASSUME EditInv, AcceptFirst
  PROVE  EditInv' /\ Minded
<1> DEFINE q == [request EXCEPT !.at = "accepted"]
<1>1. /\ form' = form /\ saved' = saved /\ known' = known /\ chosen' = chosen /\ shown' = shown
      /\ request' = q /\ fields' = fields /\ request.at = "written"
      /\ form \in {TopicCreation, RoomCreation}
  BY DEF AcceptFirst
<1>2. /\ q \in Requests /\ q.at = "accepted" /\ q.to = request.to /\ q.of = request.of
      /\ q.early = request.early /\ q.button = request.button
      /\ q.mode = request.mode
  BY EditTypeFacts DEF Requests
<1> HIDE DEF q
<1>3. RequestFits(form, saved, known, chosen, fields, q)
  BY <1>1, <1>2, EditTypeFacts DEF RequestFits, TitleSent, OnItsWay
<1>4. EditInv'
  BY <1>1, <1>2, <1>3, EditTypeFacts DEF EditInv, EditTypes
<1> QED
  BY <1>1, <1>2, <1>4, QuietStep

LEMMA NoRequestFits ==
  ASSUME NEW f, NEW v, NEW k, NEW r, NEW x,
         x.mode = "create" /\ x.contents = "sent" => ~x.open /\ f.opening = "filled"
  PROVE  NoRequest \in Requests /\ NoRequest.at = "none" /\ RequestFits(f, v, k, r, x, NoRequest)
BY DEF NoRequest, Requests, RequestFits, TitleSent, OnItsWay

LEMMA AcceptFits ==
  ASSUME EditInv, Accept
  PROVE  EditInv' /\ Minded
<1> DEFINE k == IF form = TitleForm THEN [known EXCEPT ![request.to] = saved[request.to]] ELSE known
           g == FilledIf(form.answered, fields, shown, known)
           f == [g EXCEPT !.open = @ /\ form.leaves]
           x == IF request.button THEN fields ELSE f
<1>1. /\ form' = form /\ saved' = saved /\ request' = NoRequest /\ Show(chosen, k, x)
      /\ request.at \in {"written", "accepted"} /\ request.at # "none"
  BY DEF Accept
<1>2. form.answered = "filled" => shown \in Rows
  BY EditTypeFacts DEF FieldsFit, Placed, Filling
<1>3. /\ g \in FieldStates /\ g.open = fields.open /\ g.mode = fields.mode
      /\ g = fields \/ (g.of = shown /\ g.version = known[shown] /\ g.contents = "filled")
      /\ form.answered = "filled" => g.contents = "filled"
  <2>1. CASE form.answered = "filled"
    BY <1>2, <2>1, EditTypeFacts, FilledIs
  <2>2. CASE form.answered # "filled"
    BY <2>2, EditTypeFacts DEF FilledIf
  <2> QED
    BY <2>1, <2>2
<1> HIDE DEF g
<1>4. /\ f \in FieldStates /\ f.open = (fields.open /\ form.leaves) /\ f.of = g.of
      /\ f.version = g.version /\ f.contents = g.contents /\ f.mode = fields.mode
  BY <1>3, EditTypeFacts DEF FieldStates, Filling
<1> HIDE DEF f
<1>5. request.button => form.buttons
  BY EditTypeFacts DEF RequestFits
<1>6. /\ x \in FieldStates
      /\ x.open => fields.open
      /\ x = fields \/ x = f
      /\ ~form.buttons => x = f
      /\ x.mode = fields.mode /\ x.mode \in form.modes
  BY <1>4, <1>5, EditTypeFacts, FieldsReady
<1> HIDE DEF x
<1>7. OfShown(form, shown, x)
  BY <1>3, <1>4, <1>6, FieldsReady DEF OfShown
<1>8. /\ k \in [Rows -> Nat] /\ \A r \in Rows : known[r] <= k[r] /\ k[r] <= saved[r]
      /\ form = TitleForm => k[request.to] = saved[request.to]
      /\ k # known => form = TitleForm
  BY <1>1, EditTypeFacts DEF RequestFits
<1> HIDE DEF k
<1>9. ASSUME ~form.lags /\ ~form.added, NEW z \in Rows
      PROVE  k[z] # 0
  <2>1. known[z] # 0
    BY <1>9, FieldsReady
  <2>2. known[z] \in Nat /\ k[z] \in Nat /\ known[z] <= k[z]
    BY <1>8, EditTypeFacts
  <2> QED
    BY <2>1, <2>2
<1>10. fields.mode = "create" =>
         x = f /\ (x.contents = "filled" \/ (~x.open /\ form.opening = "filled"))
  BY <1>3, <1>4, <1>6, EditTypeFacts DEF Creating
<1>11. /\ form = TitleForm => x.version = known[shown]
       /\ ~x.open /\ x.mode = "create" /\ form.opening = "kept" => x.contents = "filled"
  BY <1>3, <1>4, <1>6, <1>10, FieldsReady
<1>12. ASSUME form = TitleForm, x.contents # "filled"
       PROVE  k[chosen] # known[chosen]
  <2>1. fields.contents # "filled"
    BY <1>3, <1>4, <1>6, <1>12
  <2>2. request.at = "written"
    BY <1>1, <1>12, EditTypeFacts, NamedForms DEF RequestFits
  <2>3. request.to = chosen /\ known[chosen] # saved[chosen]
    BY <1>12, <2>1, <2>2, EditTypeFacts DEF RequestFits, TitleSent
  <2> QED
    BY <1>8, <1>12, <2>3
<1>13. form.buttons => ~x.open
  BY <1>6, FieldsReady
<1>14. /\ chosen' = chosen /\ known' = k
       /\ shown' \in Rows \union {NoRow} /\ fields' \in FieldStates
       /\ FieldsFit(form, chosen, shown', k, fields') /\ fields'.mode = x.mode
       /\ fields'.open => x.open
       /\ x.open /\ ~fields'.open => form.refill = "row"
       /\ fields' # x => form.refill # "never"
  BY <1>1, <1>6, <1>7, <1>8, <1>9, <1>11, <1>12, <1>13, EditTypeFacts, ShowFits
<1>15. fields'.mode = "create" /\ fields'.contents = "sent" => ~fields'.open /\ form.opening = "filled"
  <2>1. SUFFICES ASSUME fields'.mode = "create", fields'.contents = "sent"
                 PROVE  ~fields'.open /\ form.opening = "filled"
    OBVIOUS
  <2>2. fields.mode = "create" /\ form.refill = "never"
    BY <1>6, <1>14, <2>1, EditTypeFacts, FieldsReady DEF Creating
  <2> QED
    BY <1>10, <1>14, <2>1, <2>2
<1>16. EditInv'
  BY <1>1, <1>8, <1>14, <1>15, NoRequestFits, EditTypeFacts DEF EditInv, EditTypes
<1>17. OpenedAsShown
  BY <1>6, <1>14 DEF OpenedAsShown
<1>18. NewsKeepsTyping
  BY <1>1, <1>8, <1>14, NamedForms DEF NewsKeepsTyping
<1>19. AnswerMindsForm
  <2>1. SUFFICES ASSUME fields.open, ~fields'.open, form \notin OpenMeanwhile
                 PROVE  fields.of = request.of
    BY DEF AnswerMindsForm
  <2>2. ~form.buttons /\ x = f /\ form.refill # "row"
    BY <1>6, <2>1, EditTypeFacts, FieldsReady DEF Filling
  <2>3. ~form.leaves
    BY <1>4, <1>14, <2>1, <2>2, EditTypeFacts DEF FieldStates, Filling
  <2> QED
    BY <1>1, <2>1, <2>2, <2>3, EditTypeFacts DEF RequestFits
<1> QED
  BY <1>16, <1>17, <1>18, <1>19 DEF Minded

LEMMA RefuseFits ==
  ASSUME EditInv, Refuse
  PROVE  EditInv' /\ Minded
<1> DEFINE y == [fields EXCEPT !.contents = IF @ = "sent" THEN "typed" ELSE @]
<1>1. /\ form' = form /\ saved' = saved /\ known' = known /\ chosen' = chosen /\ shown' = shown
      /\ request' = NoRequest /\ fields' = y
  BY DEF Refuse
<1>2. /\ y \in FieldStates /\ y.open = fields.open /\ y.of = fields.of
      /\ y.version = fields.version /\ y.contents # "sent" /\ y.mode = fields.mode
      /\ fields.contents = "filled" => y.contents = "filled"
  BY EditTypeFacts DEF FieldStates
<1> HIDE DEF y
<1>3. FieldsFit(form, chosen, shown, known, y)
  BY <1>2, EditTypeFacts DEF FieldsFit, OfShown, Rested
<1>4. EditInv'
  BY <1>1, <1>2, <1>3, NoRequestFits, EditTypeFacts DEF EditInv, EditTypes
<1> QED
  BY <1>1, <1>2, <1>4 DEF Minded, OpenedAsShown, NewsKeepsTyping, AnswerMindsForm

LEMMA OthersChangeFits ==
  ASSUME EditInv, NEW r \in Rows, OthersChange(r)
  PROVE  EditInv' /\ Minded
<1> DEFINE v == NewVersion(r)
<1>1. /\ form' = form /\ saved' = v /\ known' = known /\ chosen' = chosen /\ shown' = shown
      /\ request' = request /\ fields' = fields
  BY DEF OthersChange
<1>2. v \in [Rows -> Nat] /\ \A z \in Rows : saved[z] <= v[z] /\ (v[z] = saved[z] \/ v[z] = saved[z] + 1)
  BY EditTypeFacts DEF NewVersion
<1> HIDE DEF v
<1>3. ASSUME NEW z \in Rows
      PROVE  known[z] <= v[z] /\ (known[z] # saved[z] => known[z] # v[z])
  <2>1. /\ known[z] \in Nat /\ saved[z] \in Nat /\ v[z] \in Nat /\ known[z] <= saved[z]
        /\ v[z] = saved[z] \/ v[z] = saved[z] + 1
    BY <1>2, EditTypeFacts
  <2> QED
    BY <2>1
<1>4. RequestFits(form, v, known, chosen, fields, request)
  BY <1>3, EditTypeFacts DEF RequestFits, TitleSent
<1>5. EditInv'
  BY <1>1, <1>2, <1>3, <1>4, EditTypeFacts DEF EditInv, EditTypes
<1> QED
  BY <1>1, <1>5, QuietStep

LEMMA EditStart ==
  ASSUME EditInit
  PROVE  EditInv
<1> DEFINE first == [r \in Rows |-> 1]
<1>0. PICK mode \in form.modes :
        fields = [open |-> FALSE, of |-> chosen, version |-> 1, contents |-> "filled",
                  mode |-> mode]
  BY DEF EditInit
<1> DEFINE x == [open |-> FALSE, of |-> chosen, version |-> 1, contents |-> "filled",
                 mode |-> mode]
<1>1. /\ form \in Forms /\ saved = first /\ chosen \in Rows /\ shown = chosen
      /\ known \in [Rows -> {0, 1}] /\ known[chosen] = 1
      /\ form.lags \/ form.added \/ \A r \in Rows : known[r] = 1
      /\ fields = x /\ request = NoRequest
  BY <1>0 DEF EditInit
<1>2. x \in FieldStates /\ ~x.open /\ x.of = chosen /\ x.version = 1 /\ x.contents = "filled"
      /\ x.mode \in form.modes
  BY <1>0, <1>1, FormsAre DEF FieldStates, Filling
<1>3. first \in [Rows -> Nat] /\ \A r \in Rows : first[r] = 1
  OBVIOUS
<1> HIDE DEF x, first
<1>4. known \in [Rows -> Nat] /\ \A r \in Rows : known[r] <= saved[r]
  <2>1. ASSUME NEW r \in Rows PROVE known[r] \in Nat /\ known[r] <= saved[r]
    <3>1. known[r] \in {0, 1} /\ saved[r] = 1
      BY <1>1, <1>3
    <3> QED
      BY <3>1
  <2> QED
    BY <1>1, <2>1
<1>5. FieldsFit(form, chosen, shown, known, x)
  BY <1>1, <1>2, EditingAssumption DEF FieldsFit, Placed, OfShown, Rested
<1>6. RequestFits(form, saved, known, chosen, x, NoRequest) /\ NoRequest \in Requests
  BY <1>2, NoRequestFits
<1> QED
  BY <1>1, <1>2, <1>3, <1>4, <1>5, <1>6 DEF EditInv, EditTypes

LEMMA EditingHolds ==
  ASSUME EditInv
  PROVE  SavesAreMeant /\ SentOnce
<1>1. SavesAreMeant
  BY EditTypeFacts DEF SavesAreMeant, Busy, RequestFits, OnItsWay
<1>2. SentOnce
  BY EditTypeFacts DEF SentOnce, Busy, RequestFits, OnItsWay
<1> QED
  BY <1>1, <1>2

LEMMA EditSteps ==
  ASSUME EditInv, [EditNext]_editVars
  PROVE  EditInv' /\ (EditNext => Minded)
<1>1. CASE \E r \in Rows : Choose(r)
  BY <1>1, ChooseFits
<1>2. CASE \E r \in Rows, mode \in {"edit", "create"} : OpenFor(r, mode)
  BY <1>2, OpenForFits
<1>3. CASE \E r \in Rows : OthersChange(r)
  BY <1>3, OthersChangeFits
<1>4. CASE Load
  BY <1>4, LoadFits
<1>5. CASE Open
  BY <1>5, OpenFits
<1>6. CASE Type
  BY <1>6, TypeFits
<1>7. CASE Close
  BY <1>7, CloseFits
<1>8. CASE Submit
  BY <1>8, SubmitFits
<1>9. CASE Press
  BY <1>9, PressFits
<1>10. CASE Write
  BY <1>10, WriteFits
<1>11. CASE AcceptFirst
  BY <1>11, AcceptFirstFits
<1>12. CASE Accept
  BY <1>12, AcceptFits
<1>13. CASE Refuse
  BY <1>13, RefuseFits
<1>14. CASE UNCHANGED editVars /\ ~EditNext
  BY <1>14 DEF editVars, EditInv, EditTypes
<1> QED
  BY <1>1, <1>2, <1>3, <1>4, <1>5, <1>6, <1>7, <1>8, <1>9, <1>10, <1>11, <1>12, <1>13, <1>14
  DEF EditNext

(* Whichever form of the client it is, and whatever is loaded, clicked and *)
(* answered in between: a request is meant for the row it was typed for, a *)
(* form opens with what the page shows, nothing is created twice, news do  *)
(* not take away what is typed, and an answer closes the form it was asked *)
(* from, with the exceptions EditingSound names, for any rows.             *)
THEOREM FormsComeOutRight == EditSpec => EditingSound
<1>1. EditInit => EditInv
  BY EditStart
<1>2. EditInv /\ [EditNext]_editVars => EditInv'
  BY EditSteps
<1>3. EditInv /\ EditInv' /\ [EditNext]_editVars
        => [SavesAreMeant' /\ OpenedAsShown /\ SentOnce' /\ NewsKeepsTyping /\ AnswerMindsForm]_editVars
  <2>1. EditInv' => SavesAreMeant' /\ SentOnce'
    BY EditingHolds, PTL
  <2>2. EditInv /\ EditNext => Minded
    BY EditSteps
  <2> QED
    BY <2>1, <2>2 DEF Minded
<1> QED
  BY <1>1, <1>2, <1>3, PTL DEF EditSpec, EditingSound


=============================================================================
