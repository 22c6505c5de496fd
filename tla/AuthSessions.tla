---------------------------- MODULE AuthSessions -----------------------------
(***************************************************************************)
(* Accounts, refresh sessions and password-reset requests: the handlers of *)
(* src/server/src/auth/auth.service.ts and the account commands of         *)
(* src/server/src/users/users.service.ts.                                  *)
(*                                                                         *)
(* A handler runs in a slot of the server (a member of Reqs).  Every SQL   *)
(* statement it awaits is one atomic action, together with the code that   *)
(* runs up to the next await; between two statements of one handler the    *)
(* statements of the other slots interleave freely.  A handler may fail at *)
(* any await (lost database connection, server crash): Fail.               *)
(*                                                                         *)
(* wasEnabled, wasGood, wasRaced and raced are history variables: they     *)
(* never guard an action.                                                  *)
(***************************************************************************)
EXTENDS FiniteSets

CONSTANTS
  Users,      \* user ids; every user has an account from the start
  Passwords,  \* the passwords anyone types; a hash is the password it matches
  Temps,      \* the passwords generateTemporaryPassword may return
  Sids,       \* refresh-session ids: bounds the sessions granted
  Rids,       \* password-reset request ids: bounds the requests made
  Reqs,       \* handler slots: bounds the concurrency
  Ops,        \* the operations requested in this instance
  None        \* null

Disabling == {"deactivate", "block", "softDelete"}
AccountOps == Disabling \union {"activate", "unblock", "resetPassword"}
ResetOps == {"requestReset", "approveReset", "rejectReset", "listResets"}
OpNames == AccountOps \union ResetOps \union
           {"login", "refresh", "logout", "changePassword", "approveRegistration"}

ASSUME AuthAssumption ==
  /\ None \notin Users \union Passwords \union Sids \union Rids
  /\ Temps \subseteq Passwords
  /\ Ops \subseteq OpNames

VARIABLES
  account,    \* table users
  session,    \* table refresh_sessions
  reset,      \* table password_reset_requests
  req,        \* the handlers in flight
  wasEnabled, \* history: requests whose user has been enabled since they began
  wasGood,    \* history: requests whose secret has been good since they began
  wasRaced,   \* history: requests whose user has been being disabled meanwhile
  raced       \* history: sessions granted by a request of wasRaced

vars == <<account, session, reset, req, wasEnabled, wasGood, wasRaced, raced>>

------------------------------------------------------------------------------
(* Rows *)

Accounts == [deleted : BOOLEAN, active : BOOLEAN, blocked : BOOLEAN, hash : Passwords]

Sessions == [status : {"free", "live", "revoked"}, expired : BOOLEAN,
             user : Users \union {None}, parent : Sids \union {None}]

FreeSession == [status |-> "free", expired |-> FALSE, user |-> None, parent |-> None]

ResetStatus == {"PENDING", "APPROVED", "REJECTED", "USED", "EXPIRED"}

(* due: expiresAt has passed; tempDue: temporaryPasswordExpiresAt has.     *)
Resets == [status : ResetStatus \union {"free"}, user : Users \union {None},
           temp : Passwords \union {None}, due : BOOLEAN, tempDue : BOOLEAN]

FreeReset == [status |-> "free", user |-> None, temp |-> None,
              due |-> FALSE, tempDue |-> FALSE]

(* Where a handler stands: the statement it executes next.                 *)
Steps == {"idle", "findUser", "expireStale", "findTemp", "findSession",
          "revokeForged", "revokePresented", "build", "insert", "findHash",
          "writeHash", "revokeAll", "markUsed", "assertUser", "setFlag",
          "findRequester", "findOpen", "createRequest", "readRequest",
          "approve", "reject", "findLive", "findDeleted", "revive"}

(* pw: password presented; new: hash to be written; sid: session of the    *)
(* token presented; rid: password-reset request.                           *)
Handlers == [op : OpNames \union {"none"}, at : Steps, user : Users \union {None},
             pw : Passwords \union {None}, new : Passwords \union {None},
             sid : Sids \union {None}, rid : Rids \union {None}]

Idle == [op |-> "none", at |-> "idle", user |-> None, pw |-> None,
         new |-> None, sid |-> None, rid |-> None]

Enabled(u) == /\ ~account[u].deleted
              /\ account[u].active
              /\ ~account[u].blocked

Usable(s) == session[s].status = "live" /\ ~session[s].expired

TempMatches(u, p) ==
  \E q \in Rids : /\ reset[q].user = u
                  /\ reset[q].status = "APPROVED"
                  /\ reset[q].temp = p
                  /\ ~reset[q].tempDue

------------------------------------------------------------------------------
(* The control of a handler *)

At(r, step) == req[r].at = step

Goto(r, step) == req' = [req EXCEPT ![r].at = step]

Finish(r) == req' = [req EXCEPT ![r] = Idle]

Start(r, op, step, u, p, n, s, q) ==
  /\ op \in Ops
  /\ req[r] = Idle
  /\ req' = [req EXCEPT ![r] = [op |-> op, at |-> step, user |-> u, pw |-> p,
                               new |-> n, sid |-> s, rid |-> q]]

(* Mutant: the rows are deleted instead of marked.                         *)
DeleteRevoked(S) == [s \in Sids |-> IF s \in S /\ session[s].status = "live"
                                    THEN FreeSession ELSE session[s]]

(* The session rows of users in U that are still live become revoked.      *)
Revoked(S) == [s \in Sids |-> IF s \in S /\ session[s].status = "live"
                              THEN [session[s] EXCEPT !.status = "revoked"]
                              ELSE session[s]]

SessionsOf(u) == {s \in Sids : session[s].user = u}

------------------------------------------------------------------------------
(* Calls of the controllers *)

StartLogin(r) ==
  /\ \E u \in Users, p \in Passwords :
       Start(r, "login", "findUser", u, p, None, None, None)
  /\ UNCHANGED <<account, session, reset, raced>>

(* refresh and logout present a token the server has signed; one that has  *)
(* expired is refused by refresh, and revokes nothing in logout.           *)
StartRefresh(r) ==
  /\ \E s \in Sids :
       /\ session[s].status # "free"
       /\ Start(r, "refresh", "findSession", session[s].user, None, None, s, None)
  /\ UNCHANGED <<account, session, reset, raced>>

StartLogout(r) ==
  /\ \E s \in Sids :
       /\ session[s].status # "free" /\ ~session[s].expired
       /\ Start(r, "logout", "revokePresented", session[s].user, None, None, s, None)
  /\ UNCHANGED <<account, session, reset, raced>>

(* The access token is stateless: it is accepted whatever the account is.  *)
StartChangePassword(r) ==
  /\ \E u \in Users, p \in Passwords, n \in Passwords :
       Start(r, "changePassword", "findHash", u, p, n, None, None)
  /\ UNCHANGED <<account, session, reset, raced>>

StartAccountOp(r) ==
  /\ \E op \in AccountOps, u \in Users :
       \E n \in IF op = "resetPassword" THEN Passwords ELSE {None} :
         Start(r, op, "assertUser", u, None, n, None, None)
  /\ UNCHANGED <<account, session, reset, raced>>

StartResetOp(r) ==
  /\ \/ \E u \in Users :
          Start(r, "requestReset", "expireStale", u, None, None, None, None)
     \/ \E op \in {"approveReset", "rejectReset"}, q \in Rids :
          /\ reset[q].status # "free"
          /\ Start(r, op, "expireStale", None, None, None, None, q)
     \/ Start(r, "listResets", "expireStale", None, None, None, None, None)
  /\ UNCHANGED <<account, session, reset, raced>>

(* The administrator approves a pending registration whose e-mail is that  *)
(* of account u; the request row itself is in module Registration.         *)
StartApproveRegistration(r) ==
  /\ \E u \in Users, n \in Passwords :
       Start(r, "approveRegistration", "findLive", u, None, n, None, None)
  /\ UNCHANGED <<account, session, reset, raced>>

------------------------------------------------------------------------------
(* login *)

FindUser(r) ==
  /\ At(r, "findUser")
  /\ LET u == req[r].user IN
       IF ~Enabled(u) THEN Finish(r)
       ELSE Goto(r, IF account[u].hash = req[r].pw THEN "build" ELSE "expireStale")
  /\ UNCHANGED <<account, session, reset, raced>>

(* findValidTemporaryPasswordRequest, after expireStale.                   *)
FindTemp(r) ==
  /\ At(r, "findTemp")
  /\ IF TempMatches(req[r].user, req[r].pw)
     THEN Goto(r, IF req[r].op = "login" THEN "build" ELSE "writeHash")
     ELSE Finish(r)
  /\ UNCHANGED <<account, session, reset, raced>>

(* buildSessionResponse: the roles and permissions it reads are data.      *)
BuildSessionResponse(r) ==
  /\ At(r, "build")
  /\ IF Enabled(req[r].user) THEN Goto(r, "insert") ELSE Finish(r)
  /\ UNCHANGED <<account, session, reset, raced>>

(* createRefreshSession: a fresh randomUUID, then the response.            *)
CreateRefreshSession(r) ==
  /\ At(r, "insert")
  /\ \E s \in Sids :
       /\ session[s] = FreeSession
       /\ session' = [session EXCEPT ![s] =
                        [status |-> "live", expired |-> FALSE,
                         user |-> req[r].user, parent |-> req[r].sid]]
       /\ raced' = IF r \in wasRaced THEN raced \union {s} ELSE raced
  /\ Finish(r)
  /\ UNCHANGED <<account, reset>>

------------------------------------------------------------------------------
(* refresh and logout *)

(* Mutant: refresh does not revoke the session it was given.               *)
FindSessionNoRotation(r) ==
  /\ At(r, "findSession")
  /\ IF ~Usable(req[r].sid) THEN Finish(r) ELSE Goto(r, "build")
  /\ UNCHANGED <<account, session, reset, raced>>

(* matches: bcrypt.compare of the token with the stored hash.              *)
FindSession(r) ==
  /\ At(r, "findSession")
  /\ IF ~Usable(req[r].sid) THEN Finish(r)
     ELSE \E matches \in BOOLEAN :
            Goto(r, IF matches THEN "revokePresented" ELSE "revokeForged")
  /\ UNCHANGED <<account, session, reset, raced>>

(* revokeRefreshSession: updateMany where revokedAt is null.  The number   *)
(* of rows it changed is not looked at.                                    *)
RevokePresented(r) ==
  /\ req[r].at \in {"revokePresented", "revokeForged"}
  /\ session' = Revoked({req[r].sid})
  /\ IF req[r].op = "refresh" /\ At(r, "revokePresented")
     THEN Goto(r, "build") ELSE Finish(r)
  /\ UNCHANGED <<account, reset, raced>>

(* Mutant: changePassword does not ask for the current password.           *)
FindByIdNoCompare(r) ==
  /\ At(r, "findHash")
  /\ IF account[req[r].user].deleted THEN Finish(r) ELSE Goto(r, "writeHash")
  /\ UNCHANGED <<account, session, reset, raced>>

------------------------------------------------------------------------------
(* changePassword, and the commands of UsersService *)

(* Mutant: deactivate forgets the sessions.                                *)
AssertAndDeactivate(r) ==
  /\ At(r, "assertUser")
  /\ IF account[req[r].user].deleted THEN Finish(r)
     ELSE Goto(r, IF req[r].op \in {"activate", "unblock", "deactivate", "block"}
                  THEN "setFlag" ELSE "revokeAll")
  /\ UNCHANGED <<account, session, reset, raced>>

FindByIdWithHash(r) ==
  /\ At(r, "findHash")
  /\ LET u == req[r].user IN
       IF account[u].deleted THEN Finish(r)
       ELSE Goto(r, IF account[u].hash = req[r].pw THEN "writeHash" ELSE "expireStale")
  /\ UNCHANGED <<account, session, reset, raced>>

AssertUserExists(r) ==
  /\ At(r, "assertUser")
  /\ IF account[req[r].user].deleted THEN Finish(r)
     ELSE Goto(r, IF req[r].op \in {"activate", "unblock"} THEN "setFlag" ELSE "revokeAll")
  /\ UNCHANGED <<account, session, reset, raced>>

WriteHash(r) ==
  /\ At(r, "writeHash")
  /\ account' = [account EXCEPT ![req[r].user].hash = req[r].new]
  /\ IF req[r].op = "changePassword" THEN Goto(r, "revokeAll") ELSE Finish(r)
  /\ UNCHANGED <<session, reset, raced>>

RevokeRefreshSessions(r) ==
  /\ At(r, "revokeAll")
  /\ session' = Revoked(SessionsOf(req[r].user))
  /\ CASE req[r].op = "changePassword" -> Goto(r, "markUsed")
       [] req[r].op \in Disabling      -> Goto(r, "setFlag")
       [] req[r].op = "resetPassword"  -> Goto(r, "writeHash")
       [] OTHER                        -> Finish(r)
  /\ UNCHANGED <<account, reset, raced>>

Flagged(row, op) ==
  [deleted |-> IF op = "softDelete" THEN TRUE ELSE row.deleted,
   active  |-> CASE op = "activate" -> TRUE [] op = "deactivate" -> FALSE [] OTHER -> row.active,
   blocked |-> CASE op = "block" -> TRUE [] op = "unblock" -> FALSE [] OTHER -> row.blocked,
   hash    |-> row.hash]

SetFlag(r) ==
  /\ At(r, "setFlag")
  /\ account' = [account EXCEPT ![req[r].user] = Flagged(@, req[r].op)]
  /\ Finish(r)
  /\ UNCHANGED <<session, reset, raced>>

(* Mutant: the hash column is cleared but no status written.               *)
MarkUsedDone(r) ==
  /\ At(r, "markUsed")
  /\ reset' = [q \in Rids |->
       IF reset[q].user = req[r].user /\ reset[q].status = "APPROVED"
       THEN [reset[q] EXCEPT !.status = "DONE", !.temp = None] ELSE reset[q]]
  /\ Finish(r)
  /\ UNCHANGED <<account, session, raced>>

(* The approved reset requests of the user, by changePassword.             *)
MarkUsed(r) ==
  /\ At(r, "markUsed")
  /\ reset' = [q \in Rids |->
       IF reset[q].user = req[r].user /\ reset[q].status = "APPROVED"
       THEN [reset[q] EXCEPT !.status = "USED", !.temp = None] ELSE reset[q]]
  /\ Finish(r)
  /\ UNCHANGED <<account, session, raced>>

------------------------------------------------------------------------------
(* password-reset requests *)

ExpireStale(r) ==
  /\ At(r, "expireStale")
  /\ reset' = [q \in Rids |->
       IF /\ reset[q].status \in {"PENDING", "APPROVED"}
          /\ reset[q].due \/ reset[q].tempDue
       THEN [reset[q] EXCEPT !.status = "EXPIRED"] ELSE reset[q]]
  /\ CASE req[r].op \in {"login", "changePassword"}          -> Goto(r, "findTemp")
       [] req[r].op = "requestReset"                         -> Goto(r, "findRequester")
       [] req[r].op \in {"approveReset", "rejectReset"}      -> Goto(r, "readRequest")
       [] OTHER                                              -> Finish(r)
  /\ UNCHANGED <<account, session, raced>>

FindRequester(r) ==
  /\ At(r, "findRequester")
  /\ IF Enabled(req[r].user) THEN Goto(r, "findOpen") ELSE Finish(r)
  /\ UNCHANGED <<account, session, reset, raced>>

FindOpenRequest(r) ==
  /\ At(r, "findOpen")
  /\ IF \E q \in Rids : /\ reset[q].user = req[r].user
                        /\ reset[q].status \in {"PENDING", "APPROVED"}
                        /\ ~reset[q].due
     THEN Finish(r) ELSE Goto(r, "createRequest")
  /\ UNCHANGED <<account, session, reset, raced>>

CreateResetRequest(r) ==
  /\ At(r, "createRequest")
  /\ \E q \in Rids : /\ reset[q] = FreeReset
                     /\ reset' = [reset EXCEPT ![q] =
                          [status |-> "PENDING", user |-> req[r].user, temp |-> None,
                           due |-> FALSE, tempDue |-> FALSE]]
  /\ Finish(r)
  /\ UNCHANGED <<account, session, raced>>

(* approve also checks the clock and the account it read with the request, *)
(* and draws the temporary password before its next statement.             *)
ReadRequest(r) ==
  /\ At(r, "readRequest")
  /\ LET row == reset[req[r].rid] IN
       IF row.status # "PENDING" THEN Finish(r)
       ELSE IF req[r].op = "rejectReset" THEN Goto(r, "reject")
       ELSE IF row.due \/ ~Enabled(row.user) THEN Finish(r)
       ELSE \E t \in Temps :
              req' = [req EXCEPT ![r] = [@ EXCEPT !.at = "approve",
                                                  !.user = row.user, !.new = t]]
  /\ UNCHANGED <<account, session, reset, raced>>

ApproveResetRequest(r) ==
  /\ At(r, "approve")
  /\ reset' = [reset EXCEPT ![req[r].rid] =
                 [@ EXCEPT !.status = "APPROVED", !.temp = req[r].new, !.tempDue = FALSE]]
  /\ Goto(r, "revokeAll")
  /\ UNCHANGED <<account, session, raced>>

RejectResetRequest(r) ==
  /\ At(r, "reject")
  /\ reset' = [reset EXCEPT ![req[r].rid].status = "REJECTED"]
  /\ Finish(r)
  /\ UNCHANGED <<account, session, raced>>

------------------------------------------------------------------------------
(* approveRegistrationRequest, for an e-mail that has an account *)

(* findByEmail: a live account makes the approval a conflict.              *)
FindLiveAccount(r) ==
  /\ At(r, "findLive")
  /\ IF account[req[r].user].deleted THEN Goto(r, "findDeleted") ELSE Finish(r)
  /\ UNCHANGED <<account, session, reset, raced>>

(* An account undeleted since then sends the handler to createUser, which  *)
(* fails on the unique e-mail.                                             *)
FindDeletedAccount(r) ==
  /\ At(r, "findDeleted")
  /\ IF account[req[r].user].deleted THEN Goto(r, "revive") ELSE Finish(r)
  /\ UNCHANGED <<account, session, reset, raced>>

ReviveAccount(r) ==
  /\ At(r, "revive")
  /\ account' = [account EXCEPT ![req[r].user] =
                   [deleted |-> FALSE, active |-> TRUE, blocked |-> FALSE,
                    hash |-> req[r].new]]
  /\ Goto(r, "revokeAll")
  /\ UNCHANGED <<session, reset, raced>>

------------------------------------------------------------------------------
(* The environment *)

(* The handler dies at an await; what it has written stays.                *)
Fail(r) ==
  /\ req[r] # Idle
  /\ Finish(r)
  /\ UNCHANGED <<account, session, reset, raced>>

SessionExpires(s) ==
  /\ session[s].status # "free"
  /\ ~session[s].expired
  /\ session' = [session EXCEPT ![s].expired = TRUE]
  /\ UNCHANGED <<account, reset, req, raced>>

ResetRequestExpires(q) ==
  /\ reset[q].status # "free"
  /\ ~reset[q].due
  /\ reset' = [reset EXCEPT ![q].due = TRUE]
  /\ UNCHANGED <<account, session, req, raced>>

TempPasswordExpires(q) ==
  /\ reset[q].status = "APPROVED"
  /\ ~reset[q].tempDue
  /\ reset' = [reset EXCEPT ![q].tempDue = TRUE]
  /\ UNCHANGED <<account, session, req, raced>>

------------------------------------------------------------------------------
(* History *)

BeingDisabled(u) == \E x \in Reqs : req[x].op \in Disabling /\ req[x].user = u

UserEnabled(r) == req[r].user # None /\ Enabled(req[r].user)

UserBeingDisabled(r) == req[r].user # None /\ BeingDisabled(req[r].user)

(* The secret the handler was given would be accepted now.                 *)
CredentialGood(r) ==
  \/ /\ req[r].op \in {"login", "changePassword"}
     /\ \/ account[req[r].user].hash = req[r].pw
        \/ TempMatches(req[r].user, req[r].pw)
  \/ req[r].op = "refresh" /\ Usable(req[r].sid)

(* For each request in flight: has this been true in a state since it      *)
(* began?  A slot that becomes idle forgets.                               *)
Observe ==
  /\ wasEnabled' = {r \in Reqs : UserEnabled(r)' \/ (r \in wasEnabled /\ req'[r] # Idle)}
  /\ wasGood'    = {r \in Reqs : CredentialGood(r)' \/ (r \in wasGood /\ req'[r] # Idle)}
  /\ wasRaced'   = {r \in Reqs : UserBeingDisabled(r)' \/ (r \in wasRaced /\ req'[r] # Idle)}

------------------------------------------------------------------------------
Init ==
  /\ account \in [Users -> {[deleted |-> FALSE, active |-> TRUE,
                             blocked |-> FALSE, hash |-> p] : p \in Passwords}]
  /\ session = [s \in Sids |-> FreeSession]
  /\ reset = [q \in Rids |-> FreeReset]
  /\ req = [r \in Reqs |-> Idle]
  /\ wasEnabled = {} /\ wasGood = {} /\ wasRaced = {}
  /\ raced = {}

Call(r) ==
  \/ StartLogin(r) \/ StartRefresh(r) \/ StartLogout(r)
  \/ StartChangePassword(r) \/ StartAccountOp(r) \/ StartResetOp(r)
  \/ StartApproveRegistration(r)

Statement(r) ==
  \/ FindUser(r) \/ FindTemp(r) \/ BuildSessionResponse(r) \/ CreateRefreshSession(r)
  \/ FindSession(r) \/ RevokePresented(r)
  \/ FindByIdWithHash(r) \/ AssertUserExists(r) \/ WriteHash(r)
  \/ RevokeRefreshSessions(r) \/ SetFlag(r) \/ MarkUsed(r)
  \/ ExpireStale(r) \/ FindRequester(r) \/ FindOpenRequest(r) \/ CreateResetRequest(r)
  \/ ReadRequest(r) \/ ApproveResetRequest(r) \/ RejectResetRequest(r)
  \/ FindLiveAccount(r) \/ FindDeletedAccount(r) \/ ReviveAccount(r)

Environment ==
  \/ \E s \in Sids : SessionExpires(s)
  \/ \E q \in Rids : ResetRequestExpires(q) \/ TempPasswordExpires(q)

Next ==
  /\ \/ \E r \in Reqs : Call(r) \/ Statement(r) \/ Fail(r)
     \/ Environment
  /\ Observe

Spec == Init /\ [][Next]_vars

------------------------------------------------------------------------------
(* Properties *)

(* Every row and every handler has the shape the code gives it.            *)
TypeOK ==
  /\ account \in [Users -> Accounts]
  /\ session \in [Sids -> Sessions]
  /\ reset \in [Rids -> Resets]
  /\ req \in [Reqs -> Handlers]
  /\ wasEnabled \subseteq Reqs /\ wasGood \subseteq Reqs /\ wasRaced \subseteq Reqs
  /\ raced \subseteq Sids

(* A session is granted, and a password changed, only by a request whose   *)
(* secret was good at some moment of that request, and a session only to   *)
(* an account that was enabled at some moment of it: nothing that was      *)
(* withdrawn before the request began is ever honoured, however its checks *)
(* interleave with other handlers (login, refresh, changePassword).        *)
GrantedWithinWindow ==
  \A r \in Reqs :
    /\ At(r, "insert") => r \in wasEnabled /\ r \in wasGood
    /\ At(r, "writeHash") /\ req[r].op = "changePassword" => r \in wasGood

(* A refresh token and the token it was exchanged for are never usable     *)
(* together, nor is one of them later the only one left by a failed        *)
(* rotation: refresh revokes before it grants.                             *)
ParentRetired ==
  \A s \in Sids : session[s].parent # None => session[session[s].parent].status = "revoked"

(* deactivate, block and softDelete revoke first and disable afterwards.   *)
(* A session that is still live on a disabled account was granted by a     *)
(* login or refresh that overlapped the disabling, and by no other.        *)
SurvivorsRaced ==
  \A s \in Sids : session[s].status = "live" /\ ~Enabled(session[s].user) => s \in raced

(* The session table without its clock.                                    *)
LedgerView == [s \in Sids |-> [phase |-> session[s].status, user |-> session[s].user,
                               parent |-> session[s].parent]]

Ledger == INSTANCE SessionLedger WITH ledger <- LedgerView

(* Every behaviour of the handlers is one of the ledger: sessions are      *)
(* granted once, to one user, in exchange for a retired session of that    *)
(* user, and a revoked session is never live again.                        *)
ImplementsLedger == Ledger!LedgerSpec

------------------------------------------------------------------------------
(* What the code says, and the handlers do not keep *)

(* auth.service.ts 651: a request that is not PENDING is not available to  *)
(* the administrator.  What one administrator has rejected stays rejected. *)
RejectionsStand ==
  [][\A q \in Rids : reset[q].status = "REJECTED" => reset'[q].status = "REJECTED"]_vars
==============================================================================
