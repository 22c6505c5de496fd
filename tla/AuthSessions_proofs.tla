------------------------- MODULE AuthSessions_proofs -------------------------
(***************************************************************************)
(* Proofs about AuthSessions, for every set of users, passwords, sessions, *)
(* reset requests, handler slots and operations.                           *)
(*                                                                         *)
(* IInv adds to the properties what a handler carries at each statement    *)
(* (ControlOK), that presented tokens were granted (TokenOK), that the     *)
(* history sets hold what is true now (WindowOK), and what they must hold  *)
(* when a handler is about to grant (GrantOK, RaceOK).  Two lemmas carry   *)
(* the step: Advances (how a statement moves its handler) and              *)
(* SessionEffect (the four things a step can do to the session table).     *)
(***************************************************************************)
EXTENDS AuthSessions, TLAPS

UserOps == AccountOps \union {"login", "refresh", "logout", "changePassword",
                               "approveRegistration"}

(* What a handler carries, by its operation.                               *)
DataOK(h) ==
  /\ h.op \in UserOps => h.user \in Users
  /\ h.op \in {"changePassword", "resetPassword", "approveRegistration"} => h.new \in Passwords
  /\ h.op = "login" => h.sid = None
  /\ h.op \in {"refresh", "logout"} => h.sid \in Sids
  /\ h.op \in {"approveReset", "rejectReset"} => h.rid \in Rids

(* The operations a statement belongs to.                                  *)
StepOK(op, at) ==
  /\ at = "findUser" => op = "login"
  /\ at \in {"findSession", "revokeForged"} => op = "refresh"
  /\ at = "revokePresented" => op \in {"refresh", "logout"}
  /\ at = "findTemp" => op \in {"login", "changePassword"}
  /\ at \in {"build", "insert"} => op \in {"login", "refresh"}
  /\ at \in {"findHash", "markUsed"} => op = "changePassword"
  /\ at = "writeHash" => op \in {"changePassword", "resetPassword"}
  /\ at = "assertUser" => op \in AccountOps
  /\ at = "setFlag" => op \in AccountOps \ {"resetPassword"}
  /\ at \in {"findLive", "findDeleted", "revive"} => op = "approveRegistration"
  /\ at = "expireStale" => op \in ResetOps \union {"login", "changePassword"}
  /\ at = "readRequest" => op \in {"approveReset", "rejectReset"}
  /\ at = "approve" => op = "approveReset"
  /\ at = "reject" => op = "rejectReset"
  /\ at = "revokeAll" => op \in Disabling \union {"changePassword", "resetPassword",
                                               "approveReset", "approveRegistration"}
  /\ at \in {"findRequester", "findOpen", "createRequest"} => op = "requestReset"

HandlerOK(h) == DataOK(h) /\ StepOK(h.op, h.at)

(* A row of the session table is either unused or belongs to a user.       *)
SessionOK == \A s \in Sids : /\ session[s].status = "free" => session[s] = FreeSession
                             /\ session[s].status # "free" => session[s].user \in Users

ControlOK == \A r \in Reqs : HandlerOK(req[r])

LEMMA IdleType == Idle \in Handlers
  BY DEF Idle, Handlers, Steps

LEMMA GotoType ==
  ASSUME TypeOK, NEW r \in Reqs, NEW step \in Steps, Goto(r, step)
  PROVE  req' \in [Reqs -> Handlers]
  <1>1. req[r] \in Handlers
    BY DEF TypeOK
  <1>2. [req[r] EXCEPT !.at = step] \in Handlers
    BY <1>1 DEF Handlers
  <1> QED
    BY <1>2 DEF TypeOK, Goto

LEMMA FinishType ==
  ASSUME TypeOK, NEW r \in Reqs, Finish(r)
  PROVE  req' \in [Reqs -> Handlers]
  BY IdleType DEF TypeOK, Finish

LEMMA ObserveType ==
  ASSUME Observe
  PROVE  /\ wasEnabled' \subseteq Reqs 
         /\ wasGood' \subseteq Reqs /\ wasRaced' \subseteq Reqs
  BY DEF Observe

LEMMA RevokedType ==
  ASSUME TypeOK, NEW S
  PROVE  Revoked(S) \in [Sids -> Sessions]
  BY DEF TypeOK, Revoked, Sessions

LEMMA StartType ==
  ASSUME TypeOK, NEW r \in Reqs, NEW op \in OpNames, NEW step \in Steps,
         NEW u \in Users \union {None}, NEW p \in Passwords \union {None},
         NEW n \in Passwords \union {None}, NEW s \in Sids \union {None},
         NEW q \in Rids \union {None}, Start(r, op, step, u, p, n, s, q)
  PROVE  req' \in [Reqs -> Handlers]
  BY DEF TypeOK, Start, Handlers

LEMMA RowTypes ==
  /\ FreeSession \in Sessions
  /\ FreeReset \in Resets
  BY DEF FreeSession, Sessions, FreeReset, Resets

(* What a statement that moves on or returns does to the handlers.         *)
Moves(r) == Finish(r) \/ \E step \in Steps : Goto(r, step)

LEMMA MovesType ==
  ASSUME TypeOK, NEW r \in Reqs, Moves(r)
  PROVE  req' \in [Reqs -> Handlers]
  BY GotoType, FinishType DEF Moves

LEMMA CallType ==
  ASSUME TypeOK, NEW r \in Reqs, Call(r)
  PROVE  /\ req' \in [Reqs -> Handlers]
         /\ UNCHANGED <<account, session, reset, raced>>
  <1>0. USE DEF OpNames, AccountOps, ResetOps, Disabling, Steps
  <1>1. CASE StartLogin(r)
    BY <1>1, StartType DEF StartLogin
  <1>2. CASE StartRefresh(r)
    BY <1>2, StartType DEF StartRefresh, TypeOK, Sessions
  <1>3. CASE StartLogout(r)
    BY <1>3, StartType DEF StartLogout, TypeOK, Sessions
  <1>4. CASE StartChangePassword(r)
    BY <1>4, StartType DEF StartChangePassword
  <1>5. CASE StartAccountOp(r)
    BY <1>5, StartType DEF StartAccountOp
  <1>6. CASE StartResetOp(r)
    BY <1>6, StartType DEF StartResetOp
  <1>7. CASE StartApproveRegistration(r)
    BY <1>7, StartType DEF StartApproveRegistration
  <1> QED BY <1>1, <1>2, <1>3, <1>4, <1>5, <1>6, <1>7 DEF Call

Unwritten == UNCHANGED <<account, session, reset, raced>>

LEMMA StatementType ==
  ASSUME TypeOK, ControlOK, NEW r \in Reqs, Statement(r)
  PROVE  /\ req' \in [Reqs -> Handlers]
         /\ account' \in [Users -> Accounts]
         /\ session' \in [Sids -> Sessions]
         /\ reset' \in [Rids -> Resets]
         /\ raced' \subseteq Sids
  <1> USE DEF Steps
  <1>h. req[r] \in Handlers /\ HandlerOK(req[r])
    BY DEF TypeOK, ControlOK
  <1>1. CASE FindUser(r)
    BY <1>1, MovesType DEF FindUser, TypeOK, Moves
  <1>2. CASE FindTemp(r)
    BY <1>2, MovesType DEF FindTemp, TypeOK, Moves
  <1>3. CASE BuildSessionResponse(r)
    BY <1>3, MovesType DEF BuildSessionResponse, TypeOK, Moves
  <1>4. CASE CreateRefreshSession(r)
    <2>1. session' \in [Sids -> Sessions]
      BY <1>h, <1>4 DEF CreateRefreshSession, TypeOK, Sessions, Handlers
    <2> QED BY <2>1, <1>4, FinishType DEF CreateRefreshSession, TypeOK
  <1>5. CASE FindSession(r)
    BY <1>5, MovesType DEF FindSession, TypeOK, Moves
  <1>6. CASE RevokePresented(r)
    BY <1>6, MovesType, RevokedType DEF RevokePresented, TypeOK, Moves
  <1>7. CASE FindByIdWithHash(r)
    BY <1>7, MovesType DEF FindByIdWithHash, TypeOK, Moves
  <1>8. CASE AssertUserExists(r)
    BY <1>8, MovesType DEF AssertUserExists, TypeOK, Moves
  <1>9. CASE WriteHash(r)
    <2>1. req[r].new \in Passwords
      BY <1>9, <1>h DEF WriteHash, HandlerOK, DataOK, StepOK, At
    <2>2. account' \in [Users -> Accounts]
      BY <1>9, <2>1 DEF WriteHash, TypeOK, Accounts
    <2> QED BY <1>9, <2>2, MovesType DEF WriteHash, TypeOK, Moves
  <1>10. CASE RevokeRefreshSessions(r)
    BY <1>10, MovesType, RevokedType DEF RevokeRefreshSessions, TypeOK, Moves
  <1>11. CASE SetFlag(r)
    <2>1. ASSUME NEW row \in Accounts, NEW op
          PROVE  Flagged(row, op) \in Accounts
      BY DEF Flagged, Accounts
    <2>2. account' \in [Users -> Accounts]
      BY <1>11, <2>1 DEF SetFlag, TypeOK
    <2> QED BY <1>11, <2>2, FinishType DEF SetFlag, TypeOK
  <1>12. CASE MarkUsed(r)
    <2>1. ASSUME NEW row \in Resets
          PROVE  [row EXCEPT !.status = "USED", !.temp = None] \in Resets
      BY DEF Resets, ResetStatus
    <2>2. reset' \in [Rids -> Resets]
      BY <1>12, <2>1 DEF MarkUsed, TypeOK
    <2> QED BY <1>12, <2>2, FinishType DEF MarkUsed, TypeOK
  <1>13. CASE ExpireStale(r)
    <2>2. reset' \in [Rids -> Resets]
      BY <1>13 DEF ExpireStale, TypeOK, Resets, ResetStatus
    <2> QED BY <1>13, <2>2, MovesType DEF ExpireStale, TypeOK, Moves
  <1>14. CASE FindRequester(r)
    BY <1>14, MovesType DEF FindRequester, TypeOK, Moves
  <1>15. CASE FindOpenRequest(r)
    BY <1>15, MovesType DEF FindOpenRequest, TypeOK, Moves
  <1>16. CASE CreateResetRequest(r)
    <2>2. reset' \in [Rids -> Resets]
      BY <1>16, <1>h DEF CreateResetRequest, TypeOK, Resets, ResetStatus, Handlers
    <2> QED BY <1>16, <2>2, FinishType DEF CreateResetRequest, TypeOK
  <1>17. CASE ReadRequest(r)
    <2>1. reset[req[r].rid].user \in Users \union {None} /\ req[r].rid \in Rids
      BY <1>17, <1>h DEF ReadRequest, HandlerOK, DataOK, StepOK, TypeOK, Resets, At
    <2>2. ASSUME NEW t \in Temps,
                 req' = [req EXCEPT ![r] = [@ EXCEPT !.at = "approve",
                           !.user = reset[req[r].rid].user, !.new = t]]
          PROVE  req' \in [Reqs -> Handlers]
      <3>1. t \in Passwords
        BY AuthAssumption
      <3>2. [req[r] EXCEPT !.at = "approve", !.user = reset[req[r].rid].user, !.new = t]
              \in Handlers
        BY <1>h, <2>1, <3>1 DEF Handlers
      <3> QED BY <2>2, <3>2 DEF TypeOK
    <2> QED BY <1>17, <2>2, MovesType DEF ReadRequest, TypeOK, Moves
  <1>18. CASE ApproveResetRequest(r)
    <2>0. req[r].new \in Passwords \union {None}
      BY <1>h DEF Handlers
    <2>1. ASSUME NEW row \in Resets
          PROVE  [row EXCEPT !.status = "APPROVED", !.temp = req[r].new, !.tempDue = FALSE]
                   \in Resets
      BY <2>0 DEF Resets, ResetStatus
    <2>2. reset' \in [Rids -> Resets]
      BY <1>18, <2>1 DEF ApproveResetRequest, TypeOK
    <2> QED BY <1>18, <2>2, MovesType DEF ApproveResetRequest, TypeOK, Moves
  <1>19. CASE RejectResetRequest(r)
    <2>1. ASSUME NEW row \in Resets
          PROVE  [row EXCEPT !.status = "REJECTED"] \in Resets
      BY DEF Resets, ResetStatus
    <2>2. reset' \in [Rids -> Resets]
      BY <1>19, <2>1 DEF RejectResetRequest, TypeOK
    <2> QED BY <1>19, <2>2, FinishType DEF RejectResetRequest, TypeOK
  <1>20. CASE FindLiveAccount(r)
    BY <1>20, MovesType DEF FindLiveAccount, TypeOK, Moves
  <1>21. CASE FindDeletedAccount(r)
    BY <1>21, MovesType DEF FindDeletedAccount, TypeOK, Moves
  <1>22. CASE ReviveAccount(r)
    <2>1. req[r].new \in Passwords
      BY <1>22, <1>h DEF ReviveAccount, HandlerOK, DataOK, StepOK, At
    <2>2. account' \in [Users -> Accounts]
      BY <1>22, <2>1 DEF ReviveAccount, TypeOK, Accounts
    <2> QED BY <1>22, <2>2, MovesType DEF ReviveAccount, TypeOK, Moves
  <1> QED
    BY <1>1, <1>2, <1>3, <1>4, <1>5, <1>6, <1>7, <1>8, <1>9, <1>10, <1>11, <1>12,
       <1>13, <1>14, <1>15, <1>16, <1>17, <1>18, <1>19, <1>20, <1>21, <1>22 DEF Statement

LEMMA TypeStep ==
  ASSUME TypeOK, ControlOK, [Next]_vars
  PROVE  TypeOK'
  <1>1. CASE Next
    <2>o. wasEnabled' \subseteq Reqs /\ wasGood' \subseteq Reqs /\ wasRaced' \subseteq Reqs
      BY <1>1, ObserveType DEF Next
    <2>1. ASSUME NEW r \in Reqs, Call(r)
          PROVE  TypeOK'
      BY <2>o, <2>1, CallType DEF TypeOK
    <2>2. ASSUME NEW r \in Reqs, Statement(r)
          PROVE  TypeOK'
      BY <2>o, <2>2, StatementType DEF TypeOK
    <2>3. ASSUME NEW r \in Reqs, Fail(r)
          PROVE  TypeOK'
      BY <2>o, <2>3, FinishType DEF TypeOK, Fail
    <2>4. ASSUME NEW s \in Sids, SessionExpires(s)
          PROVE  TypeOK'
      BY <2>o, <2>4 DEF TypeOK, SessionExpires, Sessions
    <2>5. ASSUME NEW q \in Rids, ResetRequestExpires(q) \/ TempPasswordExpires(q)
          PROVE  TypeOK'
      <3>1. ASSUME NEW row \in Resets
            PROVE  [row EXCEPT !.due = TRUE] \in Resets /\ [row EXCEPT !.tempDue = TRUE] \in Resets
        BY DEF Resets
      <3>2. reset' \in [Rids -> Resets]
        <4>1. CASE ResetRequestExpires(q)
          BY <3>1, <4>1 DEF TypeOK, ResetRequestExpires
        <4>2. CASE TempPasswordExpires(q)
          BY <3>1, <4>2 DEF TypeOK, TempPasswordExpires
        <4> QED BY <2>5, <4>1, <4>2
      <3>3. UNCHANGED <<account, session, req, raced>>
        BY <2>5 DEF ResetRequestExpires, TempPasswordExpires
      <3> QED BY <2>o, <3>2, <3>3 DEF TypeOK
    <2> QED BY <1>1, <2>1, <2>2, <2>3, <2>4, <2>5 DEF Next, Environment
  <1>2. CASE UNCHANGED vars
    BY <1>2 DEF vars, TypeOK
  <1> QED BY <1>1, <1>2

(* The control of a handler is what its operation allows.                  *)
LEMMA ControlStart ==
  ASSUME TypeOK, ControlOK, SessionOK, NEW r \in Reqs, Call(r)
  PROVE  ControlOK'
  <1> USE DEF OpNames, AccountOps, ResetOps, Disabling, UserOps
  <1>s. SUFFICES ASSUME NEW x \in Reqs
                 PROVE  HandlerOK(req'[x])
    BY DEF ControlOK
  <1>o. x # r => req'[x] = req[x] /\ HandlerOK(req[x])
    BY DEF Call, StartLogin, StartRefresh, StartLogout, StartChangePassword, StartAccountOp,
           StartResetOp, StartApproveRegistration, Start, TypeOK, ControlOK
  <1>n. ASSUME x = r PROVE HandlerOK(req'[r])
    <2>1. CASE StartLogin(r)
      BY <2>1 DEF StartLogin, Start, TypeOK, HandlerOK, DataOK, StepOK, SessionOK
    <2>2. CASE StartRefresh(r)
      BY <2>2 DEF StartRefresh, Start, TypeOK, HandlerOK, DataOK, StepOK, SessionOK
    <2>3. CASE StartLogout(r)
      BY <2>3 DEF StartLogout, Start, TypeOK, HandlerOK, DataOK, StepOK, SessionOK
    <2>4. CASE StartChangePassword(r)
      BY <2>4 DEF StartChangePassword, Start, TypeOK, HandlerOK, DataOK, StepOK, SessionOK
    <2>5. CASE StartAccountOp(r)
      BY <2>5 DEF StartAccountOp, Start, TypeOK, HandlerOK, DataOK, StepOK, SessionOK
    <2>6. CASE StartResetOp(r)
      BY <2>6 DEF StartResetOp, Start, TypeOK, HandlerOK, DataOK, StepOK, SessionOK
    <2>7. CASE StartApproveRegistration(r)
      BY <2>7 DEF StartApproveRegistration, Start, TypeOK, HandlerOK, DataOK, StepOK, SessionOK
    <2> QED BY <2>1, <2>2, <2>3, <2>4, <2>5, <2>6, <2>7 DEF Call
  <1> QED BY <1>o, <1>n

LEMMA GotoControl ==
  ASSUME TypeOK, ControlOK, NEW r \in Reqs, NEW step \in Steps, Goto(r, step),
         StepOK(req[r].op, step)
  PROVE  ControlOK'
  <1>1. req' = [req EXCEPT ![r] = [req[r] EXCEPT !.at = step]]
    BY DEF Goto
  <1>2. req[r] \in Handlers /\ DataOK(req[r])
    BY DEF TypeOK, ControlOK, HandlerOK
  <1>3. HandlerOK([req[r] EXCEPT !.at = step])
    BY <1>2 DEF HandlerOK, DataOK, Handlers
  <1> QED BY <1>1, <1>3 DEF ControlOK, TypeOK

LEMMA FinishControl ==
  ASSUME TypeOK, ControlOK, NEW r \in Reqs, Finish(r)
  PROVE  ControlOK'
  <1>1. HandlerOK(Idle)
    BY DEF HandlerOK, DataOK, StepOK, Idle, UserOps, AccountOps, Disabling
  <1> QED BY <1>1 DEF ControlOK, TypeOK, Finish

LEMMA ControlStatement ==
  ASSUME TypeOK, ControlOK, NEW r \in Reqs, Statement(r)
  PROVE  ControlOK'
  <1> USE GotoControl, FinishControl DEF Steps, AccountOps, ResetOps, Disabling
  <1>h. req[r] \in Handlers /\ StepOK(req[r].op, req[r].at)
    BY DEF TypeOK, ControlOK, HandlerOK
  <1>1. CASE FindUser(r)
    BY <1>1, <1>h DEF FindUser, StepOK, At
  <1>2. CASE FindTemp(r)
    BY <1>2, <1>h DEF FindTemp, StepOK, At
  <1>3. CASE BuildSessionResponse(r)
    BY <1>3, <1>h DEF BuildSessionResponse, StepOK, At
  <1>4. CASE CreateRefreshSession(r)
    BY <1>4 DEF CreateRefreshSession
  <1>5. CASE FindSession(r)
    BY <1>5, <1>h DEF FindSession, StepOK, At
  <1>6. CASE RevokePresented(r)
    BY <1>6, <1>h DEF RevokePresented, StepOK, At
  <1>7. CASE FindByIdWithHash(r)
    BY <1>7, <1>h DEF FindByIdWithHash, StepOK, At
  <1>8. CASE AssertUserExists(r)
    BY <1>8, <1>h DEF AssertUserExists, StepOK, At
  <1>9. CASE WriteHash(r)
    BY <1>9, <1>h DEF WriteHash, StepOK, At
  <1>10. CASE RevokeRefreshSessions(r)
    BY <1>10, <1>h DEF RevokeRefreshSessions, StepOK, At
  <1>11. CASE SetFlag(r)
    BY <1>11 DEF SetFlag
  <1>12. CASE MarkUsed(r)
    BY <1>12 DEF MarkUsed
  <1>13. CASE ExpireStale(r)
    BY <1>13, <1>h DEF ExpireStale, StepOK, At
  <1>14. CASE FindRequester(r)
    BY <1>14, <1>h DEF FindRequester, StepOK, At
  <1>15. CASE FindOpenRequest(r)
    BY <1>15, <1>h DEF FindOpenRequest, StepOK, At
  <1>16. CASE CreateResetRequest(r)
    BY <1>16 DEF CreateResetRequest
  <1>17. CASE ReadRequest(r)
    <2>1. ASSUME NEW t \in Temps, NEW u, req[r].op # "rejectReset",
                 req' = [req EXCEPT ![r] = [@ EXCEPT !.at = "approve", !.user = u, !.new = t]]
          PROVE  ControlOK'
      <3>1. req[r].op = "approveReset" /\ DataOK(req[r])
        BY <1>h, <1>17, <2>1 DEF ReadRequest, StepOK, At, ControlOK, HandlerOK
      <3>2. HandlerOK([req[r] EXCEPT !.at = "approve", !.user = u, !.new = t])
        BY <1>h, <3>1 DEF HandlerOK, DataOK, StepOK, UserOps, Handlers
      <3> QED BY <2>1, <3>2 DEF ControlOK, TypeOK
    <2> QED BY <1>17, <1>h, <2>1 DEF ReadRequest, StepOK, At
  <1>18. CASE ApproveResetRequest(r)
    BY <1>18, <1>h DEF ApproveResetRequest, StepOK, At
  <1>19. CASE RejectResetRequest(r)
    BY <1>19 DEF RejectResetRequest
  <1>20. CASE FindLiveAccount(r)
    BY <1>20, <1>h DEF FindLiveAccount, StepOK, At
  <1>21. CASE FindDeletedAccount(r)
    BY <1>21, <1>h DEF FindDeletedAccount, StepOK, At
  <1>22. CASE ReviveAccount(r)
    BY <1>22, <1>h DEF ReviveAccount, StepOK, At
  <1> QED
    BY <1>1, <1>2, <1>3, <1>4, <1>5, <1>6, <1>7, <1>8, <1>9, <1>10, <1>11, <1>12,
       <1>13, <1>14, <1>15, <1>16, <1>17, <1>18, <1>19, <1>20, <1>21, <1>22 DEF Statement

(* How a statement moves its handler: it returns, or goes on with the same *)
(* operation and the same token and password.  Only the steps named lead   *)
(* to the steps the invariants speak of.                                   *)
Advances(r) ==
  /\ \A x \in Reqs \ {r} : req'[x] = req[x]
  /\ \/ req'[r] = Idle
     \/ /\ req'[r].op = req[r].op
        /\ req'[r].sid = req[r].sid
        /\ req'[r].pw = req[r].pw
        /\ req[r].op # "approveReset" => req'[r].user = req[r].user
        /\ req'[r].at = "insert" => BuildSessionResponse(r) /\ Enabled(req[r].user)
        /\ req'[r].at = "build" =>
             \/ FindUser(r) /\ CredentialGood(r)
             \/ FindTemp(r) /\ CredentialGood(r)
             \/ RevokePresented(r) /\ At(r, "revokePresented")
        /\ req'[r].at = "writeHash" =>
             \/ FindByIdWithHash(r) /\ CredentialGood(r)
             \/ FindTemp(r) /\ CredentialGood(r)
             \/ req[r].op = "resetPassword"
        /\ req'[r].at = "revokePresented" => CredentialGood(r)
        /\ req'[r].at = "setFlag" => \/ req[r].op \notin Disabling
                                    \/ RevokeRefreshSessions(r)

LEMMA GotoFrame ==
  ASSUME TypeOK, NEW r \in Reqs, NEW step \in Steps, Goto(r, step)
  PROVE  /\ \A x \in Reqs \ {r} : req'[x] = req[x]
         /\ req'[r].op = req[r].op
         /\ req'[r].at = step
         /\ req'[r].sid = req[r].sid
         /\ req'[r].pw = req[r].pw
         /\ req'[r].user = req[r].user
  <1>1. req[r] \in Handlers
    BY DEF TypeOK
  <1> QED BY <1>1 DEF Goto, TypeOK, Handlers

LEMMA FinishFrame ==
  ASSUME TypeOK, NEW r \in Reqs, Finish(r)
  PROVE  Advances(r)
  BY DEF Finish, TypeOK, Advances

LEMMA StatementAdvances ==
  ASSUME TypeOK, ControlOK, NEW r \in Reqs, Statement(r)
  PROVE  Advances(r)
  <1> USE GotoFrame, FinishFrame DEF Steps, AccountOps, ResetOps, Disabling
  <1>h. req[r] \in Handlers /\ StepOK(req[r].op, req[r].at)
    BY DEF TypeOK, ControlOK, HandlerOK
  <1>1. CASE FindUser(r)
    BY <1>1, <1>h DEF FindUser, StepOK, At, Advances, CredentialGood
  <1>2. CASE FindTemp(r)
    BY <1>2, <1>h DEF FindTemp, StepOK, At, Advances, CredentialGood
  <1>3. CASE BuildSessionResponse(r)
    BY <1>3, <1>h DEF BuildSessionResponse, StepOK, At, Advances
  <1>4. CASE CreateRefreshSession(r)
    BY <1>4 DEF CreateRefreshSession
  <1>5. CASE FindSession(r)
    BY <1>5, <1>h DEF FindSession, StepOK, At, Advances, CredentialGood
  <1>6. CASE RevokePresented(r)
    BY <1>6, <1>h DEF RevokePresented, StepOK, At, Advances
  <1>7. CASE FindByIdWithHash(r)
    BY <1>7, <1>h DEF FindByIdWithHash, StepOK, At, Advances, CredentialGood
  <1>8. CASE AssertUserExists(r)
    BY <1>8, <1>h DEF AssertUserExists, StepOK, At, Advances
  <1>9. CASE WriteHash(r)
    BY <1>9, <1>h DEF WriteHash, StepOK, At, Advances
  <1>10. CASE RevokeRefreshSessions(r)
    BY <1>10, <1>h DEF RevokeRefreshSessions, StepOK, At, Advances
  <1>11. CASE SetFlag(r)
    BY <1>11 DEF SetFlag
  <1>12. CASE MarkUsed(r)
    BY <1>12 DEF MarkUsed
  <1>13. CASE ExpireStale(r)
    BY <1>13, <1>h DEF ExpireStale, StepOK, At, Advances
  <1>14. CASE FindRequester(r)
    BY <1>14, <1>h DEF FindRequester, StepOK, At, Advances
  <1>15. CASE FindOpenRequest(r)
    BY <1>15, <1>h DEF FindOpenRequest, StepOK, At, Advances
  <1>16. CASE CreateResetRequest(r)
    BY <1>16 DEF CreateResetRequest
  <1>17. CASE ReadRequest(r)
    <2>1. ASSUME NEW t, NEW u, req[r].op # "rejectReset",
                 req' = [req EXCEPT ![r] = [@ EXCEPT !.at = "approve", !.user = u, !.new = t]]
          PROVE  Advances(r)
      <3>1. req[r].op = "approveReset"
        BY <1>h, <1>17, <2>1 DEF ReadRequest, StepOK, At
      <3>2. req'[r] = [req[r] EXCEPT !.at = "approve", !.user = u, !.new = t]
        BY <2>1 DEF TypeOK
      <3>3. /\ req'[r].op = req[r].op /\ req'[r].sid = req[r].sid
            /\ req'[r].pw = req[r].pw /\ req'[r].at = "approve"
        BY <1>h, <3>2 DEF Handlers
      <3> QED BY <2>1, <3>1, <3>3 DEF TypeOK, Advances
    <2>2. ASSUME Goto(r, "reject")
          PROVE  Advances(r)
      BY <2>2, GotoFrame DEF Advances
    <2>3. ASSUME Finish(r)
          PROVE  Advances(r)
      BY <2>3, FinishFrame
    <2> QED BY ONLY <1>17, <2>1, <2>2, <2>3 DEF ReadRequest
  <1>18. CASE ApproveResetRequest(r)
    BY <1>18, <1>h DEF ApproveResetRequest, StepOK, At, Advances
  <1>19. CASE RejectResetRequest(r)
    BY <1>19 DEF RejectResetRequest
  <1>20. CASE FindLiveAccount(r)
    BY <1>20, <1>h DEF FindLiveAccount, StepOK, At, Advances
  <1>21. CASE FindDeletedAccount(r)
    BY <1>21, <1>h DEF FindDeletedAccount, StepOK, At, Advances
  <1>22. CASE ReviveAccount(r)
    BY <1>22, <1>h DEF ReviveAccount, StepOK, At, Advances
  <1> QED
    BY <1>1, <1>2, <1>3, <1>4, <1>5, <1>6, <1>7, <1>8, <1>9, <1>10, <1>11, <1>12,
       <1>13, <1>14, <1>15, <1>16, <1>17, <1>18, <1>19, <1>20, <1>21, <1>22 DEF Statement

(* What a step does to the session table.                                  *)
Inserts(r, s) ==
  /\ At(r, "insert")
  /\ Finish(r)
  /\ session[s] = FreeSession
  /\ session' = [session EXCEPT ![s] = [status |-> "live", expired |-> FALSE,
                                       user |-> req[r].user, parent |-> req[r].sid]]
  /\ raced' = IF r \in wasRaced THEN raced \union {s} ELSE raced
  /\ UNCHANGED account

SessionEffect ==
  \/ raced' = raced /\ session' = session
  \/ raced' = raced /\ \E S \in SUBSET Sids : session' = Revoked(S)
  \/ \E r \in Reqs, s \in Sids : Inserts(r, s)
  \/ \E s \in Sids : SessionExpires(s)

LEMMA StatementEffect ==
  ASSUME TypeOK, ControlOK, NEW r \in Reqs, Statement(r)
  PROVE  SessionEffect
  <1>h. req[r] \in Handlers /\ HandlerOK(req[r])
    BY DEF TypeOK, ControlOK
  <1>1. CASE CreateRefreshSession(r)
    BY <1>1 DEF CreateRefreshSession, Inserts, SessionEffect
  <1>2. CASE RevokePresented(r)
    <2>1. req[r].sid \in Sids
      BY <1>2, <1>h DEF RevokePresented, HandlerOK, DataOK, StepOK
    <2> QED BY <1>2, <2>1 DEF RevokePresented, SessionEffect
  <1>3. CASE RevokeRefreshSessions(r)
    <2>1. SessionsOf(req[r].user) \subseteq Sids
      BY DEF SessionsOf
    <2> QED BY <1>3, <2>1 DEF RevokeRefreshSessions, SessionEffect
  <1>4. CASE ~(CreateRefreshSession(r) \/ RevokePresented(r) \/ RevokeRefreshSessions(r))
    <2>1. raced' = raced /\ session' = session
      BY <1>4 DEF Statement, FindUser, FindTemp, BuildSessionResponse, FindSession,
         FindByIdWithHash, AssertUserExists, WriteHash, SetFlag, MarkUsed, ExpireStale,
         FindRequester, FindOpenRequest, CreateResetRequest, ReadRequest,
         ApproveResetRequest, RejectResetRequest, FindLiveAccount, FindDeletedAccount,
         ReviveAccount
    <2> QED BY <2>1 DEF SessionEffect
  <1> QED BY <1>1, <1>2, <1>3, <1>4

LEMMA Effect ==
  ASSUME TypeOK, ControlOK, Next
  PROVE  SessionEffect
  <1>1. ASSUME NEW r \in Reqs, Call(r)
        PROVE  SessionEffect
    BY <1>1, CallType DEF SessionEffect
  <1>2. ASSUME NEW r \in Reqs, Fail(r)
        PROVE  SessionEffect
    BY <1>2 DEF SessionEffect, Fail
  <1>3. ASSUME Environment
        PROVE  SessionEffect
    BY <1>3 DEF Environment, SessionEffect, ResetRequestExpires, TempPasswordExpires
  <1> QED BY <1>1, <1>2, <1>3, StatementEffect DEF Next

(* Once granted, a session keeps its user and parent, and once revoked it  *)
(* stays revoked; only an insert takes a row out of "free".                *)
LEMMA Monotone ==
  ASSUME TypeOK, SessionOK, SessionEffect, NEW s \in Sids
  PROVE  /\ session[s].status # "free" => /\ session'[s].status # "free"
                                          /\ session'[s].user = session[s].user
                                          /\ session'[s].parent = session[s].parent
         /\ session[s].status = "revoked" => session'[s].status = "revoked"
  <1>0. session[s] \in Sessions
    BY DEF TypeOK
  <1>1. CASE session' = session
    BY <1>1
  <1>2. CASE \E S \in SUBSET Sids : session' = Revoked(S)
    BY <1>0, <1>2 DEF Revoked, Sessions
  <1>3. CASE \E r \in Reqs, x \in Sids : Inserts(r, x)
    <2>1. PICK r \in Reqs, x \in Sids : Inserts(r, x)
      BY <1>3
    <2>2. CASE x = s
      BY <2>1, <2>2 DEF Inserts, FreeSession
    <2>3. CASE x # s
      BY <2>1, <2>3 DEF Inserts, TypeOK
    <2> QED BY <2>2, <2>3
  <1>4. CASE \E x \in Sids : SessionExpires(x)
    BY <1>0, <1>4 DEF SessionExpires, TypeOK, Sessions
  <1> QED BY <1>1, <1>2, <1>3, <1>4 DEF SessionEffect

LEMMA SessionOKStep ==
  ASSUME TypeOK, ControlOK, SessionOK, SessionEffect
  PROVE  SessionOK'
  <1>1. SUFFICES ASSUME NEW s \in Sids
                 PROVE  /\ session'[s].status = "free" => session'[s] = FreeSession
                        /\ session'[s].status # "free" => session'[s].user \in Users
    BY DEF SessionOK
  <1>0. session[s] \in Sessions
    BY DEF TypeOK
  <1>2. CASE session' = session
    BY <1>2 DEF SessionOK
  <1>3. CASE \E S \in SUBSET Sids : session' = Revoked(S)
    BY <1>0, <1>3 DEF Revoked, Sessions, SessionOK
  <1>4. CASE \E r \in Reqs, x \in Sids : Inserts(r, x)
    <2>1. PICK r \in Reqs, x \in Sids : Inserts(r, x)
      BY <1>4
    <2>2. req[r].user \in Users
      BY <2>1 DEF Inserts, At, ControlOK, HandlerOK, DataOK, StepOK, UserOps
    <2> QED BY <2>1, <2>2 DEF Inserts, TypeOK, SessionOK
  <1>5. CASE \E x \in Sids : SessionExpires(x)
    BY <1>0, <1>5 DEF SessionExpires, TypeOK, Sessions, SessionOK
  <1> QED BY <1>2, <1>3, <1>4, <1>5 DEF SessionEffect

(* The token a handler presents is one the server granted to its user, and *)
(* a refresh that is past its revocation holds a revoked one.              *)
TokenOK == \A r \in Reqs :
  req[r].op \in {"refresh", "logout"} =>
    /\ session[req[r].sid].status # "free"
    /\ session[req[r].sid].user = req[r].user
    /\ req[r].at \in {"build", "insert"} => session[req[r].sid].status = "revoked"

LEMMA TokenOKStep ==
  ASSUME TypeOK, ControlOK, SessionOK, TokenOK, Next
  PROVE  TokenOK'
  <1>e. SessionEffect
    BY Effect
  <1>m. ASSUME NEW r \in Reqs, req'[r] = req[r], req[r].op \in {"refresh", "logout"}
        PROVE  /\ session'[req[r].sid].status # "free"
               /\ session'[req[r].sid].user = req[r].user
               /\ req[r].at \in {"build", "insert"} => session'[req[r].sid].status = "revoked"
    <2>1. req[r].sid \in Sids
      BY <1>m DEF ControlOK, HandlerOK, DataOK
    <2> QED BY <1>e, <1>m, <2>1, Monotone DEF TokenOK
  <1>1. ASSUME NEW r \in Reqs, Statement(r)
        PROVE  TokenOK'
    <2>1. Advances(r)
      BY <1>1, StatementAdvances
    <2>2. ASSUME req'[r].op \in {"refresh", "logout"}
          PROVE  /\ session'[req'[r].sid].status # "free"
                 /\ session'[req'[r].sid].user = req'[r].user
                 /\ req'[r].at \in {"build", "insert"} => session'[req'[r].sid].status = "revoked"
      <3>1. /\ req'[r].op = req[r].op /\ req'[r].sid = req[r].sid /\ req'[r].user = req[r].user
            /\ req[r].sid \in Sids
        BY <2>1, <2>2 DEF Advances, Idle, ControlOK, HandlerOK, DataOK
      <3>2. /\ session'[req'[r].sid].status # "free"
            /\ session'[req'[r].sid].user = req'[r].user
        BY <1>e, <2>2, <3>1, Monotone DEF TokenOK
      <3>3. CASE req'[r].at = "insert"
        <4>1. req[r].at = "build"
          BY <2>1, <2>2, <3>3 DEF Advances, Idle, BuildSessionResponse, At
        <4> QED BY <1>e, <2>2, <3>1, <3>2, <4>1, Monotone DEF TokenOK
      <3>4. CASE req'[r].at = "build"
        <4>1. RevokePresented(r)
          BY <1>1, <2>1, <2>2, <3>1, <3>4 DEF Advances, Idle, FindUser, FindTemp, At,
             ControlOK, HandlerOK, StepOK
        <4>2. session' = Revoked({req[r].sid})
          BY <4>1 DEF RevokePresented
        <4>3. session[req[r].sid] \in Sessions /\ session[req[r].sid].status # "free"
          BY <2>2, <3>1 DEF TokenOK, TypeOK
        <4> QED BY <3>1, <3>2, <4>2, <4>3 DEF Revoked, Sessions
      <3> QED BY <3>2, <3>3, <3>4
    <2> QED BY <1>m, <2>1, <2>2 DEF Advances, TokenOK
  <1>2. ASSUME NEW r \in Reqs, Call(r)
        PROVE  TokenOK'
    <2>1. session' = session /\ \A x \in Reqs \ {r} : req'[x] = req[x]
      BY <1>2, CallType DEF Call, StartLogin, StartRefresh, StartLogout, StartChangePassword,
         StartAccountOp, StartResetOp, StartApproveRegistration, Start, TypeOK
    <2>2. ASSUME req'[r].op \in {"refresh", "logout"}
          PROVE  /\ session[req'[r].sid].status # "free"
                 /\ session[req'[r].sid].user = req'[r].user
                 /\ req'[r].at \notin {"build", "insert"}
      <3>1. StartRefresh(r) \/ StartLogout(r)
        BY <1>2, <2>2 DEF Call, StartLogin, StartChangePassword, StartAccountOp, StartResetOp,
           StartApproveRegistration, Start, TypeOK, AccountOps, Disabling
      <3> QED BY <3>1 DEF StartRefresh, StartLogout, Start, TypeOK
    <2> QED BY <1>m, <2>1, <2>2 DEF TokenOK
  <1>3. ASSUME NEW r \in Reqs, Fail(r)
        PROVE  TokenOK'
    BY <1>3, <1>m DEF Fail, Finish, TypeOK, Idle, TokenOK
  <1>4. CASE Environment
    <2>1. req' = req
      BY <1>4 DEF Environment, SessionExpires, ResetRequestExpires, TempPasswordExpires
    <2> QED BY <1>m, <2>1 DEF TokenOK
  <1> QED BY <1>1, <1>2, <1>3, <1>4 DEF Next

(* A successor is granted by a handler whose own session is retired.       *)
LEMMA ParentStep ==
  ASSUME TypeOK, ControlOK, SessionOK, TokenOK, ParentRetired, Next
  PROVE  ParentRetired'
  <1>e. SessionEffect
    BY Effect
  <1>s. SUFFICES ASSUME NEW s \in Sids, session'[s].parent # None
                 PROVE  session'[session'[s].parent].status = "revoked"
    BY DEF ParentRetired
  <1>0. session[s] \in Sessions
    BY DEF TypeOK
  <1>1. CASE session'[s].parent = session[s].parent
    <2>1. session[s].parent \in Sids
      BY <1>0, <1>1, <1>s DEF Sessions
    <2> QED BY <1>e, <1>1, <1>s, <2>1, Monotone DEF ParentRetired
  <1>2. CASE \E r \in Reqs, x \in Sids : Inserts(r, x) /\ x = s
    <2>1. PICK r \in Reqs : Inserts(r, s)
      BY <1>2
    <2>2. session'[s].parent = req[r].sid
      BY <2>1 DEF Inserts, TypeOK
    <2>3. req[r].op = "refresh" /\ req[r].sid \in Sids
      BY <1>s, <2>1, <2>2 DEF Inserts, At, ControlOK, HandlerOK, DataOK, StepOK
    <2>4. session[req[r].sid].status = "revoked"
      BY <2>1, <2>3 DEF TokenOK, Inserts, At
    <2> QED BY <1>e, <2>2, <2>3, <2>4, Monotone
  <1>3. session'[s].parent = session[s].parent \/ \E r \in Reqs, x \in Sids : Inserts(r, x) /\ x = s
    BY <1>e, <1>0 DEF SessionEffect, Revoked, Inserts, SessionExpires, TypeOK, Sessions
  <1> QED BY <1>1, <1>2, <1>3

(* The history sets hold at least what is true now.                        *)
WindowOK == \A r \in Reqs :
  /\ UserEnabled(r) => r \in wasEnabled
  /\ CredentialGood(r) => r \in wasGood
  /\ UserBeingDisabled(r) => r \in wasRaced

LEMMA WindowStep ==
  ASSUME Observe
  PROVE  /\ WindowOK'
         /\ \A r \in Reqs : req'[r] # Idle =>
              /\ r \in wasEnabled => r \in wasEnabled'
              /\ r \in wasGood => r \in wasGood'
              /\ r \in wasRaced => r \in wasRaced'
  BY DEF Observe, WindowOK

GrantOK == \A r \in Reqs :
  /\ At(r, "insert") => r \in wasEnabled
  /\ req[r].at \in {"build", "insert"} => r \in wasGood
  /\ At(r, "revokePresented") /\ req[r].op = "refresh" => r \in wasGood
  /\ At(r, "writeHash") /\ req[r].op = "changePassword" => r \in wasGood

LEMMA GrantStep ==
  ASSUME TypeOK, ControlOK, ControlOK', WindowOK, GrantOK, Next
  PROVE  GrantOK'
  <1>w. \A r \in Reqs : req'[r] # Idle =>
              /\ r \in wasEnabled => r \in wasEnabled'
              /\ r \in wasGood => r \in wasGood'
    BY WindowStep DEF Next
  <1>m. ASSUME NEW x \in Reqs, req'[x] = req[x] \/ req'[x] = Idle
        PROVE  /\ req'[x].at = "insert" => x \in wasEnabled'
               /\ req'[x].at \in {"build", "insert"} => x \in wasGood'
               /\ req'[x].at = "revokePresented" /\ req'[x].op = "refresh" => x \in wasGood'
               /\ req'[x].at = "writeHash" /\ req'[x].op = "changePassword" => x \in wasGood'
    BY <1>m, <1>w DEF GrantOK, Idle, At
  <1>1. ASSUME NEW r \in Reqs, Statement(r)
        PROVE  GrantOK'
    <2>1. Advances(r)
      BY <1>1, StatementAdvances
    <2>2. CASE req'[r] # Idle
      <3>1. req'[r].at = "insert" => r \in wasEnabled' /\ r \in wasGood'
        <4>1. SUFFICES ASSUME req'[r].at = "insert"
                       PROVE  r \in wasEnabled' /\ r \in wasGood'
          OBVIOUS
        <4>2. At(r, "build") /\ Enabled(req[r].user)
          BY <2>1, <2>2, <4>1 DEF Advances, BuildSessionResponse
        <4>3. req[r].user \in Users /\ None \notin Users
          BY <4>2, AuthAssumption DEF At, ControlOK, HandlerOK, DataOK, StepOK, UserOps
        <4>4. UserEnabled(r)
          BY <4>2, <4>3 DEF UserEnabled
        <4> QED BY <1>w, <2>2, <4>2, <4>4 DEF WindowOK, GrantOK, At
      <3>2. req'[r].at = "build" => r \in wasGood'
        <4>1. SUFFICES ASSUME req'[r].at = "build"
                       PROVE  r \in wasGood
          BY <1>w, <2>2
        <4>2. CASE CredentialGood(r)
          BY <4>2 DEF WindowOK
        <4>3. CASE At(r, "revokePresented")
          <5>1. req[r].op = "refresh"
            BY <2>1, <2>2, <4>1, <4>3 DEF Advances, ControlOK, HandlerOK, StepOK, At
          <5> QED BY <4>3, <5>1 DEF GrantOK
        <4> QED BY <2>1, <2>2, <4>1, <4>2, <4>3 DEF Advances
      <3>3. req'[r].at = "revokePresented" => r \in wasGood'
        BY <1>w, <2>1, <2>2 DEF Advances, WindowOK
      <3>4. req'[r].at = "writeHash" /\ req'[r].op = "changePassword" => r \in wasGood'
        BY <1>w, <2>1, <2>2 DEF Advances, WindowOK
      <3> QED BY <1>m, <2>1, <3>1, <3>2, <3>3, <3>4 DEF Advances, GrantOK, At
    <2> QED BY <1>m, <2>1, <2>2 DEF Advances, GrantOK, At
  <1>2. ASSUME NEW r \in Reqs, Call(r)
        PROVE  GrantOK'
    <2>1. /\ \A x \in Reqs \ {r} : req'[x] = req[x]
          /\ req'[r].at \notin {"insert", "build", "writeHash"}
          /\ req'[r].at = "revokePresented" => req'[r].op = "logout"
      BY <1>2 DEF Call, StartLogin, StartRefresh, StartLogout, StartChangePassword,
         StartAccountOp, StartResetOp, StartApproveRegistration, Start, TypeOK
    <2> QED BY <1>m, <2>1 DEF GrantOK, At
  <1>3. ASSUME NEW r \in Reqs, Fail(r)
        PROVE  GrantOK'
    BY <1>3, <1>m DEF Fail, Finish, TypeOK, GrantOK, At
  <1>4. CASE Environment
    <2>1. req' = req
      BY <1>4 DEF Environment, SessionExpires, ResetRequestExpires, TempPasswordExpires
    <2> QED BY <1>m, <2>1 DEF GrantOK, At
  <1> QED BY <1>1, <1>2, <1>3, <1>4 DEF Next

(* An account is disabled only by a disabling handler at its last step.    *)
DisablingNow(u) == \E x \in Reqs : /\ req[x].op \in Disabling
                                   /\ At(x, "setFlag")
                                   /\ req[x].user = u

LEMMA EnabledStays ==
  ASSUME TypeOK, ControlOK, Next, NEW u \in Users, Enabled(u), ~DisablingNow(u)
  PROVE  Enabled(u)'
  <1>1. CASE account' = account
    BY <1>1 DEF Enabled
  <1>2. ASSUME NEW r \in Reqs, WriteHash(r)
        PROVE  Enabled(u)'
    <2>1. account[u] \in Accounts
      BY DEF TypeOK
    <2> QED BY <1>2, <2>1 DEF WriteHash, Enabled, TypeOK, Accounts
  <1>3. ASSUME NEW r \in Reqs, SetFlag(r)
        PROVE  Enabled(u)'
    <2>1. CASE req[r].user # u
      BY <1>3, <2>1 DEF SetFlag, Enabled, TypeOK
    <2>2. CASE req[r].user = u
      <3>1. req[r].op \notin Disabling
        BY <1>3, <2>2 DEF SetFlag, DisablingNow
      <3>2. account'[u] = Flagged(account[u], req[r].op)
        BY <1>3, <2>2 DEF SetFlag, TypeOK
      <3>3. /\ req[r].op # "softDelete" /\ req[r].op # "deactivate" /\ req[r].op # "block"
            /\ ~account[u].deleted /\ account[u].active /\ ~account[u].blocked
        BY <3>1 DEF Enabled, Disabling
      <3>4. ~account'[u].deleted
        BY <3>2, <3>3 DEF Flagged
      <3>5. account'[u].active
        BY <3>2, <3>3 DEF Flagged
      <3>6. ~account'[u].blocked
        BY <3>2, <3>3 DEF Flagged
      <3> QED BY <3>4, <3>5, <3>6 DEF Enabled
    <2> QED BY <2>1, <2>2
  <1>4. ASSUME NEW r \in Reqs, ReviveAccount(r)
        PROVE  Enabled(u)'
    BY <1>4 DEF ReviveAccount, Enabled, TypeOK
  <1>5. ASSUME NEW r \in Reqs, Statement(r), ~WriteHash(r), ~SetFlag(r), ~ReviveAccount(r)
        PROVE  account' = account
    BY <1>5 DEF Statement, FindUser, FindTemp, BuildSessionResponse, CreateRefreshSession,
       FindSession, RevokePresented, FindByIdWithHash, AssertUserExists, RevokeRefreshSessions,
       MarkUsed, ExpireStale, FindRequester, FindOpenRequest, CreateResetRequest, ReadRequest,
       ApproveResetRequest, RejectResetRequest, FindLiveAccount, FindDeletedAccount
  <1>6. ASSUME NEW r \in Reqs, Call(r) \/ Fail(r)
        PROVE  account' = account
    BY <1>6, CallType DEF Fail
  <1>7. ASSUME Environment
        PROVE  account' = account
    BY <1>7 DEF Environment, SessionExpires, ResetRequestExpires, TempPasswordExpires
  <1> QED BY <1>1, <1>2, <1>3, <1>4, <1>5, <1>6, <1>7 DEF Next

(* No disabling overlapped a grant that is not in raced: while the handler *)
(* is about to insert the account is enabled; once the row is there, the   *)
(* account is enabled and nobody is about to disable it without having     *)
(* revoked the row.                                                        *)
RaceOK ==
  /\ \A r \in Reqs : At(r, "insert") /\ r \notin wasRaced => Enabled(req[r].user)
  /\ \A s \in Sids : session[s].status = "live" /\ s \notin raced =>
       Enabled(session[s].user) /\ ~DisablingNow(session[s].user)

LEMMA RaceStep ==
  ASSUME TypeOK, ControlOK, SessionOK, WindowOK, RaceOK, Next
  PROVE  RaceOK'
  <1>e. SessionEffect
    BY Effect
  <1>w. \A r \in Reqs : req'[r] # Idle => (r \in wasRaced => r \in wasRaced')
    BY WindowStep DEF Next
  <1>u. ASSUME NEW r \in Reqs, At(r, "insert")
        PROVE  req[r].user \in Users /\ req[r].user # None
    BY <1>u, AuthAssumption DEF At, ControlOK, HandlerOK, DataOK, StepOK, UserOps
  <1> DEFINE InsertMove(x) ==
               req'[x].at = "insert" =>
                 \/ At(x, "insert") /\ req'[x] = req[x]
                 \/ account' = account /\ Enabled(req[x].user) /\ req'[x].user = req[x].user
             FlagMove(x) ==
               req'[x].at = "setFlag" /\ req'[x].op \in Disabling =>
                 \/ req'[x] = req[x]
                 \/ /\ session' = Revoked(SessionsOf(req[x].user))
                    /\ req'[x].user = req[x].user
  <1>m. \A x \in Reqs : InsertMove(x) /\ FlagMove(x)
    <2>0. ASSUME NEW x \in Reqs, req'[x] = req[x] \/ req'[x] = Idle
          PROVE  InsertMove(x) /\ FlagMove(x)
      BY <2>0 DEF Idle, At
    <2>1. ASSUME NEW r \in Reqs, Statement(r)
          PROVE  \A x \in Reqs : InsertMove(x) /\ FlagMove(x)
      <3>1. Advances(r)
        BY <2>1, StatementAdvances
      <3>2. InsertMove(r)
        BY <3>1 DEF Advances, Idle, BuildSessionResponse, At, ControlOK, HandlerOK, StepOK
      <3>3. FlagMove(r)
        BY <3>1 DEF Advances, Idle, RevokeRefreshSessions, Disabling
      <3> QED BY <2>0, <3>1, <3>2, <3>3 DEF Advances
    <2>2. ASSUME NEW r \in Reqs, Call(r)
          PROVE  \A x \in Reqs : InsertMove(x) /\ FlagMove(x)
      <3>1. /\ \A x \in Reqs \ {r} : req'[x] = req[x]
            /\ req'[r].at \notin {"insert", "setFlag"}
        BY <2>2 DEF Call, StartLogin, StartRefresh, StartLogout, StartChangePassword,
         StartAccountOp, StartResetOp, StartApproveRegistration, Start, TypeOK
      <3> QED BY <2>0, <3>1
    <2>3. ASSUME NEW r \in Reqs, Fail(r)
          PROVE  \A x \in Reqs : InsertMove(x) /\ FlagMove(x)
      BY <2>0, <2>3 DEF Fail, Finish, TypeOK
    <2>4. ASSUME Environment
          PROVE  \A x \in Reqs : InsertMove(x) /\ FlagMove(x)
      BY <2>0, <2>4 DEF Environment, SessionExpires, ResetRequestExpires, TempPasswordExpires
    <2> QED BY <2>1, <2>2, <2>3, <2>4 DEF Next
  <1> HIDE DEF InsertMove, FlagMove
  <1>1. ASSUME NEW r \in Reqs, req'[r].at = "insert", r \notin wasRaced', NEW u, u = req'[r].user
        PROVE  Enabled(u)'
    <2>1. req'[r] # Idle
      BY <1>1 DEF Idle
    <2>2. CASE At(r, "insert") /\ req'[r] = req[r]
      <3>1. r \notin wasRaced /\ Enabled(u)
        BY <1>1, <1>w, <2>1, <2>2 DEF RaceOK
      <3>2. ~DisablingNow(u)
        BY <1>1, <1>u, <2>2, <3>1 DEF WindowOK, UserBeingDisabled, BeingDisabled, DisablingNow
      <3>3. u \in Users
        BY <1>1, <1>u, <2>2
      <3> QED BY <3>1, <3>2, <3>3, EnabledStays
    <2>3. CASE account' = account /\ Enabled(req[r].user) /\ req'[r].user = req[r].user
      BY <1>1, <2>3 DEF Enabled
    <2> QED BY <1>m, <1>1, <2>2, <2>3 DEF InsertMove
  <1>2. ASSUME NEW s \in Sids, session'[s].status = "live", s \notin raced',
               NEW u, u = session'[s].user
        PROVE  Enabled(u)' /\ ~DisablingNow(u)'
    <2>0. session[s] \in Sessions
      BY DEF TypeOK
    <2>1. CASE \E r \in Reqs : Inserts(r, s)
      <3>1. PICK r \in Reqs : Inserts(r, s)
        BY <2>1
      <3>2. /\ At(r, "insert") /\ r \notin wasRaced /\ u = req[r].user
            /\ req' = [req EXCEPT ![r] = Idle] /\ account' = account
        BY <1>2, <3>1 DEF Inserts, Finish, TypeOK
      <3>3. Enabled(u)'
        BY <3>2 DEF RaceOK, Enabled
      <3>4. ~BeingDisabled(u)
        BY <1>u, <3>2 DEF WindowOK, UserBeingDisabled
      <3>5. ~DisablingNow(u)'
        BY <3>2, <3>4 DEF BeingDisabled, DisablingNow, TypeOK, Idle, At
      <3> QED BY <3>3, <3>5
    <2>2. CASE session[s].status = "live" /\ s \notin raced /\ session[s].user = u
      <3>1. Enabled(u) /\ ~DisablingNow(u)
        BY <2>2 DEF RaceOK
      <3>2. u \in Users
        BY <2>2 DEF SessionOK
      <3>3. Enabled(u)'
        BY <3>1, <3>2, EnabledStays
      <3>4. ASSUME NEW x \in Reqs, req'[x].op \in Disabling, req'[x].at = "setFlag",
                   req'[x].user = u
            PROVE  FALSE
        <4>1. CASE req'[x] = req[x]
          BY <3>1, <3>4, <4>1 DEF DisablingNow, At
        <4>2. CASE session' = Revoked(SessionsOf(u))
          BY <1>2, <2>0, <2>2, <4>2 DEF Revoked, SessionsOf, Sessions
        <4> QED BY <1>m, <3>4, <4>1, <4>2 DEF FlagMove
      <3> QED BY <3>3, <3>4 DEF DisablingNow, At
    <2>3. (\E r \in Reqs : Inserts(r, s)) \/ (session[s].status = "live" /\ s \notin raced /\ session[s].user = u)
      BY <1>e, <1>2, <2>0 DEF SessionEffect, Revoked, Inserts, SessionExpires, TypeOK, Sessions
    <2> QED BY <2>1, <2>2, <2>3
  <1>3. \A r \in Reqs : req'[r].at = "insert" /\ r \notin wasRaced' => Enabled(req[r].user)'
    BY <1>1
  <1>4. \A s \in Sids : session'[s].status = "live" /\ s \notin raced' =>
          Enabled(session[s].user)' /\ ~DisablingNow(session[s].user)'
    BY <1>2
  <1> QED BY <1>3, <1>4 DEF RaceOK, At

------------------------------------------------------------------------------
(* The inductive invariant                                                 *)

IInv == /\ TypeOK /\ ControlOK /\ SessionOK /\ TokenOK
        /\ ParentRetired /\ WindowOK /\ GrantOK /\ RaceOK

LEMMA InitIInv == Init => IInv
  <1> SUFFICES ASSUME Init PROVE IInv
    OBVIOUS
  <1>1. TypeOK
    <2>1. \A p \in Passwords : [deleted |-> FALSE, active |-> TRUE, blocked |-> FALSE, hash |-> p]
                               \in Accounts
      BY DEF Accounts
    <2>2. account \in [Users -> Accounts]
      BY <2>1 DEF Init
    <2> QED BY <2>2, IdleType, RowTypes DEF Init, TypeOK
  <1>2. ControlOK
    BY DEF Init, ControlOK, HandlerOK, DataOK, StepOK, Idle, UserOps, AccountOps, Disabling
  <1>3. SessionOK /\ ParentRetired
    BY DEF Init, SessionOK, ParentRetired, FreeSession
  <1>4. TokenOK /\ GrantOK
    BY DEF Init, TokenOK, GrantOK, Idle, At
  <1>5. WindowOK
    BY DEF Init, WindowOK, Idle, UserEnabled, CredentialGood, UserBeingDisabled
  <1>6. RaceOK
    BY DEF Init, RaceOK, Idle, At, FreeSession
  <1> QED BY <1>1, <1>2, <1>3, <1>4, <1>5, <1>6 DEF IInv

LEMMA ControlStep ==
  ASSUME TypeOK, ControlOK, SessionOK, Next
  PROVE  ControlOK'
  <1>1. ASSUME NEW r \in Reqs, Fail(r) PROVE ControlOK'
    BY <1>1, FinishControl DEF Fail
  <1>2. ASSUME Environment PROVE ControlOK'
    BY <1>2 DEF Environment, SessionExpires, ResetRequestExpires, TempPasswordExpires, ControlOK
  <1> QED BY <1>1, <1>2, ControlStart, ControlStatement DEF Next

LEMMA NextIInv == IInv /\ [Next]_vars => IInv'
  <1> SUFFICES ASSUME IInv, [Next]_vars PROVE IInv'
    OBVIOUS
  <1>t. TypeOK'
    BY TypeStep DEF IInv
  <1>1. CASE Next
    <2>1. ControlOK'
      BY <1>1, ControlStep DEF IInv
    <2>2. SessionOK'
      BY <1>1, Effect, SessionOKStep DEF IInv
    <2>3. TokenOK' /\ ParentRetired'
      BY <1>1, TokenOKStep, ParentStep DEF IInv
    <2>4. WindowOK'
      BY <1>1, WindowStep DEF Next
    <2>5. GrantOK'
      BY <1>1, <2>1, GrantStep DEF IInv
    <2>6. RaceOK'
      BY <1>1, RaceStep DEF IInv
    <2> QED BY <1>t, <2>1, <2>2, <2>3, <2>4, <2>5, <2>6 DEF IInv
  <1>2. CASE UNCHANGED vars
    <2>1. /\ account' = account /\ session' = session /\ reset' = reset /\ req' = req
          /\ wasEnabled' = wasEnabled /\ wasGood' = wasGood /\ wasRaced' = wasRaced
          /\ raced' = raced
      BY <1>2 DEF vars
    <2>2. ControlOK' /\ SessionOK' /\ TokenOK' /\ ParentRetired' /\ GrantOK'
      BY <2>1 DEF IInv, ControlOK, SessionOK, TokenOK, ParentRetired, GrantOK, At
    <2>3. WindowOK' /\ RaceOK'
      BY <2>1 DEF IInv, WindowOK, RaceOK, At, UserEnabled, CredentialGood, UserBeingDisabled,
         BeingDisabled, DisablingNow, Enabled, TempMatches, Usable
    <2> QED BY <1>t, <2>2, <2>3 DEF IInv
  <1> QED BY <1>1, <1>2

THEOREM Invariance == Spec => []IInv
  BY InitIInv, NextIInv, PTL DEF Spec

(* Rows and handlers keep their types.                                     *)
THEOREM TypeCorrect == Spec => []TypeOK
  <1>1. IInv => TypeOK
    BY DEF IInv
  <1> QED BY <1>1, Invariance, PTL

(* No request obtains a session or changes a password on the strength of   *)
(* something that had been withdrawn before the request began, for any     *)
(* number of users, requests and sessions.                                 *)
THEOREM GrantsAreJustified == Spec => []GrantedWithinWindow
  <1>1. IInv => GrantedWithinWindow
    BY DEF IInv, GrantOK, GrantedWithinWindow, At
  <1> QED BY <1>1, Invariance, PTL

(* A token and its successor are never usable together.                    *)
THEOREM RotationRetires == Spec => []ParentRetired
  <1>1. IInv => ParentRetired
    BY DEF IInv
  <1> QED BY <1>1, Invariance, PTL

(* Blocking, deactivating and deleting an account leave no live session    *)
(* behind but those of logins and refreshes that overlapped it.            *)
THEOREM OnlyRacersSurvive == Spec => []SurvivorsRaced
  <1>1. IInv => SurvivorsRaced
    BY DEF IInv, RaceOK, SurvivorsRaced
  <1> QED BY <1>1, Invariance, PTL

------------------------------------------------------------------------------
(* The handlers implement the ledger                                       *)

Entry(row) == [phase |-> row.status, user |-> row.user, parent |-> row.parent]

LEMMA ViewEntry == LedgerView = [s \in Sids |-> Entry(session[s])]
  BY DEF LedgerView, Entry

LEMMA LedgerStep == IInv /\ [Next]_vars => [Ledger!LedgerNext]_LedgerView
  <1> SUFFICES ASSUME IInv, [Next]_vars PROVE Ledger!LedgerNext \/ LedgerView' = LedgerView
    OBVIOUS
  <1>0. TypeOK /\ ControlOK /\ SessionOK /\ TokenOK
    BY DEF IInv
  <1>1. CASE UNCHANGED vars
    BY <1>1 DEF vars, LedgerView
  <1>2. CASE Next
    <2>e. SessionEffect
      BY <1>0, <1>2, Effect
    <2>1. CASE session' = session
      BY <2>1 DEF LedgerView, Entry
    <2>2. CASE \E x \in Sids : SessionExpires(x)
      <3>1. \A s \in Sids : Entry(session'[s]) = Entry(session[s])
        BY <1>0, <2>2 DEF SessionExpires, Entry, TypeOK, Sessions
      <3> QED BY <3>1 DEF LedgerView, Entry
    <2>3. ASSUME NEW S \in SUBSET Sids, session' = Revoked(S)
          PROVE  Ledger!LedgerNext
      <3> DEFINE L == {s \in S : session[s].status = "live"}
      <3>1. Ledger!Retire(L)
        <4>1. \A s \in L : LedgerView[s].phase = "live"
          BY DEF LedgerView, Entry
        <4>2. \A s \in Sids : Entry(session'[s]) = IF s \in L THEN [LedgerView[s] EXCEPT !.phase = "revoked"]
                                                             ELSE LedgerView[s]
          BY <1>0, <2>3 DEF LedgerView, Entry, Revoked, TypeOK, Sessions
        <4> QED BY <4>1, <4>2 DEF Ledger!Retire, LedgerView, Entry
      <3> QED BY <3>1 DEF Ledger!LedgerNext
    <2>4. ASSUME NEW r \in Reqs, NEW s \in Sids, Inserts(r, s)
          PROVE  Ledger!LedgerNext
      <3>1. /\ At(r, "insert") /\ session[s] = FreeSession
            /\ session' = [session EXCEPT ![s] = [status |-> "live", expired |-> FALSE,
                              user |-> req[r].user, parent |-> req[r].sid]]
        BY <2>4 DEF Inserts
      <3>2. /\ req[r].user \in Users
            /\ req[r].sid \in Sids \union {None}
            /\ req[r].sid # None => req[r].op = "refresh" /\ req[r].sid \in Sids
        BY <1>0, <3>1 DEF At, ControlOK, HandlerOK, DataOK, StepOK, UserOps, TypeOK, Handlers
      <3>3. req[r].sid # None => /\ LedgerView[req[r].sid].phase = "revoked"
                                 /\ LedgerView[req[r].sid].user = req[r].user
        BY <1>0, <3>1, <3>2 DEF At, TokenOK, LedgerView, Entry
      <3>4. LedgerView[s] = Ledger!FreeEntry
        BY <3>1 DEF LedgerView, FreeSession, Ledger!FreeEntry
      <3>5. LedgerView' = [LedgerView EXCEPT ![s] = [phase |-> "live", user |-> req[r].user,
                                       parent |-> req[r].sid]]
        BY <1>0, <3>1 DEF LedgerView, Entry, TypeOK
      <3>6. Ledger!Grant(s, req[r].user, req[r].sid)
        BY <3>3, <3>4, <3>5 DEF Ledger!Grant
      <3> QED BY <3>2, <3>6 DEF Ledger!LedgerNext
    <2> QED BY <2>e, <2>1, <2>2, <2>3, <2>4 DEF SessionEffect
  <1> QED BY <1>1, <1>2

(* Whatever requests run and however they interleave, the session table    *)
(* behaves as the ledger of SessionLedger.                                 *)
THEOREM Implements == Spec => ImplementsLedger
  <1>1. Init => Ledger!LedgerInit
    BY DEF Init, Ledger!LedgerInit, LedgerView, FreeSession, Ledger!FreeEntry
  <1>2. IInv /\ [Next]_vars => [Ledger!LedgerNext]_LedgerView
    BY LedgerStep DEF LedgerView, Entry
  <1> QED BY <1>1, <1>2, Invariance, PTL DEF Spec, ImplementsLedger, Ledger!LedgerSpec
====
