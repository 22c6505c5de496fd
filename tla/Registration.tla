---------------------------- MODULE Registration -----------------------------
(***************************************************************************)
(* How accounts come into being: registrations that administrators approve *)
(* or reject (auth.service.ts), accounts that administrators create or     *)
(* rename, and their deletion (users.service.ts).  No handler runs in a    *)
(* transaction, and each may fail between two statements.                  *)
(*                                                                         *)
(* What an approval does to the password, the flags and the sessions of an *)
(* account is in AuthSessions.                                             *)
(***************************************************************************)
EXTENDS FiniteSets

CONSTANTS
  Accounts,      \* ids of accounts
  Mails,         \* e-mail addresses, normalised
  Applications,  \* ids of registration requests
  Desks,         \* handlers in flight: bounds the interleavings
  Nobody         \* null

ASSUME RegistrationAssumption == Nobody \notin Accounts \union Mails \union Applications

VARIABLES
  person,       \* person[a]: the User row, or NoPerson; e-mails are unique
  application,  \* application[q]: the RegistrationRequest row, or NoApplication
  desk,         \* desk[h]: what handler h works on
  made,         \* history: accounts made or revived from each application
  disturbed     \* history: applications two administrators processed at a
                \* time, or whose processing failed half-way

regVars == <<person, application, desk, made, disturbed>>

NoPerson == [mail |-> Nobody, live |-> FALSE]
Persons == [mail : Mails, live : BOOLEAN]

NoApplication == [mail |-> Nobody, status |-> "none", account |-> Nobody]
ApplicationRows == [mail : Mails, status : {"PENDING", "APPROVED", "REJECTED"},
                    account : Accounts \union {Nobody}]

NoDesk == [op |-> "none", at |-> "idle", mail |-> Nobody, form |-> Nobody, account |-> Nobody]
DeskRows ==
  [op : {"none", "register", "approve", "reject", "adminCreate", "update"},
   at : {"idle", "findLive", "findPending", "submit", "readPending", "takenMail",
         "findDeleted", "revive", "create", "settle", "assertUser", "findOther", "rename"},
   mail : Mails \union {Nobody}, form : Applications \union {Nobody},
   account : Accounts \union {Nobody}]

Alive == {a \in Accounts : person[a].live}

LiveWith(mail) == {a \in Alive : person[a].mail = mail}

MailTaken(mail) == \E a \in Accounts : person[a].mail = mail

Pending(q) == application[q].status = "PENDING"

Processed(q) == \E h \in Desks : desk[h].form = q /\ desk[h].at # "readPending"

OnDesk(h, step) == desk[h].at = step

Proceed(h, step) == desk' = [desk EXCEPT ![h].at = step]

Leave(h) == desk' = [desk EXCEPT ![h] = NoDesk]

Tabled == <<person, application, made, disturbed>>

Take(h, row) ==
  /\ desk[h] = NoDesk
  /\ desk' = [desk EXCEPT ![h] = row]
  /\ UNCHANGED Tabled

------------------------------------------------------------------------------
(* register *)

StartRegister(h) ==
  \E mail \in Mails :
    Take(h, [NoDesk EXCEPT !.op = "register", !.at = "findLive", !.mail = mail])

(* A second request for one address is answered like the first.            *)
FindPendingRequest(h) ==
  /\ OnDesk(h, "findPending")
  /\ IF \E q \in Applications : Pending(q) /\ application[q].mail = desk[h].mail
     THEN Leave(h) ELSE Proceed(h, "submit")
  /\ UNCHANGED Tabled

SubmitRequest(h) ==
  /\ OnDesk(h, "submit")
  /\ \E q \in Applications :
       /\ application[q] = NoApplication
       /\ application' = [application EXCEPT ![q] =
                            [mail |-> desk[h].mail, status |-> "PENDING", account |-> Nobody]]
  /\ Leave(h)
  /\ UNCHANGED <<person, made, disturbed>>

------------------------------------------------------------------------------
(* approveRegistrationRequest and rejectRegistrationRequest *)

StartProcess(h) ==
  \E op \in {"approve", "reject"}, q \in Applications :
    /\ application[q] # NoApplication
    /\ Take(h, [NoDesk EXCEPT !.op = op, !.at = "readPending", !.form = q])

(* Mutant: a request that was rejected can still be approved.              *)
ReadAnyRequest(h) ==
  LET q == desk[h].form IN
  /\ OnDesk(h, "readPending")
  /\ IF application[q].status = "APPROVED" THEN Leave(h) /\ UNCHANGED disturbed
     ELSE /\ desk' = [desk EXCEPT ![h].mail = application[q].mail,
                        ![h].at = IF desk[h].op = "approve" THEN "findLive" ELSE "settle"]
          /\ disturbed' = IF Processed(q) THEN disturbed \union {q} ELSE disturbed
  /\ UNCHANGED <<person, application, made>>

ReadRequest(h) ==
  LET q == desk[h].form IN
  /\ OnDesk(h, "readPending")
  /\ IF ~Pending(q) THEN Leave(h) /\ UNCHANGED disturbed
     ELSE /\ desk' = [desk EXCEPT ![h].mail = application[q].mail,
                        ![h].at = IF desk[h].op = "approve" THEN "findLive" ELSE "settle"]
          /\ disturbed' = IF Processed(q) THEN disturbed \union {q} ELSE disturbed
  /\ UNCHANGED <<person, application, made>>

(* findByEmail: the first statement of register and of adminCreateUser,    *)
(* the second of an approval, which then rejects the request.              *)
FindByEmail(h) ==
  LET taken == LiveWith(desk[h].mail) # {} IN
  /\ OnDesk(h, "findLive")
  /\ CASE desk[h].op = "register" -> IF taken THEN Leave(h) ELSE Proceed(h, "findPending")
       [] desk[h].op = "adminCreate" -> IF taken THEN Leave(h) ELSE Proceed(h, "create")
       [] desk[h].op = "approve" -> Proceed(h, IF taken THEN "takenMail" ELSE "findDeleted")
  /\ UNCHANGED Tabled

FindDeleted(h) ==
  /\ OnDesk(h, "findDeleted")
  /\ \/ /\ ~MailTaken(desk[h].mail) \/ LiveWith(desk[h].mail) # {}
        /\ Proceed(h, "create")
     \/ \E a \in Accounts \ Alive :
          /\ person[a].mail = desk[h].mail
          /\ desk' = [desk EXCEPT ![h].at = "revive", ![h].account = a]
  /\ UNCHANGED Tabled

MadeFrom(q, a) ==
  made' = IF q = Nobody THEN made ELSE [made EXCEPT ![q] = @ \union {a}]

(* By primary key, whatever happened to the account since.                 *)
Revive(h) ==
  LET a == desk[h].account IN
  /\ OnDesk(h, "revive")
  /\ person' = [person EXCEPT ![a].live = TRUE]
  /\ MadeFrom(desk[h].form, a)
  /\ Proceed(h, "settle")
  /\ UNCHANGED <<application, disturbed>>

(* The unique key of the e-mail counts deleted accounts, too.              *)
CreateUser(h) ==
  LET mail == desk[h].mail IN
  /\ OnDesk(h, "create")
  /\ IF MailTaken(mail) THEN Leave(h) /\ UNCHANGED <<person, made>>
     ELSE \E a \in Accounts :
            /\ person[a] = NoPerson
            /\ person' = [person EXCEPT ![a] = [mail |-> mail, live |-> TRUE]]
            /\ MadeFrom(desk[h].form, a)
            /\ desk' = [desk EXCEPT ![h] = IF desk[h].op = "adminCreate" THEN NoDesk
                                           ELSE [@ EXCEPT !.at = "settle", !.account = a]]
  /\ UNCHANGED <<application, disturbed>>

(* The update that ends the processing does not ask for the status again.  *)
SettleRequest(h) ==
  LET d == desk[h] IN
  /\ d.at \in {"settle", "takenMail"}
  /\ application' = [application EXCEPT
       ![d.form].status = IF d.op = "approve" /\ d.at = "settle" THEN "APPROVED" ELSE "REJECTED",
       ![d.form].account = IF d.account = Nobody THEN @ ELSE d.account]
  /\ Leave(h)
  /\ UNCHANGED <<person, made, disturbed>>

------------------------------------------------------------------------------
(* Accounts managed by administrators *)

StartAdminCreate(h) ==
  \E mail \in Mails :
    Take(h, [NoDesk EXCEPT !.op = "adminCreate", !.at = "findLive", !.mail = mail])

(* updateUser with an e-mail; other fields are data.                       *)
StartUpdateUser(h) ==
  \E a \in Accounts, mail \in Mails :
    /\ person[a] # NoPerson
    /\ Take(h, [NoDesk EXCEPT !.op = "update", !.at = "assertUser",
                              !.mail = mail, !.account = a])

AssertUserExists(h) ==
  /\ OnDesk(h, "assertUser")
  /\ IF desk[h].account \notin Alive THEN Leave(h) ELSE Proceed(h, "findOther")
  /\ UNCHANGED Tabled

FindOther(h) ==
  /\ OnDesk(h, "findOther")
  /\ IF LiveWith(desk[h].mail) \ {desk[h].account} # {} THEN Leave(h) ELSE Proceed(h, "rename")
  /\ UNCHANGED Tabled

UpdateUser(h) ==
  LET d == desk[h] IN
  /\ OnDesk(h, "rename")
  /\ person' = IF \E a \in Accounts \ {d.account} : person[a].mail = d.mail THEN person
               ELSE [person EXCEPT ![d.account].mail = d.mail]
  /\ Leave(h)
  /\ UNCHANGED <<application, made, disturbed>>

(* One step: a deletion that was checked earlier might as well be later.   *)
SoftDelete(a) ==
  /\ a \in Alive
  /\ person' = [person EXCEPT ![a].live = FALSE]
  /\ UNCHANGED <<application, desk, made, disturbed>>

(* A lost connection or a crash, at any await.                             *)
FailDesk(h) ==
  /\ desk[h] # NoDesk
  /\ disturbed' = IF desk[h].at = "settle" THEN disturbed \union {desk[h].form} ELSE disturbed
  /\ Leave(h)
  /\ UNCHANGED <<person, application, made>>

------------------------------------------------------------------------------
RegInit ==
  /\ person = [a \in Accounts |-> NoPerson]
  /\ application = [q \in Applications |-> NoApplication]
  /\ desk = [h \in Desks |-> NoDesk]
  /\ made = [q \in Applications |-> {}]
  /\ disturbed = {}

RegNext ==
  \/ \E h \in Desks :
       \/ StartRegister(h) \/ FindPendingRequest(h) \/ SubmitRequest(h)
       \/ StartProcess(h) \/ ReadRequest(h) \/ FindByEmail(h) \/ FindDeleted(h)
       \/ Revive(h) \/ CreateUser(h) \/ SettleRequest(h)
       \/ StartAdminCreate(h) \/ StartUpdateUser(h) \/ AssertUserExists(h)
       \/ FindOther(h) \/ UpdateUser(h) \/ FailDesk(h)
  \/ \E a \in Accounts : SoftDelete(a)

RegSpec == RegInit /\ [][RegNext]_regVars

------------------------------------------------------------------------------
(* Properties *)

(* Types of the rows and of the requests.                                  *)
RegTypeOK ==
  /\ person \in [Accounts -> Persons \union {NoPerson}]
  /\ application \in [Applications -> ApplicationRows \union {NoApplication}]
  /\ desk \in [Desks -> DeskRows]
  /\ made \in [Applications -> SUBSET Accounts]
  /\ disturbed \subseteq Applications

(* What an application says of itself is what was done with it: approved,  *)
(* exactly one account was made or revived, the one it names; rejected,    *)
(* none; pending, none but the one an approval is about to name.  Two      *)
(* administrators at a time, or a failure after the account was written,   *)
(* break this: the next approval finds the account and rejects.            *)
BeingMade(q) == {desk[h].account : h \in {k \in Desks : desk[k].form = q /\ desk[k].at = "settle"}}
                \ {Nobody}

SettledUnlessDisturbed ==
  \A q \in Applications \ disturbed :
    made[q] = CASE application[q].status = "APPROVED" -> {application[q].account}
                [] Pending(q) -> BeingMade(q)
                [] OTHER -> {}
==============================================================================
