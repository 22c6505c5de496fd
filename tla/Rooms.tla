-------------------------------- MODULE Rooms --------------------------------
(***************************************************************************)
(* Rooms and their members (rooms.service.ts, rooms.controller.ts): direct *)
(* rooms that are looked up before they are created, members added one by  *)
(* one, in a batch or from units, removed and promoted.  One action is one *)
(* statement of a handler with the code up to the next await; only         *)
(* createRoom opens a transaction, of inserts nobody sees before it ends.  *)
(*                                                                         *)
(* Titles and archiving, which no decision reads, are left out; so is the  *)
(* look-up of roles and users, whose failure is a case of FailRoom.  *)
(***************************************************************************)
EXTENDS RoomRoles

CONSTANT RoomOps  \* the operations of this instance

ASSUME RoomOpsAssumption ==
  RoomOps \subseteq {"create", "delete", "add", "batch", "bulkAdd", "role", "remove", "bulkRemove"}

VARIABLES
  room,     \* table Room
  member,   \* member[r][u]: the role of u in r (UserRoomMembership), or "none"
  notice,   \* notice[r][u]: has member u been told of being added to r
  roomReq,  \* roomReq[h]: the request handler h works on
  managed,  \* history: the actor of request h has been a manager of its room
            \* at some moment since the request arrived
  raced,    \* history: pairs of rooms, the one inserted between the look-up
            \* and the insert of the other
  altered   \* history: rooms that members have joined or left

roomVars == <<room, member, notice, roomReq, managed, raced, altered>>

Types == {"DIRECT", "GROUP"}

NoRoom == [type |-> "none", creator |-> None, deleted |-> FALSE]

RoomRows == [type : Types, creator : Users, deleted : BOOLEAN]

Notices == {"none", "due", "sent", "dropped"}

(* who: the users still to be handled; next: the one batchAddMembers is    *)
(* about to insert; added: who is to be told; missed: the rooms inserted   *)
(* since a look-up for a direct room.                                      *)
NoRoomReq == [op |-> "none", at |-> "idle", room |-> None, actor |-> None, type |-> "none",
              who |-> {}, next |-> None, added |-> {}, missed |-> {}]

RoomReqs ==
  [op : RoomOps \union {"none"},
   at : {"idle", "find", "room", "permit", "read", "write", "tell"},
   room : Rooms \union {None}, actor : Users \union {None}, type : Types \union {"none"},
   who : SUBSET Users, next : Users \union {None}, added : SUBSET Users, missed : SUBSET Rooms]

Members(r) == {u \in Users : member[r][u] # "none"}

IsManager(r, u) == r # None /\ member[r][u] \in Managers

(* Every step notes who has been a manager during the own request.         *)
WatchManagers ==
  managed' = [h \in Handlers |->
    LET q == roomReq'[h] IN
    q.op # "none" /\ (managed[h] \/ (q.room # None /\ member'[q.room][q.actor] \in Managers))]

RoomAt(h, ops, at) == roomReq[h].op \in ops /\ roomReq[h].at = at

RoomGo(h, q) == roomReq' = [roomReq EXCEPT ![h] = q]

FinishRoom(h) == RoomGo(h, NoRoomReq)

RoomProceed(h, at) == RoomGo(h, [roomReq[h] EXCEPT !.at = at])

(* resolveRoleId and updateMemberRole accept assignable roles only.        *)
ResolveRoleId == Assignable

(* Members S join r with role x; they are due to be told.                  *)
Enter(r, S, x) ==
  /\ member' = [member EXCEPT ![r] = [u \in Users |-> IF u \in S THEN x ELSE member[r][u]]]
  /\ notice' = [notice EXCEPT ![r] = [u \in Users |-> IF u \in S THEN "due" ELSE notice[r][u]]]
  /\ altered' = IF S = {} THEN altered ELSE altered \union {r}

Exit(r, S) ==
  /\ member' = [member EXCEPT ![r] = [u \in Users |-> IF u \in S THEN "none" ELSE member[r][u]]]
  /\ notice' = [notice EXCEPT ![r] = [u \in Users |-> IF u \in S THEN "none" ELSE notice[r][u]]]
  /\ altered' = IF S \intersect Members(r) = {} THEN altered ELSE altered \union {r}

------------------------------------------------------------------------------
(* Creation *)

StartCreate(h) ==
  /\ roomReq[h] = NoRoomReq /\ "create" \in RoomOps
  /\ \E c \in Users, type \in Types : \E S \in SUBSET (Users \ {c}) :
       RoomGo(h, [NoRoomReq EXCEPT !.op = "create", !.actor = c, !.type = type, !.who = S,
                !.at = IF type = "DIRECT" /\ S # {} THEN "find" ELSE "write"])
  /\ UNCHANGED <<room, member, notice, raced, altered>>

(* Mutant: only the rooms the caller has created are looked through.       *)
OwnDirectRooms(a, b) ==
  {r \in Rooms : /\ room[r].type = "DIRECT" /\ ~room[r].deleted
                 /\ Members(r) = {a, b} /\ room[r].creator = a}

DirectRooms(a, b) ==
  {r \in Rooms : /\ room[r].type = "DIRECT" /\ ~room[r].deleted /\ Members(r) = {a, b}}

(* The first other user of the list is looked up; an existing direct room  *)
(* is returned as it is.                                                   *)
FindDirectRoom(h) ==
  /\ RoomAt(h, {"create"}, "find")
  /\ \E other \in roomReq[h].who :
       IF DirectRooms(roomReq[h].actor, other) # {}
       THEN FinishRoom(h)
       ELSE RoomProceed(h, "write")
  /\ UNCHANGED <<room, member, notice, raced, altered>>

(* The transaction: the room, its owner and the members.  Handlers that    *)
(* have looked for a direct room already have missed this one.             *)
InsertRoom(h) ==
  /\ RoomAt(h, {"create"}, "write")
  /\ \E r \in Rooms, x \in ResolveRoleId :
       LET q == roomReq[h] IN
       /\ room[r] = NoRoom
       /\ room' = [room EXCEPT ![r] = [type |-> q.type, creator |-> q.actor, deleted |-> FALSE]]
       /\ member' = [member EXCEPT ![r] =
                       [u \in Users |-> IF u = q.actor THEN "owner"
                                        ELSE IF u \in q.who THEN x ELSE "none"]]
       /\ notice' = [notice EXCEPT ![r] =
                       [u \in Users |-> IF u \in q.who THEN "due" ELSE "none"]]
       /\ roomReq' = [g \in Handlers |->
            IF g = h
            THEN IF q.who = {} THEN NoRoomReq
                 ELSE [q EXCEPT !.at = "tell", !.room = r, !.added = q.who, !.missed = {}]
            ELSE IF RoomAt(g, {"create"}, "write")
                 THEN [roomReq[g] EXCEPT !.missed = roomReq[g].missed \union {r}]
                 ELSE roomReq[g]]
       /\ raced' = raced \union {{r, x1} : x1 \in q.missed}
  /\ UNCHANGED altered

------------------------------------------------------------------------------
(* Requests on a room that exists *)

Guarded == {"delete", "add", "batch", "bulkAdd", "role", "bulkRemove"}

(* ChatPermissionGuard lets managers of the room through; removeMember has *)
(* no guard of its own.                                                    *)
StartRequest(h) ==
  /\ roomReq[h] = NoRoomReq
  /\ \E op \in RoomOps \ {"create"}, r \in Rooms, a \in Users :
       /\ room[r] # NoRoom
       /\ op \in Guarded => IsManager(r, a)
       /\ \E S \in SUBSET Users :
            /\ op = "delete" => S = {}
            /\ op \in {"add", "role", "remove"} => \E u \in Users : S = {u}
            /\ op \in {"batch", "bulkAdd", "bulkRemove"} => S # {}
            /\ RoomGo(h, [NoRoomReq EXCEPT !.op = op, !.at = "room", !.room = r,
                             !.actor = a, !.who = S])
  /\ UNCHANGED <<room, member, notice, raced, altered>>

AssertRoomExists(h) ==
  /\ roomReq[h].at = "room"
  /\ LET q == roomReq[h] IN
     IF room[q.room].deleted THEN FinishRoom(h)
     ELSE RoomProceed(h, CASE q.op = "delete" -> "write"
                       [] q.op \in {"role", "bulkRemove"} -> "permit"
                       [] OTHER -> "read")
  /\ UNCHANGED <<room, member, notice, raced, altered>>

DeleteRoom(h) ==
  /\ RoomAt(h, {"delete"}, "write")
  /\ room' = [room EXCEPT ![roomReq[h].room].deleted = TRUE]
  /\ FinishRoom(h)
  /\ UNCHANGED <<member, notice, raced, altered>>

(* Mutant: a removal is not checked once the target has been read.         *)
AssertCanManageNothing(h) ==
  /\ roomReq[h].at = "permit"
  /\ RoomProceed(h, IF roomReq[h].op = "remove" THEN "write" ELSE "read")
  /\ UNCHANGED <<room, member, notice, raced, altered>>

(* assertCanManageMembers; whoever leaves has to be a member only.         *)
AssertCanManageMembers(h) ==
  /\ roomReq[h].at = "permit"
  /\ LET q == roomReq[h] IN
     IF IsManager(q.room, q.actor)
        \/ (q.op = "remove" /\ q.who = {q.actor} /\ member[q.room][q.actor] # "none")
     THEN RoomProceed(h, IF q.op = "remove" THEN "write" ELSE "read")
     ELSE FinishRoom(h)
  /\ UNCHANGED <<room, member, notice, raced, altered>>

(* updateMemberRole and removeMember read the member and spare the owner.  *)
ReadTarget(h) ==
  /\ RoomAt(h, {"role", "remove"}, "read")
  /\ LET q == roomReq[h] IN
     IF \A u \in q.who : member[q.room][u] \in Assignable
     THEN RoomProceed(h, IF q.op = "remove" THEN "permit" ELSE "write")
     ELSE FinishRoom(h)
  /\ UNCHANGED <<room, member, notice, raced, altered>>

(* The updates by primary key fail when the member has gone.               *)
WriteRole(h) ==
  /\ RoomAt(h, {"role"}, "write")
  /\ \E u \in roomReq[h].who, x \in ResolveRoleId :
       member' = IF member[roomReq[h].room][u] = "none" THEN member
                 ELSE [member EXCEPT ![roomReq[h].room] = [member[roomReq[h].room] EXCEPT ![u] = x]]
  /\ FinishRoom(h)
  /\ UNCHANGED <<room, notice, raced, altered>>

(* bulkRemoveMembers skips the owner and those who are no members.         *)
ReadRemovable(h) ==
  /\ RoomAt(h, {"bulkRemove"}, "read")
  /\ LET q == roomReq[h]
         S == {u \in q.who : member[q.room][u] \in Assignable}
     IN IF S = {} THEN FinishRoom(h) ELSE RoomGo(h, [q EXCEPT !.at = "write", !.who = S])
  /\ UNCHANGED <<room, member, notice, raced, altered>>

DeleteMembers(h) ==
  /\ RoomAt(h, {"remove", "bulkRemove"}, "write")
  /\ Exit(roomReq[h].room, roomReq[h].who)
  /\ FinishRoom(h)
  /\ UNCHANGED <<room, raced>>

------------------------------------------------------------------------------
(* Adding members *)

(* Where a batch goes when one user is done with: on to the next, or to    *)
(* the announcement of those it has added.                                 *)
AfterOne(q, u, added) ==
  IF q.who # {u} THEN [q EXCEPT !.at = "read", !.next = None, !.who = q.who \ {u}, !.added = added]
  ELSE IF added = {} THEN NoRoomReq
  ELSE [q EXCEPT !.at = "tell", !.next = None, !.who = {}, !.added = added]

(* addMember and batchAddMembers look for the membership first: the one    *)
(* refuses a member, the other passes on to the next user.                 *)
ReadInvited(h) ==
  /\ RoomAt(h, {"add", "batch"}, "read")
  /\ LET q == roomReq[h] IN
     \E u \in q.who :
       RoomGo(h, IF member[q.room][u] = "none" THEN [q EXCEPT !.at = "write", !.next = u]
             ELSE IF q.op = "add" THEN NoRoomReq
             ELSE AfterOne(q, u, q.added))
  /\ UNCHANGED <<room, member, notice, raced, altered>>

(* Mutant: every round of the loop forgets those added before.             *)
InsertMemberAfresh(h) ==
  /\ RoomAt(h, {"add", "batch"}, "write")
  /\ LET q == roomReq[h] IN
     /\ member[q.room][q.next] = "none"
     /\ \E x \in ResolveRoleId : Enter(q.room, {q.next}, x)
     /\ RoomGo(h, AfterOne(q, q.next, {q.next}))
  /\ UNCHANGED <<room, raced>>

(* The insert; a duplicate key is thrown, see FailRoom.                  *)
InsertMember(h) ==
  /\ RoomAt(h, {"add", "batch"}, "write")
  /\ LET q == roomReq[h] IN
     /\ member[q.room][q.next] = "none"
     /\ \E x \in ResolveRoleId : Enter(q.room, {q.next}, x)
     /\ RoomGo(h, AfterOne(q, q.next, q.added \union {q.next}))
  /\ UNCHANGED <<room, raced>>

(* bulkAddMembers reads which of the users are members already.            *)
ReadExisting(h) ==
  /\ RoomAt(h, {"bulkAdd"}, "read")
  /\ LET q == roomReq[h]
         S == q.who \ Members(q.room)
     IN IF S = {} THEN FinishRoom(h) ELSE RoomGo(h, [q EXCEPT !.at = "write", !.who = S])
  /\ UNCHANGED <<room, member, notice, raced, altered>>

(* Mutant: an upsert instead of an insert that skips duplicates.           *)
UpsertMembers(h) ==
  /\ RoomAt(h, {"bulkAdd"}, "write")
  /\ LET q == roomReq[h] IN
     /\ \E x \in ResolveRoleId : Enter(q.room, q.who, x)
     /\ RoomGo(h, [q EXCEPT !.at = "tell", !.who = {}, !.added = q.who])
  /\ UNCHANGED <<room, raced>>

(* createMany with skipDuplicates: who has joined meanwhile stays as is.   *)
InsertMembers(h) ==
  /\ RoomAt(h, {"bulkAdd"}, "write")
  /\ LET q == roomReq[h] IN
     /\ \E x \in ResolveRoleId : Enter(q.room, q.who \ Members(q.room), x)
     /\ RoomGo(h, [q EXCEPT !.at = "tell", !.who = {}, !.added = q.who])
  /\ UNCHANGED <<room, raced>>

(* Mutant: bulkAddMembers tells those it meant to add.                     *)
TellAllAdded(h) ==
  /\ roomReq[h].at = "tell"
  /\ LET q == roomReq[h] IN
     notice' = [notice EXCEPT ![q.room] =
                  [u \in Users |-> IF u \in q.added THEN "sent" ELSE notice[q.room][u]]]
  /\ FinishRoom(h)
  /\ UNCHANGED <<room, member, raced, altered>>

(* The notification and the event; bulkAddMembers reads the rows again, so *)
(* who has left in between is not told.                                    *)
TellMembers(h) ==
  /\ roomReq[h].at = "tell"
  /\ LET q == roomReq[h] IN
     notice' = [notice EXCEPT ![q.room] =
                  [u \in Users |-> IF u \in q.added /\ notice[q.room][u] # "none"
                                   THEN "sent" ELSE notice[q.room][u]]]
  /\ FinishRoom(h)
  /\ UNCHANGED <<room, member, raced, altered>>

(* A handler ends early: a statement fails, a user does not exist, or a    *)
(* membership is there when it is inserted.  Nothing is undone, and whom   *)
(* it has added nobody tells.                                              *)
FailRoom(h) ==
  /\ roomReq[h] # NoRoomReq
  /\ LET q == roomReq[h] IN
     notice' = IF q.room = None THEN notice
               ELSE [notice EXCEPT ![q.room] =
                       [u \in Users |-> IF u \in q.added /\ notice[q.room][u] = "due"
                                        THEN "dropped" ELSE notice[q.room][u]]]
  /\ FinishRoom(h)
  /\ UNCHANGED <<room, member, raced, altered>>

------------------------------------------------------------------------------
RoomInit ==
  /\ room = [r \in Rooms |-> NoRoom]
  /\ member = [r \in Rooms |-> [u \in Users |-> "none"]]
  /\ notice = [r \in Rooms |-> [u \in Users |-> "none"]]
  /\ roomReq = [h \in Handlers |-> NoRoomReq]
  /\ managed = [h \in Handlers |-> FALSE]
  /\ raced = {}
  /\ altered = {}

RoomStep(h) ==
  \/ StartCreate(h) \/ FindDirectRoom(h) \/ InsertRoom(h)
  \/ StartRequest(h) \/ AssertRoomExists(h) \/ AssertCanManageMembers(h)
  \/ DeleteRoom(h)
  \/ ReadTarget(h) \/ WriteRole(h)
  \/ ReadRemovable(h) \/ DeleteMembers(h)
  \/ ReadInvited(h) \/ InsertMember(h)
  \/ ReadExisting(h) \/ InsertMembers(h)
  \/ TellMembers(h) \/ FailRoom(h)

RoomNext == \E h \in Handlers : RoomStep(h) /\ WatchManagers

RoomSpec == RoomInit /\ [][RoomNext]_roomVars

------------------------------------------------------------------------------
(* Rooms, members, notices and requests keep their types; a room has       *)
(* members only if it exists, and only members have a notice.              *)
RoomTypeOK ==
  /\ room \in [Rooms -> RoomRows \union {NoRoom}]
  /\ member \in [Rooms -> [Users -> Roles \union {"none"}]]
  /\ notice \in [Rooms -> [Users -> Notices]]
  /\ roomReq \in [Handlers -> RoomReqs]
  /\ managed \in [Handlers -> BOOLEAN]
  /\ raced \subseteq SUBSET Rooms
  /\ altered \subseteq Rooms
  /\ \A r \in Rooms, u \in Users :
       /\ room[r] = NoRoom => member[r][u] = "none"
       /\ notice[r][u] # "none" => member[r][u] # "none"

(* Whatever requests run, the memberships keep the promises of Membership: *)
(* the creator stays the only owner, and adding members changes nobody     *)
(* who is there.                                                           *)
Promised == INSTANCE Membership WITH role <- member

KeepsMembership == Promised!MembershipSpec

(* createRoom looks for a direct room of the two users first: two such     *)
(* rooms exist only if one was inserted between the look-up and the insert *)
(* of the other, or if members have joined or left one of them since.      *)
OneDirectRoom ==
  \A r, x \in Rooms :
    (/\ r # x
     /\ \A y \in {r, x} : room[y].type = "DIRECT" /\ ~room[y].deleted /\ y \notin altered
     /\ \E a, b \in Users : a # b /\ Members(r) = {a, b} /\ Members(x) = {a, b})
      => {r, x} \in raced

(* Members of a room that exists are added, promoted or removed only by a  *)
(* request whose actor has been a manager of the room while it ran, or     *)
(* that removes its own actor.                                             *)
ChangedByManagers ==
  [][\A r \in Rooms, u \in Users :
       (room[r] # NoRoom /\ member'[r][u] # member[r][u]) =>
         \E h \in Handlers :
           LET q == roomReq[h] IN
           /\ q.at = "write" /\ roomReq'[h] # q
           /\ q.room = r /\ u \in q.who
           /\ managed[h] \/ (q.op = "remove" /\ q.actor = u)]_roomVars

(* Nobody joins unheard: who has not been told of being added is about to  *)
(* be told by the request that did it, unless a request failed half way.   *)
MembersTold ==
  \A r \in Rooms, u \in Users :
    notice[r][u] = "due" => \E h \in Handlers : roomReq[h].room = r /\ u \in roomReq[h].added
==============================================================================
