---------------------------- MODULE Rooms_proofs -----------------------------
(***************************************************************************)
(* Proofs about Rooms, for every set of users, rooms, handlers and         *)
(* operations, and about Notices, for every finite set of notices.         *)
(*                                                                         *)
(* Core adds to the types what a request carries at each statement         *)
(* (ShapeOK), that a removal or promotion about to be written spares the   *)
(* creator (TargetOK), that the creator is the only owner (OwnerOK), that  *)
(* whoever changes members has been seen to be a manager (ManagedOK), and  *)
(* which rooms a look-up for a direct room can have missed (MissedOK).     *)
(* RequestStep says how a statement moves its request; TableStep lists the *)
(* five things a statement can do to rooms and members.                    *)
(*                                                                         *)
(* NoticesInv says of every list that it is right, or will be fetched, or  *)
(* that something was missed (FreshLists); of every mark what it has found *)
(* (MarksOK, ClickOK); and that what the view is about is read, or its     *)
(* mark is on its way or was refused (ViewOK).                             *)
(***************************************************************************)
EXTENDS Rooms, Notices, FiniteSetTheorems, TLAPS

(* What a request carries, by its operation and statement.                 *)
Shape(q) ==
  /\ q.op = "none" => q = NoRoomReq
  /\ q.op # "none" => q.actor \in Users
  /\ q.op = "create" => /\ q.at \in {"find", "write", "tell"}
                        /\ q.type \in Types /\ q.actor \notin q.who
                        /\ q.at # "tell" => q.room = None
  /\ q.op \notin {"none", "create"} => /\ q.at \in {"room", "permit", "read", "write", "tell"}
                                       /\ q.room \in Rooms
  /\ q.at = "tell" => q.room \in Rooms
  /\ (q.op \in {"add", "batch"} /\ q.at = "write") => q.next \in q.who
  /\ (q.op = "add" /\ q.at # "tell") => \E u \in Users : q.who = {u}
  /\ (q.op = "remove" /\ q.at # "tell") => \E u \in Users : q.who = {u}
  /\ q.added # {} => q.at = "tell" \/ (q.op = "batch" /\ q.at \in {"read", "write"})

ShapeOK == \A h \in Handlers : Shape(roomReq[h])

LEMMA NoReqType == NoRoomReq \in RoomReqs /\ Shape(NoRoomReq)
  BY DEF NoRoomReq, RoomReqs, Shape

LEMMA GoShape ==
  ASSUME RoomTypeOK, ShapeOK, NEW h \in Handlers, NEW q \in RoomReqs, Shape(q), RoomGo(h, q)
  PROVE  roomReq' \in [Handlers -> RoomReqs] /\ ShapeOK'
  <1>1. roomReq' \in [Handlers -> RoomReqs]
    BY DEF RoomTypeOK, RoomGo
  <1>2. ASSUME NEW g \in Handlers PROVE Shape(roomReq'[g])
    BY DEF RoomTypeOK, RoomGo, ShapeOK
  <1> QED BY <1>1, <1>2 DEF ShapeOK, Shape

LEMMA FinishShape ==
  ASSUME RoomTypeOK, ShapeOK, NEW h \in Handlers, FinishRoom(h)
  PROVE  roomReq' \in [Handlers -> RoomReqs] /\ ShapeOK'
  BY NoReqType, GoShape DEF FinishRoom

LEMMA ProceedShape ==
  ASSUME RoomTypeOK, ShapeOK, NEW h \in Handlers,
         NEW at \in {"room", "permit", "read", "write"}, RoomProceed(h, at),
         Shape([roomReq[h] EXCEPT !.at = at])
  PROVE  roomReq' \in [Handlers -> RoomReqs] /\ ShapeOK'
  <1>1. roomReq[h] \in RoomReqs
    BY DEF RoomTypeOK
  <1>2. [roomReq[h] EXCEPT !.at = at] \in RoomReqs
    BY <1>1 DEF RoomReqs
  <1> QED BY <1>2, GoShape DEF RoomProceed

LEMMA AfterOneShape ==
  ASSUME NEW q \in RoomReqs, Shape(q), q.op \in {"add", "batch"}, q.at \in {"read", "write"},
         NEW u \in q.who, NEW S \in SUBSET Users, q.op = "add" => S # {}
  PROVE  AfterOne(q, u, S) \in RoomReqs /\ Shape(AfterOne(q, u, S))
  <1>1. CASE q.who # {u}
    BY <1>1 DEF AfterOne, Shape, RoomReqs, NoRoomReq
  <1>2. CASE q.who = {u} /\ S = {}
    BY <1>2, NoReqType DEF AfterOne
  <1>3. CASE q.who = {u} /\ S # {}
    BY <1>3 DEF AfterOne, Shape, RoomReqs, NoRoomReq
  <1> QED BY <1>1, <1>2, <1>3

LEMMA RequestStep ==
  ASSUME RoomTypeOK, ShapeOK, NEW h \in Handlers, RoomStep(h)
  PROVE  roomReq' \in [Handlers -> RoomReqs] /\ ShapeOK'
  <1> DEFINE q == roomReq[h]
  <1>0. q \in RoomReqs /\ Shape(q)
    BY DEF RoomTypeOK, ShapeOK
  <1> HIDE DEF q
  <1>1. CASE StartCreate(h)
    <2>0. PICK c \in Users, type \in Types : \E S \in SUBSET (Users \ {c}) :
            RoomGo(h, [NoRoomReq EXCEPT !.op = "create", !.actor = c, !.type = type, !.who = S,
                         !.at = IF type = "DIRECT" /\ S # {} THEN "find" ELSE "write"])
      BY <1>1 DEF StartCreate
    <2>1. PICK S \in SUBSET (Users \ {c}) :
            RoomGo(h, [NoRoomReq EXCEPT !.op = "create", !.actor = c, !.type = type, !.who = S,
                         !.at = IF type = "DIRECT" /\ S # {} THEN "find" ELSE "write"])
      BY <2>0
    <2> DEFINE n == [NoRoomReq EXCEPT !.op = "create", !.actor = c, !.type = type, !.who = S,
                       !.at = IF type = "DIRECT" /\ S # {} THEN "find" ELSE "write"]
    <2>2. n \in RoomReqs /\ Shape(n)
      BY <1>1 DEF NoRoomReq, RoomReqs, Shape, StartCreate, Types
    <2> QED BY <2>1, <2>2, GoShape
  <1>2. CASE FindDirectRoom(h)
    <2>1. Shape([q EXCEPT !.at = "write"])
      BY <1>0, <1>2 DEF FindDirectRoom, RoomAt, Shape, RoomReqs, NoRoomReq, q
    <2> QED BY <2>1, <1>2, FinishShape, ProceedShape DEF FindDirectRoom, q
  <1>3. CASE InsertRoom(h)
    <2>1. PICK r \in Rooms :
            roomReq' = [g \in Handlers |->
              IF g = h
              THEN IF q.who = {} THEN NoRoomReq
                   ELSE [q EXCEPT !.at = "tell", !.room = r, !.added = q.who, !.missed = {}]
              ELSE IF RoomAt(g, {"create"}, "write")
                   THEN [roomReq[g] EXCEPT !.missed = roomReq[g].missed \union {r}]
                   ELSE roomReq[g]]
      BY <1>3 DEF InsertRoom, q
    <2>2. ASSUME NEW g \in Handlers PROVE roomReq'[g] \in RoomReqs /\ Shape(roomReq'[g])
      <3>1. roomReq[g] \in RoomReqs /\ Shape(roomReq[g])
        BY DEF RoomTypeOK, ShapeOK
      <3>2. CASE g = h /\ q.who = {}
        BY <2>1, <3>2, NoReqType
      <3>3. CASE g = h /\ q.who # {}
        <4>1. roomReq'[g] = [q EXCEPT !.at = "tell", !.room = r, !.added = q.who, !.missed = {}]
          BY <2>1, <3>3
        <4> QED BY <4>1, <1>0, <1>3 DEF InsertRoom, RoomAt, RoomReqs, Shape, q
      <3>4. CASE g # h /\ RoomAt(g, {"create"}, "write")
        <4>1. roomReq'[g] = [roomReq[g] EXCEPT !.missed = roomReq[g].missed \union {r}]
          BY <2>1, <3>4
        <4> QED BY <4>1, <3>1, <3>4 DEF RoomAt, RoomReqs, Shape
      <3>5. CASE g # h /\ ~RoomAt(g, {"create"}, "write")
        BY <2>1, <3>1, <3>5
      <3> QED BY <3>2, <3>3, <3>4, <3>5
    <2>3. roomReq' \in [Handlers -> RoomReqs]
      BY <2>1, <2>2
    <2> QED BY <2>2, <2>3 DEF ShapeOK, Shape
  <1>4. CASE StartRequest(h)
    <2>1. PICK op \in RoomOps \ {"create"}, r \in Rooms, a \in Users, S \in SUBSET Users :
            /\ op \in {"add", "role", "remove"} => \E u \in Users : S = {u}
            /\ RoomGo(h, [NoRoomReq EXCEPT !.op = op, !.at = "room", !.room = r,
                                           !.actor = a, !.who = S])
      BY <1>4 DEF StartRequest
    <2> DEFINE n == [NoRoomReq EXCEPT !.op = op, !.at = "room", !.room = r, !.actor = a, !.who = S]
    <2>2. n \in RoomReqs /\ Shape(n)
      BY <2>1, RoomOpsAssumption DEF NoRoomReq, RoomReqs, Shape
    <2> QED BY <2>1, <2>2, GoShape
  <1>5. CASE AssertRoomExists(h)
    <2>1. /\ Shape([q EXCEPT !.at = "write"]) \/ q.op # "delete"
          /\ Shape([q EXCEPT !.at = "permit"]) /\ Shape([q EXCEPT !.at = "read"])
      BY <1>0, <1>5 DEF AssertRoomExists, Shape, RoomReqs, NoRoomReq, q
    <2> QED BY <2>1, <1>5, FinishShape, ProceedShape DEF AssertRoomExists, q
  <1>6. CASE AssertCanManageMembers(h)
    <2>1. /\ q.op = "remove" => Shape([q EXCEPT !.at = "write"])
          /\ Shape([q EXCEPT !.at = "read"])
      BY <1>0, <1>6 DEF AssertCanManageMembers, Shape, RoomReqs, NoRoomReq, q
    <2> QED BY <2>1, <1>6, FinishShape, ProceedShape DEF AssertCanManageMembers, q
  <1>7. CASE DeleteRoom(h)
    BY <1>7, FinishShape DEF DeleteRoom
  <1>8. CASE ReadTarget(h)
    <2>1. Shape([q EXCEPT !.at = "permit"]) /\ Shape([q EXCEPT !.at = "write"])
      BY <1>0, <1>8 DEF ReadTarget, RoomAt, Shape, RoomReqs, NoRoomReq, q
    <2> QED BY <2>1, <1>8, FinishShape, ProceedShape DEF ReadTarget, q
  <1>9. CASE WriteRole(h)
    BY <1>9, FinishShape DEF WriteRole
  <1>10. CASE ReadRemovable(h)
    <2> DEFINE S == {u \in q.who : member[q.room][u] \in Assignable}
               n == [q EXCEPT !.at = "write", !.who = S]
    <2>1. S \in SUBSET Users
      BY <1>0 DEF RoomReqs
    <2>2. n \in RoomReqs /\ Shape(n)
      <3> HIDE DEF S
      <3> QED BY <1>0, <1>10, <2>1 DEF ReadRemovable, RoomAt, Shape, RoomReqs, NoRoomReq, q
    <2>3. FinishRoom(h) \/ RoomGo(h, n)
      BY <1>10 DEF ReadRemovable, q
    <2> QED BY <2>2, <2>3, FinishShape, GoShape
  <1>11. CASE DeleteMembers(h)
    BY <1>11, FinishShape DEF DeleteMembers
  <1>12. CASE ReadInvited(h)
    <2>1. PICK u \in q.who :
            RoomGo(h, IF member[q.room][u] = "none" THEN [q EXCEPT !.at = "write", !.next = u]
                      ELSE IF q.op = "add" THEN NoRoomReq
                      ELSE AfterOne(q, u, q.added))
      BY <1>12 DEF ReadInvited, q
    <2>2. q.op \in {"add", "batch"} /\ q.at = "read" /\ q.who \subseteq Users /\ q.added \subseteq Users
      BY <1>0, <1>12 DEF ReadInvited, RoomAt, RoomReqs, q
    <2>3. [q EXCEPT !.at = "write", !.next = u] \in RoomReqs
      BY <1>0, <2>2 DEF RoomReqs
    <2>4. Shape([q EXCEPT !.at = "write", !.next = u])
      BY <1>0, <2>2 DEF RoomReqs, Shape, NoRoomReq
    <2>5. q.op # "add" => AfterOne(q, u, q.added) \in RoomReqs /\ Shape(AfterOne(q, u, q.added))
      BY <1>0, <2>2, AfterOneShape
    <2> QED BY <2>1, <2>3, <2>4, <2>5, NoReqType, GoShape
  <1>13. CASE InsertMember(h)
    <2>1. q.op \in {"add", "batch"} /\ q.at = "write" /\ q.next \in q.who
          /\ RoomGo(h, AfterOne(q, q.next, q.added \union {q.next}))
      BY <1>0, <1>13 DEF InsertMember, RoomAt, Shape, q
    <2>2. q.added \union {q.next} \in SUBSET Users
      BY <1>0, <2>1 DEF RoomReqs
    <2>3. /\ AfterOne(q, q.next, q.added \union {q.next}) \in RoomReqs
          /\ Shape(AfterOne(q, q.next, q.added \union {q.next}))
      BY <1>0, <2>1, <2>2, AfterOneShape
    <2> QED BY <2>1, <2>3, GoShape
  <1>14. CASE ReadExisting(h)
    <2> DEFINE S == q.who \ Members(q.room)
               n == [q EXCEPT !.at = "write", !.who = S]
    <2>1. S \in SUBSET Users
      BY <1>0 DEF RoomReqs
    <2>2. n \in RoomReqs /\ Shape(n)
      <3> HIDE DEF S
      <3> QED BY <1>0, <1>14, <2>1 DEF ReadExisting, RoomAt, Shape, RoomReqs, NoRoomReq, q
    <2>3. FinishRoom(h) \/ RoomGo(h, n)
      BY <1>14 DEF ReadExisting, q
    <2> QED BY <2>2, <2>3, FinishShape, GoShape
  <1>15. CASE InsertMembers(h)
    <2> DEFINE n == [q EXCEPT !.at = "tell", !.who = {}, !.added = q.who]
    <2>1. n \in RoomReqs /\ Shape(n)
      BY <1>0, <1>15 DEF InsertMembers, RoomAt, Shape, RoomReqs, NoRoomReq, q
    <2>2. RoomGo(h, n)
      BY <1>15 DEF InsertMembers, q
    <2> QED BY <2>1, <2>2, GoShape
  <1>16. CASE TellMembers(h)
    BY <1>16, FinishShape DEF TellMembers
  <1>17. CASE FailRoom(h)
    BY <1>17, FinishShape DEF FailRoom
  <1> QED
    BY <1>1, <1>2, <1>3, <1>4, <1>5, <1>6, <1>7, <1>8, <1>9, <1>10, <1>11, <1>12, <1>13,
       <1>14, <1>15, <1>16, <1>17 DEF RoomStep

------------------------------------------------------------------------------
(* The tables *)

(* The operations that are about to take users from a room, or to change   *)
(* their role, have spared its creator; every room of a request exists.    *)
Target(q) ==
  /\ q.room # None => room[q.room] # NoRoom
  /\ (\/ q.op = "remove" /\ q.at \in {"permit", "write"}
      \/ q.op \in {"role", "bulkRemove"} /\ q.at = "write")
       => room[q.room].creator \notin q.who

TargetOK == \A h \in Handlers : Target(roomReq[h])

OwnerOK ==
  \A r \in Rooms : room[r] # NoRoom =>
    \A u \in Users : member[r][u] = "owner" <=> u = room[r].creator

(* Only members of rooms that exist, and notices of members only.          *)
RowsOK ==
  /\ room \in [Rooms -> RoomRows \union {NoRoom}]
  /\ member \in [Rooms -> [Users -> Roles \union {"none"}]]
  /\ notice \in [Rooms -> [Users -> Notices]]
  /\ raced \subseteq SUBSET Rooms
  /\ altered \subseteq Rooms
  /\ \A r \in Rooms, u \in Users :
       /\ room[r] = NoRoom => member[r][u] = "none"
       /\ notice[r][u] # "none" => member[r][u] # "none"

(* What a statement can do to rooms and members.                           *)
Kept == UNCHANGED <<room, member, raced, altered>>

Deleted(r) == /\ room[r] # NoRoom /\ room' = [room EXCEPT ![r].deleted = TRUE]
              /\ UNCHANGED <<member, notice, raced, altered>>

Joined(r, S, x) == /\ room[r] # NoRoom /\ \A u \in S : member[r][u] = "none"
                   /\ Enter(r, S, x) /\ UNCHANGED <<room, raced>>

Left(r, S) == /\ room[r] # NoRoom /\ room[r].creator \notin S
              /\ Exit(r, S) /\ UNCHANGED <<room, raced>>

Promoted(r, u, x) == /\ room[r] # NoRoom /\ room[r].creator # u /\ member[r][u] # "none"
                     /\ member' = [member EXCEPT ![r] = [member[r] EXCEPT ![u] = x]]
                     /\ UNCHANGED <<room, notice, raced, altered>>

Core == RoomTypeOK /\ ShapeOK /\ TargetOK /\ OwnerOK

LEMMA TableStep ==
  ASSUME Core, NEW h \in Handlers, RoomStep(h)
  PROVE  \/ Kept /\ (UNCHANGED notice \/ TellMembers(h) \/ FailRoom(h))
         \/ \E r \in Rooms : Deleted(r)
         \/ InsertRoom(h)
         \/ \E r \in Rooms, S \in SUBSET Users, x \in Assignable : Joined(r, S, x)
         \/ \E r \in Rooms, S \in SUBSET Users : Left(r, S)
         \/ \E r \in Rooms, u \in Users, x \in Assignable : Promoted(r, u, x)
  <1> DEFINE q == roomReq[h]
  <1>0. q \in RoomReqs /\ Shape(q) /\ Target(q) /\ None \notin Rooms
    BY NoneAssumption DEF RoomTypeOK, ShapeOK, TargetOK, Core
  <1>r. q.op \notin {"none", "create"} => q.room \in Rooms /\ room[q.room] # NoRoom
    BY <1>0 DEF Shape, Target
  <1> HIDE DEF q
  <1>1. CASE DeleteRoom(h)
    <2>1. Deleted(q.room)
      BY <1>1, <1>r DEF DeleteRoom, RoomAt, Deleted, q
    <2> QED BY <1>1, <2>1, <1>r DEF DeleteRoom, RoomAt, q
  <1>2. CASE WriteRole(h)
    <2>1. q.op = "role" /\ q.at = "write" /\ UNCHANGED <<room, notice, raced, altered>>
      BY <1>2 DEF WriteRole, RoomAt, q
    <2>2. PICK u \in q.who, x \in Assignable :
            member' = IF member[q.room][u] = "none" THEN member
                      ELSE [member EXCEPT ![q.room] = [member[q.room] EXCEPT ![u] = x]]
      BY <1>2 DEF WriteRole, ResolveRoleId, q
    <2>3. u \in Users
      BY <1>0 DEF RoomReqs
    <2>4. CASE member[q.room][u] = "none"
      BY <2>1, <2>2, <2>4 DEF Kept
    <2>5. CASE member[q.room][u] # "none"
      <3>1. room[q.room].creator # u
        BY <1>0, <2>1 DEF Target
      <3>2. Promoted(q.room, u, x)
        BY <1>r, <2>1, <2>2, <2>5, <3>1 DEF Promoted
      <3> QED BY <1>r, <2>1, <2>3, <3>2
    <2> QED BY <2>4, <2>5
  <1>3. CASE DeleteMembers(h)
    <2>1. q.op \in {"remove", "bulkRemove"} /\ q.at = "write"
      BY <1>3 DEF DeleteMembers, RoomAt, q
    <2>2. room[q.room].creator \notin q.who
      BY <1>0, <2>1 DEF Target
    <2>3. Left(q.room, q.who)
      BY <1>3, <1>r, <2>1, <2>2 DEF DeleteMembers, Left, q
    <2> QED BY <1>0, <1>r, <2>1, <2>3 DEF RoomReqs
  <1>4. CASE InsertMember(h)
    <2>1. q.op \in {"add", "batch"} /\ q.at = "write" /\ member[q.room][q.next] = "none"
      BY <1>4 DEF InsertMember, RoomAt, q
    <2>2. PICK x \in Assignable : Enter(q.room, {q.next}, x)
      BY <1>4 DEF InsertMember, ResolveRoleId, q
    <2>3. q.next \in Users
      BY <1>0, <2>1 DEF Shape, RoomReqs
    <2>4. Joined(q.room, {q.next}, x)
      BY <1>4, <1>r, <2>1, <2>2 DEF InsertMember, Joined
    <2> QED BY <1>r, <2>1, <2>3, <2>4
  <1>5. CASE InsertMembers(h)
    <2>1. q.op = "bulkAdd"
      BY <1>5 DEF InsertMembers, RoomAt, q
    <2>2. PICK x \in Assignable : Enter(q.room, q.who \ Members(q.room), x)
      BY <1>5 DEF InsertMembers, ResolveRoleId, q
    <2>3. q.who \ Members(q.room) \in SUBSET Users
      BY <1>0 DEF RoomReqs
    <2>4. Joined(q.room, q.who \ Members(q.room), x)
      <3>1. \A u \in q.who \ Members(q.room) : member[q.room][u] = "none"
        BY <2>3 DEF Members
      <3> QED BY <1>5, <1>r, <2>1, <2>2, <3>1 DEF InsertMembers, Joined
    <2> QED BY <1>r, <2>1, <2>3, <2>4
  <1>6. CASE ~(DeleteRoom(h) \/ WriteRole(h) \/ DeleteMembers(h) \/ InsertMember(h)
               \/ InsertMembers(h) \/ InsertRoom(h))
    BY <1>6 DEF RoomStep, Kept, StartCreate, FindDirectRoom, StartRequest, AssertRoomExists,
         AssertCanManageMembers, ReadTarget, ReadRemovable, ReadInvited, ReadExisting,
         TellMembers, FailRoom
  <1> QED BY <1>1, <1>2, <1>3, <1>4, <1>5, <1>6

LEMMA RowsStep ==
  ASSUME Core, NEW h \in Handlers, RoomStep(h)
  PROVE  RowsOK'
  <1>0. RowsOK /\ None \notin Users
    BY NoneAssumption DEF Core, RoomTypeOK, RowsOK
  <1> DEFINE q == roomReq[h]
  <1>q. q \in RoomReqs /\ Shape(q)
    BY DEF Core, RoomTypeOK, ShapeOK
  <1>1. CASE TellMembers(h)
    <2>1. q.room \in Rooms
      BY <1>q, <1>1 DEF TellMembers, Shape
    <2> QED BY <1>0, <1>1, <2>1 DEF TellMembers, RowsOK, Notices
  <1>2. CASE FailRoom(h)
    <2>1. q.room \in Rooms \union {None}
      BY <1>q DEF RoomReqs
    <2>2. CASE q.room = None
      BY <1>0, <1>2, <2>2 DEF FailRoom, RowsOK
    <2>3. CASE q.room # None
      BY <1>0, <1>2, <2>1, <2>3 DEF FailRoom, RowsOK, Notices
    <2> QED BY <2>2, <2>3
  <1>3. CASE InsertRoom(h)
    <2>1. q.op = "create" /\ q.at = "write" /\ q.actor \in Users /\ q.type \in Types
          /\ q.missed \subseteq Rooms
      BY <1>q, <1>3 DEF InsertRoom, RoomAt, Shape, RoomReqs
    <2>2. PICK r \in Rooms, x \in Assignable :
            /\ room' = [room EXCEPT ![r] = [type |-> q.type, creator |-> q.actor, deleted |-> FALSE]]
            /\ member' = [member EXCEPT ![r] =
                            [u \in Users |-> IF u = q.actor THEN "owner"
                                             ELSE IF u \in q.who THEN x ELSE "none"]]
            /\ notice' = [notice EXCEPT ![r] =
                            [u \in Users |-> IF u \in q.who THEN "due" ELSE "none"]]
            /\ raced' = raced \union {{r, y} : y \in q.missed}
            /\ UNCHANGED altered
      BY <1>3 DEF InsertRoom, ResolveRoleId
    <2>3. [type |-> q.type, creator |-> q.actor, deleted |-> FALSE] \in RoomRows \ {NoRoom}
      BY <1>0, <2>1 DEF RoomRows, NoRoom, Types
    <2> HIDE DEF q
    <2>4. room' \in [Rooms -> RoomRows \union {NoRoom}]
      BY <1>0, <2>2, <2>3 DEF RowsOK
    <2>5. /\ member' \in [Rooms -> [Users -> Roles \union {"none"}]]
          /\ notice' \in [Rooms -> [Users -> Notices]]
      BY <1>0, <2>2 DEF RowsOK, Roles, Assignable, Notices
    <2>6. raced' \subseteq SUBSET Rooms /\ altered' \subseteq Rooms
      <3>1. \A y \in q.missed : {r, y} \subseteq Rooms
        BY <2>1
      <3>2. raced \subseteq SUBSET Rooms /\ altered \subseteq Rooms
        BY <1>0 DEF RowsOK
      <3>3. raced' = raced \union {{r, y} : y \in q.missed} /\ altered' = altered
        BY <2>2
      <3> QED BY <3>1, <3>2, <3>3
    <2>7. ASSUME NEW y \in Rooms, NEW u \in Users
          PROVE  /\ room'[y] = NoRoom => member'[y][u] = "none"
                 /\ notice'[y][u] # "none" => member'[y][u] # "none"
      BY <1>0, <2>2, <2>3 DEF RowsOK, Assignable
    <2> QED BY <2>4, <2>5, <2>6, <2>7 DEF RowsOK
  <1>4. ASSUME NEW r \in Rooms, NEW S \in SUBSET Users, NEW x \in Assignable, Joined(r, S, x)
        PROVE  RowsOK'
    BY <1>0, <1>4 DEF Joined, Enter, RowsOK, Roles, Assignable, Notices
  <1>5. ASSUME NEW r \in Rooms, NEW S \in SUBSET Users, Left(r, S)
        PROVE  RowsOK'
    BY <1>0, <1>5 DEF Left, Exit, RowsOK, Notices
  <1>6. ASSUME NEW r \in Rooms, NEW u \in Users, NEW x \in Assignable, Promoted(r, u, x)
        PROVE  RowsOK'
    BY <1>0, <1>6 DEF Promoted, RowsOK, Roles, Assignable
  <1>7. ASSUME NEW r \in Rooms, Deleted(r)
        PROVE  RowsOK'
    <2>1. room[r] \in RoomRows
      BY <1>0, <1>7 DEF Deleted, RowsOK
    <2>2. [room[r] EXCEPT !.deleted = TRUE] \in RoomRows \ {NoRoom}
      BY <2>1, <1>0 DEF RoomRows, NoRoom
    <2> QED BY <1>0, <1>7, <2>2 DEF Deleted, RowsOK
  <1>8. CASE Kept /\ UNCHANGED notice
    BY <1>0, <1>8 DEF Kept, RowsOK
  <1> QED BY <1>1, <1>2, <1>3, <1>4, <1>5, <1>6, <1>7, <1>8, TableStep

(* Rooms stay, with their creator.                                         *)
LEMMA CreatorStays ==
  ASSUME Core, NEW h \in Handlers, RoomStep(h), NEW r \in Rooms, room[r] # NoRoom
  PROVE  room'[r] # NoRoom /\ room'[r].creator = room[r].creator
  <1>0. room[r] \in RoomRows /\ room \in [Rooms -> RoomRows \union {NoRoom}] /\ None \notin Users
    BY NoneAssumption DEF Core, RoomTypeOK
  <1>1. ASSUME NEW y \in Rooms, Deleted(y)
        PROVE  room'[r] # NoRoom /\ room'[r].creator = room[r].creator
    BY <1>0, <1>1 DEF Deleted, RoomRows, NoRoom
  <1>2. CASE InsertRoom(h)
    <2>1. PICK y \in Rooms : room[y] = NoRoom /\ \A z \in Rooms \ {y} : room'[z] = room[z]
      BY <1>0, <1>2 DEF InsertRoom
    <2> QED BY <2>1
  <1>3. CASE UNCHANGED room
    BY <1>3
  <1> QED BY <1>1, <1>2, <1>3, TableStep DEF Kept, Joined, Left, Promoted

LEMMA OwnerStep ==
  ASSUME Core, NEW h \in Handlers, RoomStep(h)
  PROVE  OwnerOK'
  <1>0. /\ RowsOK /\ OwnerOK /\ None \notin Users
        /\ \A r \in Rooms, u \in Users : member[r][u] \in Roles \union {"none"}
    BY NoneAssumption DEF Core, RoomTypeOK, RowsOK
  <1>1. ASSUME NEW r \in Rooms, Deleted(r)
        PROVE  OwnerOK'
    <2>1. room[r].creator = room'[r].creator
      BY <1>1, CreatorStays DEF Deleted
    <2>2. \A y \in Rooms \ {r} : room'[y] = room[y]
      BY <1>0, <1>1 DEF Deleted, RowsOK
    <2> QED BY <1>0, <1>1, <2>1, <2>2 DEF Deleted, OwnerOK
  <1>2. CASE InsertRoom(h)
    <2> DEFINE q == roomReq[h]
    <2>1. q.actor \in Users /\ q.actor \notin q.who
      BY <1>2 DEF InsertRoom, RoomAt, Shape, ShapeOK, Core
    <2>2. PICK r \in Rooms, x \in Assignable :
            /\ room' = [room EXCEPT ![r] = [type |-> q.type, creator |-> q.actor, deleted |-> FALSE]]
            /\ member' = [member EXCEPT ![r] =
                            [u \in Users |-> IF u = q.actor THEN "owner"
                                             ELSE IF u \in q.who THEN x ELSE "none"]]
      BY <1>2 DEF InsertRoom, ResolveRoleId
    <2> HIDE DEF q
    <2>3. room'[r].creator = q.actor /\ \A u \in Users : member'[r][u] = "owner" <=> u = q.actor
      BY <1>0, <2>1, <2>2 DEF RowsOK, Assignable
    <2>4. \A y \in Rooms \ {r} : room'[y] = room[y] /\ member'[y] = member[y]
      BY <1>0, <2>2 DEF RowsOK
    <2> QED BY <1>0, <2>3, <2>4 DEF OwnerOK
  <1>3. ASSUME NEW r \in Rooms, NEW S \in SUBSET Users, NEW x \in Assignable, Joined(r, S, x)
        PROVE  OwnerOK'
    BY <1>0, <1>3 DEF Joined, Enter, RowsOK, OwnerOK, Assignable
  <1>4. ASSUME NEW r \in Rooms, NEW S \in SUBSET Users, Left(r, S)
        PROVE  OwnerOK'
    BY <1>0, <1>4 DEF Left, Exit, RowsOK, OwnerOK
  <1>5. ASSUME NEW r \in Rooms, NEW u \in Users, NEW x \in Assignable, Promoted(r, u, x)
        PROVE  OwnerOK'
    BY <1>0, <1>5 DEF Promoted, RowsOK, OwnerOK, Assignable
  <1>6. CASE Kept
    BY <1>0, <1>6 DEF Kept, OwnerOK
  <1> QED BY <1>1, <1>2, <1>3, <1>4, <1>5, <1>6, TableStep

(* The other requests stay as they are, up to the rooms they have missed.  *)
LEMMA OthersStay ==
  ASSUME RoomTypeOK, NEW h \in Handlers, RoomStep(h), NEW g \in Handlers, g # h
  PROVE  /\ roomReq'[g].op = roomReq[g].op /\ roomReq'[g].at = roomReq[g].at
         /\ roomReq'[g].room = roomReq[g].room /\ roomReq'[g].who = roomReq[g].who
         /\ roomReq'[g].actor = roomReq[g].actor /\ roomReq'[g].added = roomReq[g].added
         /\ roomReq'[g].type = roomReq[g].type
         /\ ~InsertRoom(h) => roomReq'[g] = roomReq[g]
  <1>0. roomReq[g] \in RoomReqs
    BY DEF RoomTypeOK
  <1>1. CASE InsertRoom(h)
    <2>1. PICK r \in Rooms :
            roomReq'[g] = IF RoomAt(g, {"create"}, "write")
                          THEN [roomReq[g] EXCEPT !.missed = roomReq[g].missed \union {r}]
                          ELSE roomReq[g]
      BY <1>1 DEF InsertRoom
    <2> QED BY <1>0, <1>1, <2>1 DEF RoomReqs
  <1>2. ASSUME NEW n, RoomGo(h, n)
        PROVE  roomReq'[g] = roomReq[g]
    BY <1>2 DEF RoomTypeOK, RoomGo
  <1>3. ~InsertRoom(h) => \E n : RoomGo(h, n)
    BY DEF RoomStep, StartCreate, FindDirectRoom, StartRequest, AssertRoomExists,
           AssertCanManageMembers, DeleteRoom, ReadTarget, WriteRole, ReadRemovable,
           DeleteMembers, ReadInvited, InsertMember, ReadExisting, InsertMembers,
           TellMembers, FailRoom, FinishRoom, RoomProceed
  <1> QED BY <1>1, <1>2, <1>3

(* The room of the own request, and what is spared when it is written.     *)
LEMMA OwnTarget ==
  ASSUME Core, NEW h \in Handlers, RoomStep(h)
  PROVE  /\ roomReq'[h].room # None => room'[roomReq'[h].room] # NoRoom
         /\ (\/ roomReq'[h].op = "remove" /\ roomReq'[h].at \in {"permit", "write"}
             \/ roomReq'[h].op \in {"role", "bulkRemove"} /\ roomReq'[h].at = "write")
              => UNCHANGED room /\ room[roomReq'[h].room].creator \notin roomReq'[h].who
  <1> DEFINE q == roomReq[h]
             n == roomReq'[h]
  <1>0. q \in RoomReqs /\ Shape(q) /\ Target(q) /\ roomReq \in [Handlers -> RoomReqs]
    BY DEF Core, RoomTypeOK, ShapeOK, TargetOK
  <1>c. q.room # None => room'[q.room] # NoRoom
    BY <1>0, CreatorStays DEF Target, RoomReqs
  <1>f. FinishRoom(h) => n = NoRoomReq
    BY <1>0 DEF FinishRoom, RoomGo
  <1>n. NoRoomReq.room = None /\ NoRoomReq.op = "none"
    BY DEF NoRoomReq
  <1>p. ASSUME NEW at, RoomProceed(h, at)
        PROVE  n.at = at /\ n.op = q.op /\ n.room = q.room /\ n.who = q.who
    BY <1>0, <1>p DEF RoomProceed, RoomGo, RoomReqs
  <1>g. ASSUME NEW x, RoomGo(h, x) PROVE n = x
    BY <1>0, <1>g DEF RoomGo
  <1> HIDE DEF q, n
  <1>1. CASE StartCreate(h)
    <2>1. PICK c \in Users, type \in Types : \E S \in SUBSET (Users \ {c}) :
            n = [NoRoomReq EXCEPT !.op = "create", !.actor = c, !.type = type, !.who = S,
                         !.at = IF type = "DIRECT" /\ S # {} THEN "find" ELSE "write"]
      BY <1>1, <1>g DEF StartCreate
    <2>2. n.room = None /\ n.op = "create"
      BY <2>1 DEF NoRoomReq
    <2> QED BY <2>2 DEF n
  <1>2. CASE FindDirectRoom(h)
    <2>1. q.op = "create" /\ (FinishRoom(h) \/ RoomProceed(h, "write"))
      BY <1>2 DEF FindDirectRoom, RoomAt, q
    <2>2. n = NoRoomReq \/ (n.op = "create" /\ n.room = q.room)
      BY <2>1, <1>f, <1>p
    <2> QED BY <2>2, <1>c, <1>n DEF n
  <1>3. CASE InsertRoom(h)
    <2>1. PICK r \in Rooms :
            /\ room' = [room EXCEPT ![r] = [type |-> q.type, creator |-> q.actor, deleted |-> FALSE]]
            /\ n = IF q.who = {} THEN NoRoomReq
                   ELSE [q EXCEPT !.at = "tell", !.room = r, !.added = q.who, !.missed = {}]
      BY <1>3 DEF InsertRoom, q, n
    <2>2. q.op = "create" /\ q.actor \in Users /\ None \notin Users
      BY <1>0, <1>3, NoneAssumption DEF InsertRoom, RoomAt, Shape, q
    <2>3. room'[r] # NoRoom
      BY <2>1, <2>2 DEF Core, RoomTypeOK, NoRoom
    <2>4. n = NoRoomReq \/ (n.room = r /\ n.op = "create")
      BY <1>0, <2>1, <2>2 DEF RoomReqs
    <2> QED BY <2>3, <2>4, <1>n DEF n
  <1>4. CASE StartRequest(h)
    <2>1. PICK op \in RoomOps \ {"create"}, r \in Rooms, a \in Users, S \in SUBSET Users :
            room[r] # NoRoom /\ RoomGo(h, [NoRoomReq EXCEPT !.op = op, !.at = "room", !.room = r,
                                                            !.actor = a, !.who = S])
      BY <1>4 DEF StartRequest
    <2>2. n.room = r /\ n.at = "room"
      BY <2>1, <1>g DEF NoRoomReq
    <2> QED BY <1>4, <2>1, <2>2 DEF n, StartRequest
  <1>5. CASE AssertRoomExists(h)
    <2>1. q.at = "room" /\ (FinishRoom(h) \/ \E at : RoomProceed(h, at) /\
            at = CASE q.op = "delete" -> "write" [] q.op \in {"role", "bulkRemove"} -> "permit"
                   [] OTHER -> "read")
      BY <1>5 DEF AssertRoomExists, q
    <2>2. n = NoRoomReq \/ (n.room = q.room /\ n.op = q.op /\
            n.at = CASE q.op = "delete" -> "write" [] q.op \in {"role", "bulkRemove"} -> "permit"
                   [] OTHER -> "read")
      BY <2>1, <1>f, <1>p
    <2> QED BY <2>2, <1>c, <1>n DEF n
  <1>6. CASE AssertCanManageMembers(h)
    <2>1. q.at = "permit" /\ (FinishRoom(h) \/ RoomProceed(h, IF q.op = "remove" THEN "write" ELSE "read"))
          /\ UNCHANGED room
      BY <1>6 DEF AssertCanManageMembers, q
    <2>2. n = NoRoomReq \/ (/\ n.room = q.room /\ n.op = q.op /\ n.who = q.who
                            /\ n.at = IF q.op = "remove" THEN "write" ELSE "read")
      BY <2>1, <1>f, <1>p
    <2>3. q.op = "remove" => room[q.room].creator \notin q.who
      BY <1>0, <2>1 DEF Target
    <2> QED BY <2>1, <2>2, <2>3, <1>c, <1>n DEF n
  <1>7. CASE ReadTarget(h)
    <2>1. UNCHANGED room /\ (FinishRoom(h) \/
            (/\ \A u \in q.who : member[q.room][u] \in Assignable
             /\ RoomProceed(h, IF q.op = "remove" THEN "permit" ELSE "write")))
      BY <1>7 DEF ReadTarget, q
    <2>2. q.op \in {"role", "remove"}
      BY <1>7 DEF ReadTarget, RoomAt, q
    <2>3. q.room \in Rooms /\ room[q.room] # NoRoom /\ q.who \subseteq Users
      BY <1>0, <2>2, NoneAssumption DEF Shape, Target, RoomReqs
    <2>4. (\A u \in q.who : member[q.room][u] \in Assignable) => room[q.room].creator \notin q.who
      BY <2>3 DEF Core, OwnerOK, Assignable
    <2>5. n = NoRoomReq \/ (/\ n.room = q.room /\ n.op = q.op /\ n.who = q.who
                            /\ room[q.room].creator \notin q.who)
      BY <2>1, <2>4, <1>f, <1>p
    <2> QED BY <2>1, <2>5, <1>c, <1>n DEF n
  <1>8. CASE ReadRemovable(h)
    <2> DEFINE S == {u \in q.who : member[q.room][u] \in Assignable}
    <2>1. UNCHANGED room /\ (FinishRoom(h) \/ RoomGo(h, [q EXCEPT !.at = "write", !.who = S]))
      BY <1>8 DEF ReadRemovable, q
    <2>2. q.op = "bulkRemove"
      BY <1>8 DEF ReadRemovable, RoomAt, q
    <2>3. q.room \in Rooms /\ room[q.room] # NoRoom /\ q.who \subseteq Users
      BY <1>0, <2>2, NoneAssumption DEF Shape, Target, RoomReqs
    <2>4. room[q.room].creator \notin S
      BY <2>3 DEF Core, OwnerOK, Assignable
    <2> HIDE DEF S
    <2>5. n = NoRoomReq \/ (n.room = q.room /\ n.who = S)
      BY <1>0, <2>1, <1>f, <1>g DEF RoomReqs
    <2> QED BY <2>1, <2>4, <2>5, <1>c, <1>n DEF n
  <1>9. CASE DeleteRoom(h) \/ WriteRole(h) \/ DeleteMembers(h) \/ TellMembers(h) \/ FailRoom(h)
    <2>1. n = NoRoomReq
      BY <1>9, <1>f DEF DeleteRoom, WriteRole, DeleteMembers, TellMembers, FailRoom
    <2> QED BY <2>1, <1>n DEF n
  <1>10. CASE ReadInvited(h) \/ InsertMember(h) \/ ReadExisting(h) \/ InsertMembers(h)
    <2>1. q.op \in {"add", "batch", "bulkAdd"}
      BY <1>10 DEF ReadInvited, InsertMember, ReadExisting, InsertMembers, RoomAt, q
    <2>2. n = NoRoomReq \/ (n.room = q.room /\ n.op = q.op)
      <3>1. CASE ReadInvited(h)
        <4>1. PICK u \in q.who :
                RoomGo(h, IF member[q.room][u] = "none" THEN [q EXCEPT !.at = "write", !.next = u]
                          ELSE IF q.op = "add" THEN NoRoomReq
                          ELSE AfterOne(q, u, q.added))
          BY <3>1 DEF ReadInvited, q
        <4>2. LET p == AfterOne(q, u, q.added) IN
              p = NoRoomReq \/ (p.room = q.room /\ p.op = q.op)
          BY <1>0 DEF AfterOne, RoomReqs
        <4>3. LET p == [q EXCEPT !.at = "write", !.next = u] IN p.room = q.room /\ p.op = q.op
          BY <1>0 DEF RoomReqs
        <4> QED BY <4>1, <4>2, <4>3, <1>g
      <3>2. CASE InsertMember(h)
        BY <3>2, <1>0, <1>g DEF InsertMember, AfterOne, RoomReqs, q
      <3>3. CASE ReadExisting(h)
        BY <3>3, <1>0, <1>g DEF ReadExisting, FinishRoom, RoomReqs, q
      <3>4. CASE InsertMembers(h)
        BY <3>4, <1>0, <1>g DEF InsertMembers, RoomReqs, q
      <3> QED BY <1>10, <3>1, <3>2, <3>3, <3>4
    <2> QED BY <2>1, <2>2, <1>c, <1>n DEF n
  <1> QED
    BY <1>1, <1>2, <1>3, <1>4, <1>5, <1>6, <1>7, <1>8, <1>9, <1>10 DEF RoomStep

LEMMA TargetStep ==
  ASSUME Core, NEW h \in Handlers, RoomStep(h)
  PROVE  TargetOK'
  <1> SUFFICES ASSUME NEW g \in Handlers PROVE Target(roomReq[g])'
    BY DEF TargetOK
  <1>1. CASE g = h
    BY <1>1, OwnTarget DEF Target
  <1>2. CASE g # h
    <2>1. Target(roomReq[g]) /\ roomReq[g] \in RoomReqs /\ Shape(roomReq[g]) /\ RoomTypeOK
      BY DEF Core, TargetOK, RoomTypeOK, ShapeOK
    <2>2. roomReq[g].room # None => /\ room'[roomReq[g].room] # NoRoom
                                    /\ room'[roomReq[g].room].creator = room[roomReq[g].room].creator
      BY <2>1, CreatorStays DEF Target, RoomReqs
    <2>3. roomReq[g].op \in {"remove", "role", "bulkRemove"} => roomReq[g].room # None
      BY <2>1, NoneAssumption DEF Shape
    <2> QED BY <1>2, <2>1, <2>2, <2>3, OthersStay DEF Target
  <1> QED BY <1>1, <1>2

------------------------------------------------------------------------------
(* The core of the invariant *)

LEMMA CoreInit == RoomInit => Core
  <1> SUFFICES ASSUME RoomInit PROVE Core
    OBVIOUS
  <1>1. RoomTypeOK
    BY NoReqType DEF RoomInit, RoomTypeOK, Notices
  <1>2. ShapeOK /\ TargetOK
    BY NoReqType DEF RoomInit, ShapeOK, TargetOK, Target, NoRoomReq
  <1>3. OwnerOK
    BY DEF RoomInit, OwnerOK
  <1> QED BY <1>1, <1>2, <1>3 DEF Core

LEMMA CoreStep ==
  ASSUME Core, NEW h \in Handlers, RoomStep(h), WatchManagers
  PROVE  Core'
  <1>1. RowsOK' /\ OwnerOK' /\ TargetOK'
    BY RowsStep, OwnerStep, TargetStep
  <1>2. roomReq' \in [Handlers -> RoomReqs] /\ ShapeOK'
    BY RequestStep DEF Core
  <1>3. managed' \in [Handlers -> BOOLEAN]
    BY DEF WatchManagers, Core, RoomTypeOK
  <1>4. RoomTypeOK'
    BY <1>1, <1>2, <1>3 DEF RowsOK, RoomTypeOK
  <1> QED BY <1>1, <1>2, <1>4 DEF Core

LEMMA CoreStays == Core /\ [RoomNext]_roomVars => Core'
  <1>1. ASSUME Core, UNCHANGED roomVars PROVE Core'
    BY <1>1 DEF roomVars, Core, RoomTypeOK, ShapeOK, TargetOK, Target, OwnerOK
  <1> QED BY <1>1, CoreStep DEF RoomNext

(* Rooms, members, notices and requests keep their types, and only members *)
(* of rooms that exist have a role or a notice.                            *)
THEOREM RoomTypeCorrect == RoomSpec => []RoomTypeOK
  <1>1. Core => RoomTypeOK
    BY DEF Core
  <1> QED BY <1>1, CoreInit, CoreStays, PTL DEF RoomSpec

------------------------------------------------------------------------------
(* Memberships *)

LEMMA SameRoles == Promised!Assignable = Assignable
  BY DEF Promised!Assignable, Assignable

LEMMA MembershipStep ==
  ASSUME Core, NEW h \in Handlers, RoomStep(h)
  PROVE  Promised!MembershipNext \/ UNCHANGED member
  <1>0. /\ RowsOK /\ OwnerOK /\ None \notin Users
        /\ \A r \in Rooms : room[r] # NoRoom => room[r] \in RoomRows
    BY NoneAssumption DEF Core, RoomTypeOK, RowsOK
  <1>1. CASE InsertRoom(h)
    <2> DEFINE q == roomReq[h]
    <2>1. q.actor \in Users /\ q.actor \notin q.who /\ q.who \in SUBSET Users
      BY <1>1 DEF InsertRoom, RoomAt, Shape, ShapeOK, Core, RoomTypeOK, RoomReqs
    <2> HIDE DEF q
    <2>2. PICK r \in Rooms, x \in Assignable :
            /\ room[r] = NoRoom
            /\ member' = [member EXCEPT ![r] =
                            [u \in Users |-> IF u = q.actor THEN "owner"
                                             ELSE IF u \in q.who THEN x ELSE "none"]]
      BY <1>1 DEF InsertRoom, ResolveRoleId, q
    <2>3. member[r] = Promised!Empty
      BY <1>0, <2>2 DEF RowsOK, Promised!Empty
    <2>4. Promised!Found(r, q.actor, q.who, x)
      BY <2>1, <2>2, <2>3 DEF Promised!Found
    <2> QED BY <2>1, <2>2, <2>4, SameRoles DEF Promised!MembershipNext
  <1>2. ASSUME NEW r \in Rooms, NEW S \in SUBSET Users, NEW x \in Assignable, Joined(r, S, x)
        PROVE  Promised!MembershipNext
    <2>1. room[r].creator \in Users /\ member[r][room[r].creator] = "owner"
      BY <1>0, <1>2 DEF Joined, OwnerOK, RoomRows
    <2>2. member[r] # Promised!Empty
      BY <2>1 DEF Promised!Empty
    <2>3. Promised!Join(r, S, x)
      BY <1>2, <2>2 DEF Joined, Enter, Promised!Join
    <2> QED BY <2>3, SameRoles DEF Promised!MembershipNext
  <1>3. ASSUME NEW r \in Rooms, NEW S \in SUBSET Users, Left(r, S)
        PROVE  Promised!MembershipNext
    <2> DEFINE L == {u \in S : member[r][u] # "none"}
    <2>1. \A u \in L : member[r][u] \in Assignable
      BY <1>0, <1>3 DEF Left, OwnerOK, RowsOK, Roles
    <2>2. member' = [member EXCEPT ![r] = [u \in Users |-> IF u \in L THEN "none" ELSE member[r][u]]]
      BY <1>3 DEF Left, Exit
    <2>3. L \in SUBSET Users
      OBVIOUS
    <2> HIDE DEF L
    <2>4. Promised!Leave(r, L)
      BY <2>1, <2>2, SameRoles DEF Promised!Leave
    <2> QED BY <2>3, <2>4, SameRoles DEF Promised!MembershipNext
  <1>4. ASSUME NEW r \in Rooms, NEW u \in Users, NEW x \in Assignable, Promoted(r, u, x)
        PROVE  Promised!MembershipNext
    <2>1. member[r][u] \in Assignable
      BY <1>0, <1>4 DEF Promoted, OwnerOK, RowsOK, Roles
    <2>2. Promised!Promote(r, u, x)
      BY <1>4, <2>1, SameRoles DEF Promoted, Promised!Promote
    <2> QED BY <2>2, SameRoles DEF Promised!MembershipNext
  <1>5. ASSUME NEW r \in Rooms, Deleted(r) PROVE UNCHANGED member
    BY <1>5 DEF Deleted
  <1>6. CASE Kept
    BY <1>6 DEF Kept
  <1> QED BY <1>1, <1>2, <1>3, <1>4, <1>5, <1>6, TableStep

(* Whatever requests meet, the creator stays the only owner of a room, and *)
(* users join, leave and change roles only as Membership allows.           *)
THEOREM MembershipKept == RoomSpec => KeepsMembership
  <1>1. RoomInit => Promised!MembershipInit
    BY DEF RoomInit, Promised!MembershipInit, Promised!Empty
  <1>2. Core /\ [RoomNext]_roomVars => [Promised!MembershipNext]_member
    BY MembershipStep DEF RoomNext, roomVars
  <1> QED BY <1>1, <1>2, CoreInit, CoreStays, PTL
            DEF RoomSpec, KeepsMembership, Promised!MembershipSpec

------------------------------------------------------------------------------
(* Managers *)

(* How a step moves the own request.                                       *)
LEMMA OwnMove ==
  ASSUME Core, NEW h \in Handlers, RoomStep(h)
  PROVE  \/ StartCreate(h) \/ StartRequest(h) \/ InsertRoom(h)
         \/ roomReq'[h] = NoRoomReq
         \/ /\ roomReq'[h].op = roomReq[h].op
            /\ roomReq'[h].actor = roomReq[h].actor
            /\ roomReq'[h].room = roomReq[h].room
            /\ AssertCanManageMembers(h) => roomReq'[h].who = roomReq[h].who
  <1> DEFINE q == roomReq[h]
             n == roomReq'[h]
  <1>0. q \in RoomReqs /\ Shape(q) /\ roomReq \in [Handlers -> RoomReqs]
    BY DEF Core, RoomTypeOK, ShapeOK
  <1>g. ASSUME NEW x, RoomGo(h, x) PROVE n = x
    BY <1>0, <1>g DEF RoomGo
  <1>p. ASSUME NEW at, RoomProceed(h, at)
        PROVE  /\ n.op = q.op /\ n.actor = q.actor /\ n.room = q.room
               /\ n.who = q.who
    BY <1>0, <1>p DEF RoomProceed, RoomGo, RoomReqs
  <1>f. FinishRoom(h) => n = NoRoomReq
    BY <1>g DEF FinishRoom
  <1> HIDE DEF q, n
  <1>1. CASE FindDirectRoom(h) \/ AssertRoomExists(h) \/ AssertCanManageMembers(h) \/ ReadTarget(h)
    <2>1. FinishRoom(h) \/ \E at : RoomProceed(h, at)
      BY <1>1 DEF FindDirectRoom, AssertRoomExists, AssertCanManageMembers, ReadTarget
    <2> QED BY <2>1, <1>f, <1>p DEF q, n
  <1>2. CASE DeleteRoom(h) \/ WriteRole(h) \/ DeleteMembers(h) \/ TellMembers(h) \/ FailRoom(h)
    BY <1>2, <1>f DEF DeleteRoom, WriteRole, DeleteMembers, TellMembers, FailRoom, n
  <1>3. ~AssertCanManageMembers(h) \/ q.at = "permit"
    BY DEF AssertCanManageMembers, q
  <1>4. CASE ReadRemovable(h)
    <2>1. q.at = "read" /\ q.op = "bulkRemove"
      BY <1>4 DEF ReadRemovable, RoomAt, q
    <2>2. PICK S : FinishRoom(h) \/ RoomGo(h, [q EXCEPT !.at = "write", !.who = S])
      BY <1>4 DEF ReadRemovable, q
    <2>3. n = NoRoomReq \/ n = [q EXCEPT !.at = "write", !.who = S]
      BY <2>2, <1>f, <1>g
    <2> QED BY <1>0, <1>3, <2>1, <2>3 DEF RoomReqs, q, n
  <1>5. CASE ReadInvited(h)
    <2>1. PICK u \in q.who :
            RoomGo(h, IF member[q.room][u] = "none" THEN [q EXCEPT !.at = "write", !.next = u]
                      ELSE IF q.op = "add" THEN NoRoomReq
                      ELSE AfterOne(q, u, q.added))
      BY <1>5 DEF ReadInvited, q
    <2>2. \/ n = [q EXCEPT !.at = "write", !.next = u]
          \/ n = NoRoomReq
          \/ n = AfterOne(q, u, q.added)
      BY <2>1, <1>g
    <2>3. n = NoRoomReq \/ (n.op = q.op /\ n.actor = q.actor /\ n.room = q.room)
      BY <1>0, <2>2 DEF RoomReqs, AfterOne
    <2>4. q.at = "read"
      BY <1>5 DEF ReadInvited, RoomAt, q
    <2> QED BY <1>3, <2>3, <2>4 DEF q, n
  <1>6. CASE InsertMember(h)
    <2>1. n = AfterOne(q, q.next, q.added \union {q.next}) /\ q.at = "write"
      BY <1>6, <1>g DEF InsertMember, RoomAt, q
    <2>2. n = NoRoomReq \/ (n.op = q.op /\ n.actor = q.actor /\ n.room = q.room)
      BY <1>0, <2>1 DEF RoomReqs, AfterOne
    <2> QED BY <1>3, <2>1, <2>2 DEF q, n
  <1>7. CASE ReadExisting(h)
    <2>1. q.at = "read"
      BY <1>7 DEF ReadExisting, RoomAt, q
    <2>2. PICK S : FinishRoom(h) \/ RoomGo(h, [q EXCEPT !.at = "write", !.who = S])
      BY <1>7 DEF ReadExisting, q
    <2>3. n = NoRoomReq \/ n = [q EXCEPT !.at = "write", !.who = S]
      BY <2>2, <1>f, <1>g
    <2> QED BY <1>0, <1>3, <2>1, <2>3 DEF RoomReqs, q, n
  <1>8. CASE InsertMembers(h)
    <2>1. n = [q EXCEPT !.at = "tell", !.who = {}, !.added = q.who]
      BY <1>8, <1>g DEF InsertMembers, q
    <2>2. q.at = "write"
      BY <1>8 DEF InsertMembers, RoomAt, q
    <2> QED BY <1>0, <1>3, <2>1, <2>2 DEF RoomReqs, q, n
  <1> QED BY <1>1, <1>2, <1>4, <1>5, <1>6, <1>7, <1>8 DEF RoomStep

(* Guarded requests come from managers, and so does a removal that is      *)
(* about to be written, unless its actor leaves.                           *)
ManagedOK ==
  \A h \in Handlers :
    LET q == roomReq[h] IN
    /\ q.op \in Guarded => managed[h]
    /\ (q.op = "remove" /\ q.at = "write") => managed[h] \/ q.who = {q.actor}

LEMMA ManagedStep ==
  ASSUME Core, ManagedOK, NEW h \in Handlers, RoomStep(h), WatchManagers
  PROVE  ManagedOK'
  <1> SUFFICES ASSUME NEW g \in Handlers
               PROVE  /\ roomReq'[g].op \in Guarded => managed'[g]
                      /\ (roomReq'[g].op = "remove" /\ roomReq'[g].at = "write")
                           => managed'[g] \/ roomReq'[g].who = {roomReq'[g].actor}
    BY DEF ManagedOK
  <1>0. /\ roomReq[h] \in RoomReqs /\ Shape(roomReq[h]) /\ None \notin Rooms
        /\ roomReq \in [Handlers -> RoomReqs]
    BY NoneAssumption DEF Core, RoomTypeOK, ShapeOK
  <1>k. ASSUME managed[g], roomReq'[g].op # "none" PROVE managed'[g]
    BY <1>k DEF WatchManagers
  <1>m. ASSUME roomReq'[g].room # None, roomReq'[g].op # "none",
               member'[roomReq'[g].room][roomReq'[g].actor] \in Managers
        PROVE  managed'[g]
    BY <1>m DEF WatchManagers
  <1>1. CASE g # h
    <2>1. /\ roomReq'[g].op = roomReq[g].op /\ roomReq'[g].at = roomReq[g].at
          /\ roomReq'[g].who = roomReq[g].who /\ roomReq'[g].actor = roomReq[g].actor
      BY <1>1, OthersStay DEF Core
    <2> QED BY <2>1, <1>k DEF ManagedOK, Guarded
  <1>2. CASE g = h /\ StartCreate(h)
    <2>1. PICK c \in Users, type \in Types : \E S \in SUBSET (Users \ {c}) :
            RoomGo(h, [NoRoomReq EXCEPT !.op = "create", !.actor = c, !.type = type, !.who = S,
                         !.at = IF type = "DIRECT" /\ S # {} THEN "find" ELSE "write"])
      BY <1>2 DEF StartCreate
    <2>2. roomReq'[g].op = "create"
      BY <1>0, <1>2, <2>1 DEF RoomGo, NoRoomReq
    <2> QED BY <2>2 DEF Guarded
  <1>3. CASE g = h /\ StartRequest(h)
    <2>1. PICK op \in RoomOps \ {"create"}, r \in Rooms, a \in Users, S \in SUBSET Users :
            /\ op \in Guarded => IsManager(r, a)
            /\ RoomGo(h, [NoRoomReq EXCEPT !.op = op, !.at = "room", !.room = r,
                                           !.actor = a, !.who = S])
      BY <1>3 DEF StartRequest
    <2>2. /\ roomReq'[g].op = op /\ roomReq'[g].room = r /\ roomReq'[g].actor = a
          /\ roomReq'[g].at = "room"
      BY <1>0, <1>3, <2>1 DEF RoomGo, NoRoomReq
    <2>3. UNCHANGED member
      BY <1>3 DEF StartRequest
    <2> QED BY <1>0, <1>m, <2>1, <2>2, <2>3 DEF IsManager, Guarded
  <1>4. CASE g = h /\ InsertRoom(h)
    <2>1. roomReq[h].op = "create" /\ \E r \in Rooms :
            roomReq'[h] = IF roomReq[h].who = {} THEN NoRoomReq
                          ELSE [roomReq[h] EXCEPT !.at = "tell", !.room = r,
                                  !.added = roomReq[h].who, !.missed = {}]
      BY <1>4 DEF InsertRoom, RoomAt
    <2>2. roomReq'[h].op \in {"none", "create"}
      BY <1>0, <2>1 DEF NoRoomReq, RoomReqs
    <2> QED BY <1>4, <2>2 DEF Guarded
  <1>5. CASE g = h /\ roomReq'[h] = NoRoomReq
    BY <1>5 DEF NoRoomReq, Guarded
  <1>6. CASE g = h /\ /\ roomReq'[h].op = roomReq[h].op
                      /\ roomReq'[h].actor = roomReq[h].actor
                      /\ roomReq'[h].room = roomReq[h].room
                      /\ AssertCanManageMembers(h) => roomReq'[h].who = roomReq[h].who
    <2>1. roomReq'[g].op \in Guarded => managed'[g]
      BY <1>6, <1>k DEF ManagedOK, Guarded
    <2>2. ASSUME roomReq'[h].op = "remove", roomReq'[h].at = "write"
          PROVE  managed'[h] \/ roomReq'[h].who = {roomReq'[h].actor}
      <3>1. roomReq[h].op = "remove" /\ roomReq[h].room \in Rooms
        BY <1>0, <1>6, <2>2 DEF Shape
      <3>f. FinishRoom(h) => roomReq'[h].op = "none"
        BY <1>0 DEF FinishRoom, RoomGo, NoRoomReq
      <3>p. ASSUME NEW at, RoomProceed(h, at) PROVE roomReq'[h].at = at
        BY <1>0, <3>p DEF RoomProceed, RoomGo, RoomReqs
      <3>2. \/ AssertCanManageMembers(h)
            \/ AssertRoomExists(h) \/ ReadTarget(h)
            \/ DeleteMembers(h) \/ TellMembers(h) \/ FailRoom(h)
        <4>1. roomReq[h] # NoRoomReq
          BY <3>1 DEF NoRoomReq
        <4>2. ~StartCreate(h) /\ ~StartRequest(h)
          BY <4>1 DEF StartCreate, StartRequest
        <4>3. \A ops, at : RoomAt(h, ops, at) => "remove" \in ops
          BY <3>1 DEF RoomAt
        <4>4. ~(FindDirectRoom(h) \/ InsertRoom(h) \/ DeleteRoom(h) \/ WriteRole(h))
          BY <4>3 DEF FindDirectRoom, InsertRoom, DeleteRoom, WriteRole
        <4>5. ~(ReadRemovable(h) \/ ReadInvited(h) \/ InsertMember(h) \/ ReadExisting(h)
                  \/ InsertMembers(h))
          BY <4>3 DEF ReadRemovable, ReadInvited, InsertMember, ReadExisting, InsertMembers
        <4> QED BY <4>2, <4>4, <4>5 DEF RoomStep
      <3>3. ~AssertRoomExists(h)
        <4>1. AssertRoomExists(h) => FinishRoom(h) \/ RoomProceed(h, "read")
          BY <3>1 DEF AssertRoomExists
        <4> QED BY <2>2, <3>f, <3>p, <4>1
      <3>4. ~ReadTarget(h)
        <4>1. ReadTarget(h) => FinishRoom(h) \/ RoomProceed(h, "permit")
          BY <3>1 DEF ReadTarget
        <4> QED BY <2>2, <3>f, <3>p, <4>1
      <3>5. ~(DeleteMembers(h) \/ TellMembers(h) \/ FailRoom(h))
        BY <2>2, <3>f DEF DeleteMembers, TellMembers, FailRoom
      <3>6. AssertCanManageMembers(h) /\ ~FinishRoom(h)
        BY <2>2, <3>2, <3>3, <3>4, <3>5, <3>f
      <3>7. UNCHANGED member /\ (IsManager(roomReq[h].room, roomReq[h].actor)
                                   \/ roomReq[h].who = {roomReq[h].actor})
        BY <3>6 DEF AssertCanManageMembers
      <3> QED BY <1>0, <1>6, <1>m, <2>2, <3>1, <3>6, <3>7 DEF IsManager
    <2> QED BY <1>6, <2>1, <2>2
  <1> QED BY <1>1, <1>2, <1>3, <1>4, <1>5, <1>6, OwnMove

LEMMA ManagedStays == Core /\ ManagedOK /\ [RoomNext]_roomVars => ManagedOK'
  <1>1. ASSUME ManagedOK, UNCHANGED roomVars PROVE ManagedOK'
    BY <1>1 DEF roomVars, ManagedOK
  <1> QED BY <1>1, ManagedStep DEF RoomNext

ChangedBy(h, r, u) ==
  LET q == roomReq[h] IN
  /\ q.at = "write" /\ roomReq'[h] # q
  /\ q.room = r /\ u \in q.who
  /\ managed[h] \/ (q.op = "remove" /\ q.actor = u)

LEMMA ChangedStep ==
  ASSUME Core, ManagedOK, NEW h \in Handlers, RoomStep(h), NEW r \in Rooms, NEW u \in Users,
         room[r] # NoRoom, member'[r][u] # member[r][u]
  PROVE  ChangedBy(h, r, u)
  <1> DEFINE q == roomReq[h]
  <1>0. /\ q \in RoomReqs /\ Shape(q) /\ None \notin Rooms
        /\ roomReq \in [Handlers -> RoomReqs] /\ member \in [Rooms -> [Users -> Roles \union {"none"}]]
        /\ q.op \in Guarded => managed[h]
        /\ (q.op = "remove" /\ q.at = "write") => managed[h] \/ q.who = {q.actor}
    BY NoneAssumption DEF Core, RoomTypeOK, ShapeOK, ManagedOK
  <1>f. FinishRoom(h) => roomReq'[h] = NoRoomReq
    BY <1>0 DEF FinishRoom, RoomGo
  <1>g. ASSUME NEW x, RoomGo(h, x) PROVE roomReq'[h] = x
    BY <1>0, <1>g DEF RoomGo
  <1>n. NoRoomReq.op = "none"
    BY DEF NoRoomReq
  <1> HIDE DEF q
  <1>1. CASE InsertRoom(h)
    <2>1. PICK y \in Rooms : room[y] = NoRoom /\ \A z \in Rooms \ {y} : member'[z] = member[z]
      BY <1>0, <1>1 DEF InsertRoom
    <2> QED BY <2>1
  <1>2. CASE WriteRole(h)
    <2>1. q.op = "role" /\ q.at = "write" /\ roomReq'[h] = NoRoomReq
      BY <1>2, <1>f DEF WriteRole, RoomAt, q
    <2>2. PICK v \in q.who, x \in Assignable :
            member' = IF member[q.room][v] = "none" THEN member
                      ELSE [member EXCEPT ![q.room] = [member[q.room] EXCEPT ![v] = x]]
      BY <1>2 DEF WriteRole, ResolveRoleId, q
    <2>3. q.room \in Rooms /\ v \in Users
      BY <1>0, <2>1 DEF Shape, RoomReqs
    <2>4. q.room = r /\ v = u
      BY <1>0, <2>2, <2>3
    <2>5. managed[h]
      BY <1>0, <2>1 DEF Guarded
    <2> QED BY <1>n, <2>1, <2>4, <2>5 DEF ChangedBy, q
  <1>3. CASE DeleteMembers(h)
    <2>1. q.op \in {"remove", "bulkRemove"} /\ q.at = "write" /\ roomReq'[h] = NoRoomReq
      BY <1>3, <1>f DEF DeleteMembers, RoomAt, q
    <2>2. member' = [member EXCEPT ![q.room] =
                       [v \in Users |-> IF v \in q.who THEN "none" ELSE member[q.room][v]]]
      BY <1>3 DEF DeleteMembers, Exit, q
    <2>3. q.room \in Rooms
      BY <1>0, <2>1 DEF Shape
    <2>4. q.room = r /\ u \in q.who
      BY <1>0, <2>2, <2>3
    <2>5. managed[h] \/ (q.op = "remove" /\ q.actor = u)
      BY <1>0, <2>1, <2>4 DEF Guarded
    <2> QED BY <1>n, <2>1, <2>4, <2>5 DEF ChangedBy, q
  <1>4. CASE InsertMember(h)
    <2>1. /\ q.op \in {"add", "batch"} /\ q.at = "write"
          /\ roomReq'[h] = AfterOne(q, q.next, q.added \union {q.next})
      BY <1>4, <1>g DEF InsertMember, RoomAt, q
    <2>2. PICK x : member' = [member EXCEPT ![q.room] =
                       [v \in Users |-> IF v \in {q.next} THEN x ELSE member[q.room][v]]]
      BY <1>4 DEF InsertMember, Enter, q
    <2>3. q.room \in Rooms /\ q.next \in q.who
      BY <1>0, <2>1 DEF Shape
    <2>4. q.room = r /\ u = q.next
      BY <1>0, <2>2, <2>3
    <2>5. roomReq'[h].at # "write"
      BY <1>0, <2>1 DEF AfterOne, NoRoomReq, RoomReqs
    <2> QED BY <1>0, <2>1, <2>3, <2>4, <2>5 DEF ChangedBy, Guarded, q
  <1>5. CASE InsertMembers(h)
    <2>1. /\ q.op = "bulkAdd" /\ q.at = "write"
          /\ roomReq'[h] = [q EXCEPT !.at = "tell", !.who = {}, !.added = q.who]
      BY <1>5, <1>g DEF InsertMembers, RoomAt, q
    <2>2. PICK x : member' = [member EXCEPT ![q.room] =
                       [v \in Users |-> IF v \in q.who \ Members(q.room) THEN x ELSE member[q.room][v]]]
      BY <1>5 DEF InsertMembers, Enter, q
    <2>3. q.room \in Rooms
      BY <1>0, <2>1 DEF Shape
    <2>4. q.room = r /\ u \in q.who
      BY <1>0, <2>2, <2>3
    <2>5. roomReq'[h].at # "write"
      BY <1>0, <2>1 DEF RoomReqs
    <2> QED BY <1>0, <2>1, <2>4, <2>5 DEF ChangedBy, Guarded, q
  <1>6. CASE ~(InsertRoom(h) \/ WriteRole(h) \/ DeleteMembers(h) \/ InsertMember(h) \/ InsertMembers(h))
    <2>1. UNCHANGED member
      BY <1>6 DEF RoomStep, StartCreate, FindDirectRoom, StartRequest, AssertRoomExists,
                  AssertCanManageMembers, DeleteRoom, ReadTarget, ReadRemovable, ReadInvited,
                  ReadExisting, TellMembers, FailRoom
    <2> QED BY <2>1
  <1> QED BY <1>1, <1>2, <1>3, <1>4, <1>5, <1>6

(* Nobody joins, leaves or changes the role in a room that exists but by a *)
(* request whose actor has managed the room while it ran, or who leaves.   *)
THEOREM OnlyManagersChange == RoomSpec => ChangedByManagers
  <1>1. RoomInit => ManagedOK
    BY DEF RoomInit, ManagedOK, NoRoomReq, Guarded
  <1> DEFINE Change == \A r \in Rooms, u \in Users :
                         (room[r] # NoRoom /\ member'[r][u] # member[r][u]) =>
                           \E h \in Handlers :
                             LET q == roomReq[h] IN
                             /\ q.at = "write" /\ roomReq'[h] # q
                             /\ q.room = r /\ u \in q.who
                             /\ managed[h] \/ (q.op = "remove" /\ q.actor = u)
  <1>2. Core /\ ManagedOK /\ [RoomNext]_roomVars => [Change]_roomVars
    BY ChangedStep DEF RoomNext, ChangedBy
  <1> QED BY <1>1, <1>2, CoreInit, CoreStays, ManagedStays, PTL DEF RoomSpec, ChangedByManagers

------------------------------------------------------------------------------
(* Notices *)

(* A notice that is due after a step was due before, or the own request    *)
(* has just added the member.                                              *)
LEMMA DueStep ==
  ASSUME Core, NEW h \in Handlers, RoomStep(h), NEW r \in Rooms, NEW u \in Users,
         notice'[r][u] = "due"
  PROVE  \/ roomReq'[h].room = r /\ u \in roomReq'[h].added
         \/ /\ notice[r][u] = "due"
            /\ \/ ~(roomReq[h].room = r /\ u \in roomReq[h].added)
               \/ ~(TellMembers(h) \/ FailRoom(h) \/ InsertRoom(h))
  <1> DEFINE q == roomReq[h]
  <1>0. /\ q \in RoomReqs /\ Shape(q) /\ None \notin Rooms
        /\ roomReq \in [Handlers -> RoomReqs] /\ notice \in [Rooms -> [Users -> Notices]]
    BY NoneAssumption DEF Core, RoomTypeOK, ShapeOK
  <1>g. ASSUME NEW x, RoomGo(h, x) PROVE roomReq'[h] = x
    BY <1>0, <1>g DEF RoomGo
  <1> HIDE DEF q
  <1>1. CASE TellMembers(h)
    <2>1. q.room \in Rooms
      BY <1>0, <1>1 DEF TellMembers, Shape, q
    <2>2. notice' = [notice EXCEPT ![q.room] =
                       [v \in Users |-> IF v \in q.added /\ notice[q.room][v] # "none"
                                        THEN "sent" ELSE notice[q.room][v]]]
      BY <1>1 DEF TellMembers, q
    <2>3. CASE r = q.room
      <3>1. notice'[r][u] = IF u \in q.added /\ notice[r][u] # "none" THEN "sent" ELSE notice[r][u]
        BY <1>0, <2>1, <2>2, <2>3
      <3> QED BY <3>1 DEF q
    <2>4. CASE r # q.room
      BY <1>0, <2>2, <2>4 DEF q
    <2> QED BY <2>3, <2>4
  <1>2. CASE FailRoom(h)
    <2>1. q.room = None => notice' = notice
      BY <1>2 DEF FailRoom, q
    <2>2. q.room # None =>
            notice' = [notice EXCEPT ![q.room] =
                         [v \in Users |-> IF v \in q.added /\ notice[q.room][v] = "due"
                                          THEN "dropped" ELSE notice[q.room][v]]]
      BY <1>2 DEF FailRoom, q
    <2>3. q.room \in Rooms \union {None}
      BY <1>0 DEF RoomReqs
    <2>4. CASE r # q.room
      BY <1>0, <2>1, <2>2, <2>4 DEF q
    <2>5. CASE r = q.room
      <3>1. notice'[r][u] = IF u \in q.added /\ notice[r][u] = "due" THEN "dropped" ELSE notice[r][u]
        BY <1>0, <2>2, <2>5
      <3> QED BY <3>1 DEF q
    <2> QED BY <2>4, <2>5
  <1>3. CASE InsertRoom(h)
    <2>1. q.op = "create" /\ q.at = "write"
      BY <1>3 DEF InsertRoom, RoomAt, q
    <2>2. q.room = None
      BY <1>0, <2>1 DEF Shape
    <2>3. PICK y \in Rooms :
            /\ notice' = [notice EXCEPT ![y] = [v \in Users |-> IF v \in q.who THEN "due" ELSE "none"]]
            /\ roomReq'[h] = IF q.who = {} THEN NoRoomReq
                             ELSE [q EXCEPT !.at = "tell", !.room = y, !.added = q.who, !.missed = {}]
      BY <1>3 DEF InsertRoom, q
    <2>4. CASE r = y
      <3>1. u \in q.who
        BY <1>0, <2>3, <2>4
      <3>2. roomReq'[h].room = y /\ roomReq'[h].added = q.who
        BY <1>0, <2>3, <3>1 DEF RoomReqs
      <3> QED BY <2>4, <3>1, <3>2
    <2>5. CASE r # y
      <3>1. notice[r][u] = "due"
        BY <1>0, <2>3, <2>5
      <3> QED BY <1>0, <2>2, <3>1 DEF q
    <2> QED BY <2>4, <2>5
  <1>4. CASE InsertMember(h)
    <2>1. /\ q.op \in {"add", "batch"} /\ q.at = "write"
          /\ roomReq'[h] = AfterOne(q, q.next, q.added \union {q.next})
      BY <1>4, <1>g DEF InsertMember, RoomAt, q
    <2>2. notice' = [notice EXCEPT ![q.room] =
                       [v \in Users |-> IF v \in {q.next} THEN "due" ELSE notice[q.room][v]]]
      BY <1>4 DEF InsertMember, Enter, q
    <2>3. roomReq'[h].room = q.room /\ q.next \in roomReq'[h].added
      BY <1>0, <2>1 DEF AfterOne, RoomReqs
    <2>4. notice[r][u] = "due" \/ (q.room = r /\ u = q.next)
      BY <1>0, <2>2
    <2>5. ~(TellMembers(h) \/ FailRoom(h) \/ InsertRoom(h)) \/ ~(q.room = r /\ u \in q.added)
          \/ u \in roomReq'[h].added
      BY <1>0, <2>1 DEF AfterOne, RoomReqs
    <2> QED BY <2>3, <2>4, <2>5 DEF q
  <1>5. CASE InsertMembers(h)
    <2>1. /\ q.op = "bulkAdd" /\ q.at = "write"
          /\ roomReq'[h] = [q EXCEPT !.at = "tell", !.who = {}, !.added = q.who]
      BY <1>5, <1>g DEF InsertMembers, RoomAt, q
    <2>2. notice' = [notice EXCEPT ![q.room] =
                       [v \in Users |-> IF v \in q.who \ Members(q.room)
                                        THEN "due" ELSE notice[q.room][v]]]
      BY <1>5 DEF InsertMembers, Enter, q
    <2>3. roomReq'[h].room = q.room /\ roomReq'[h].added = q.who
      BY <1>0, <2>1 DEF RoomReqs
    <2>4. notice[r][u] = "due" \/ (q.room = r /\ u \in q.who)
      BY <1>0, <2>2
    <2>5. q.added = {}
      BY <1>0, <2>1 DEF Shape
    <2> QED BY <2>3, <2>4, <2>5 DEF q
  <1>6. CASE DeleteMembers(h)
    <2>1. q.op \in {"remove", "bulkRemove"} /\ q.at = "write"
      BY <1>6 DEF DeleteMembers, RoomAt, q
    <2>2. q.added = {}
      BY <1>0, <2>1 DEF Shape
    <2>3. notice' = [notice EXCEPT ![q.room] =
                       [v \in Users |-> IF v \in q.who THEN "none" ELSE notice[q.room][v]]]
      BY <1>6 DEF DeleteMembers, Exit, q
    <2>4. notice[r][u] = "due"
      BY <1>0, <2>3
    <2> QED BY <2>2, <2>4 DEF q
  <1>7. CASE ~(\/ TellMembers(h) \/ FailRoom(h) \/ InsertRoom(h) \/ InsertMember(h)
               \/ InsertMembers(h) \/ DeleteMembers(h))
    <2>1. UNCHANGED notice
      BY <1>7 DEF RoomStep, StartCreate, FindDirectRoom, StartRequest, AssertRoomExists,
                  AssertCanManageMembers, DeleteRoom, ReadTarget, WriteRole, ReadRemovable,
                  ReadInvited, ReadExisting
    <2> QED BY <1>7, <2>1
  <1> QED BY <1>1, <1>2, <1>3, <1>4, <1>5, <1>6, <1>7

(* A request that has added members ends only by telling them or failing.  *)
LEMMA KeepsAdded ==
  ASSUME Core, NEW h \in Handlers, RoomStep(h), ~(TellMembers(h) \/ FailRoom(h) \/ InsertRoom(h)),
         roomReq[h].added # {}
  PROVE  roomReq'[h].room = roomReq[h].room /\ roomReq[h].added \subseteq roomReq'[h].added
  <1> DEFINE q == roomReq[h]
  <1>0. q \in RoomReqs /\ Shape(q) /\ roomReq \in [Handlers -> RoomReqs]
    BY DEF Core, RoomTypeOK, ShapeOK
  <1>1. q.at # "tell" => q.op = "batch" /\ q.at \in {"read", "write"}
    BY <1>0 DEF Shape
  <1>2. q # NoRoomReq
    BY DEF NoRoomReq
  <1>3. ~StartCreate(h) /\ ~StartRequest(h)
    BY <1>2 DEF StartCreate, StartRequest
  <1>4. \A ops, at : RoomAt(h, ops, at) => q.at = "tell" \/ "batch" \in ops
    BY <1>1 DEF RoomAt
  <1>5. \A ops, at : RoomAt(h, ops, at) => q.at = at
    BY DEF RoomAt
  <1>6. ~(FindDirectRoom(h) \/ DeleteRoom(h) \/ ReadTarget(h) \/ WriteRole(h))
    BY <1>4, <1>5 DEF FindDirectRoom, DeleteRoom, ReadTarget, WriteRole
  <1>7. ~(ReadRemovable(h) \/ DeleteMembers(h) \/ ReadExisting(h) \/ InsertMembers(h))
    BY <1>4, <1>5 DEF ReadRemovable, DeleteMembers, ReadExisting, InsertMembers
  <1>8. ~(AssertRoomExists(h) \/ AssertCanManageMembers(h))
    BY <1>1 DEF AssertRoomExists, AssertCanManageMembers
  <1>9. ReadInvited(h) \/ InsertMember(h)
    BY <1>3, <1>6, <1>7, <1>8 DEF RoomStep
  <1>g. ASSUME NEW x, RoomGo(h, x) PROVE roomReq'[h] = x
    BY <1>0, <1>g DEF RoomGo
  <1>b. q.op = "batch"
    BY <1>1, <1>9 DEF ReadInvited, InsertMember, RoomAt
  <1> HIDE DEF q
  <1>10. CASE ReadInvited(h)
    <2>1. PICK u \in q.who :
            \/ roomReq'[h] = [q EXCEPT !.at = "write", !.next = u]
            \/ roomReq'[h] = AfterOne(q, u, q.added)
      BY <1>10, <1>b, <1>g DEF ReadInvited, q
    <2> QED BY <1>0, <2>1 DEF AfterOne, RoomReqs, q
  <1>11. CASE InsertMember(h)
    <2>1. roomReq'[h] = AfterOne(q, q.next, q.added \union {q.next})
      BY <1>11, <1>g DEF InsertMember, q
    <2> QED BY <1>0, <2>1 DEF AfterOne, RoomReqs, q
  <1> QED BY <1>9, <1>10, <1>11

LEMMA ToldStep ==
  ASSUME Core, MembersTold, NEW h \in Handlers, RoomStep(h)
  PROVE  MembersTold'
  <1> SUFFICES ASSUME NEW r \in Rooms, NEW u \in Users, notice'[r][u] = "due"
               PROVE  \E g \in Handlers : roomReq'[g].room = r /\ u \in roomReq'[g].added
    BY DEF MembersTold
  <1>1. CASE roomReq'[h].room = r /\ u \in roomReq'[h].added
    BY <1>1
  <1>2. CASE /\ notice[r][u] = "due"
             /\ \/ ~(roomReq[h].room = r /\ u \in roomReq[h].added)
                \/ ~(TellMembers(h) \/ FailRoom(h) \/ InsertRoom(h))
    <2>1. PICK g \in Handlers : roomReq[g].room = r /\ u \in roomReq[g].added
      BY <1>2 DEF MembersTold
    <2>2. CASE g # h
      BY <2>1, <2>2, OthersStay DEF Core
    <2>3. CASE g = h
      BY <1>2, <2>1, <2>3, KeepsAdded
    <2> QED BY <2>2, <2>3
  <1> QED BY <1>1, <1>2, DueStep

(* Nobody joins unheard, whatever requests meet and however they end.      *)
THEOREM NobodyJoinsUnheard == RoomSpec => []MembersTold
  <1>1. RoomInit => MembersTold
    BY DEF RoomInit, MembersTold
  <1>2. Core /\ MembersTold /\ [RoomNext]_roomVars => MembersTold'
    <2>1. ASSUME MembersTold, UNCHANGED roomVars PROVE MembersTold'
      BY <2>1 DEF roomVars, MembersTold
    <2> QED BY <2>1, ToldStep DEF RoomNext
  <1> QED BY <1>1, <1>2, CoreInit, CoreStays, PTL DEF RoomSpec

------------------------------------------------------------------------------
(* Direct rooms *)

(* A direct room of a and b that is as it was when it was created.         *)
Lone(r, a, b) ==
  room[r].type = "DIRECT" /\ ~room[r].deleted /\ r \notin altered /\ Members(r) = {a, b}

(* A request that has looked for a direct room has missed only those       *)
(* inserted since.                                                         *)
MissedOK ==
  \A h \in Handlers :
    LET q == roomReq[h] IN
    (q.op = "create" /\ q.at = "write" /\ q.type = "DIRECT") =>
      \A o \in Users, r \in Rooms : (q.who = {o} /\ Lone(r, q.actor, o)) => r \in q.missed

OnePair ==
  \A r, x \in Rooms, a, b \in Users :
    (r # x /\ a # b /\ Lone(r, a, b) /\ Lone(x, a, b)) => {r, x} \in raced

LEMMA LoneStep ==
  ASSUME Core, NEW h \in Handlers, RoomStep(h), NEW r \in Rooms, NEW a, NEW b, Lone(r, a, b)'
  PROVE  Lone(r, a, b) \/ (InsertRoom(h) /\ room[r] = NoRoom)
  <1>0. RowsOK
    BY DEF Core, RoomTypeOK, RowsOK
  <1>1. ASSUME NEW y \in Rooms, Deleted(y) PROVE Lone(r, a, b)
    <2>1. CASE y = r
      <3>1. room[r] \in RoomRows
        BY <1>0, <1>1, <2>1 DEF Deleted, RowsOK
      <3>2. room'[r].deleted = TRUE
        BY <1>0, <1>1, <2>1, <3>1 DEF Deleted, RowsOK, RoomRows
      <3> QED BY <3>2 DEF Lone
    <2>2. CASE y # r
      <3>1. room'[r] = room[r] /\ member' = member /\ altered' = altered
        BY <1>0, <1>1, <2>2 DEF Deleted, RowsOK
      <3> QED BY <3>1 DEF Lone, Members
    <2> QED BY <2>1, <2>2
  <1>2. CASE InsertRoom(h)
    <2>1. PICK y \in Rooms :
            /\ room[y] = NoRoom
            /\ \A z \in Rooms \ {y} : room'[z] = room[z] /\ member'[z] = member[z]
            /\ altered' = altered
      BY <1>0, <1>2 DEF InsertRoom, RowsOK
    <2>2. CASE y = r
      BY <1>2, <2>1, <2>2
    <2>3. CASE y # r
      BY <2>1, <2>3 DEF Lone, Members
    <2> QED BY <2>2, <2>3
  <1>3. ASSUME NEW y \in Rooms, NEW S \in SUBSET Users, NEW x \in Assignable, Joined(y, S, x)
        PROVE  Lone(r, a, b)
    <2>1. CASE y = r
      <3>1. S = {}
        BY <1>3, <2>1 DEF Joined, Enter, Lone
      <3>2. room' = room /\ altered' = altered /\ \A u \in Users : member'[r][u] = member[r][u]
        BY <1>0, <1>3, <2>1, <3>1 DEF Joined, Enter, RowsOK
      <3> QED BY <3>2 DEF Lone, Members
    <2>2. CASE y # r
      <3>1. room' = room /\ altered \subseteq altered' /\ member'[r] = member[r]
        BY <1>0, <1>3, <2>2 DEF Joined, Enter, RowsOK
      <3> QED BY <3>1 DEF Lone, Members
    <2> QED BY <2>1, <2>2
  <1>4. ASSUME NEW y \in Rooms, NEW S \in SUBSET Users, Left(y, S)
        PROVE  Lone(r, a, b)
    <2>1. CASE y = r
      <3>1. S \intersect Members(r) = {}
        BY <1>4, <2>1 DEF Left, Exit, Lone
      <3>2. \A u \in Users : u \in S => member[r][u] = "none"
        BY <3>1 DEF Members
      <3>3. room' = room /\ altered' = altered /\ \A u \in Users : member'[r][u] = member[r][u]
        BY <1>0, <1>4, <2>1, <3>1, <3>2 DEF Left, Exit, RowsOK
      <3> QED BY <3>3 DEF Lone, Members
    <2>2. CASE y # r
      <3>1. room' = room /\ altered \subseteq altered' /\ member'[r] = member[r]
        BY <1>0, <1>4, <2>2 DEF Left, Exit, RowsOK
      <3> QED BY <3>1 DEF Lone, Members
    <2> QED BY <2>1, <2>2
  <1>5. ASSUME NEW y \in Rooms, NEW u \in Users, NEW x \in Assignable, Promoted(y, u, x)
        PROVE  Lone(r, a, b)
    <2>1. \A v \in Users : member'[r][v] = "none" <=> member[r][v] = "none"
      BY <1>0, <1>5 DEF Promoted, RowsOK, Assignable
    <2> QED BY <1>5, <2>1 DEF Promoted, Lone, Members
  <1>6. CASE Kept
    BY <1>6 DEF Kept, Lone, Members
  <1> QED BY <1>1, <1>2, <1>3, <1>4, <1>5, <1>6, TableStep

(* What the insert of a room changes.                                      *)
LEMMA InsertEffect ==
  ASSUME Core, NEW h \in Handlers, InsertRoom(h), NEW r \in Rooms, room[r] = NoRoom,
         NEW a, NEW b, Lone(r, a, b)'
  PROVE  /\ roomReq[h].type = "DIRECT"
         /\ {a, b} = {roomReq[h].actor} \union roomReq[h].who
         /\ raced' = raced \union {{r, y} : y \in roomReq[h].missed}
         /\ \A g \in Handlers \ {h} : RoomAt(g, {"create"}, "write") => r \in roomReq'[g].missed
  <1> DEFINE q == roomReq[h]
  <1>0. /\ q \in RoomReqs /\ q.actor \in Users /\ RowsOK
        /\ \A g \in Handlers : roomReq[g] \in RoomReqs
    BY DEF Core, RoomTypeOK, RowsOK, ShapeOK, Shape, InsertRoom, RoomAt
  <1>1. PICK y \in Rooms, x \in Assignable :
          /\ room' = [room EXCEPT ![y] = [type |-> q.type, creator |-> q.actor, deleted |-> FALSE]]
          /\ member' = [member EXCEPT ![y] =
                          [u \in Users |-> IF u = q.actor THEN "owner"
                                           ELSE IF u \in q.who THEN x ELSE "none"]]
          /\ raced' = raced \union {{y, z} : z \in q.missed}
          /\ \A g \in Handlers \ {h} :
               RoomAt(g, {"create"}, "write") =>
                 roomReq'[g] = [roomReq[g] EXCEPT !.missed = roomReq[g].missed \union {y}]
    BY DEF InsertRoom, ResolveRoleId
  <1> HIDE DEF q
  <1>2. y = r
    <2>1. y # r => room'[r] = NoRoom
      BY <1>0, <1>1 DEF RowsOK
    <2>2. room'[r].type = "DIRECT"
      BY DEF Lone
    <2> QED BY <2>1, <2>2 DEF NoRoom
  <1>3. room'[r] = [type |-> q.type, creator |-> q.actor, deleted |-> FALSE]
    BY <1>0, <1>1, <1>2 DEF RowsOK
  <1>4. q.type = "DIRECT"
    BY <1>3 DEF Lone
  <1>5. \A u \in Users : member'[r][u] # "none" <=> u \in {q.actor} \union q.who
    BY <1>0, <1>1, <1>2 DEF RowsOK, Assignable
  <1>6. {u \in Users : member'[r][u] # "none"} = {q.actor} \union q.who
    BY <1>0, <1>5 DEF RoomReqs
  <1>7. {u \in Users : member'[r][u] # "none"} = {a, b}
    BY DEF Lone, Members
  <1>8. ASSUME NEW g \in Handlers \ {h}, RoomAt(g, {"create"}, "write")
        PROVE  r \in roomReq'[g].missed
    <2>1. roomReq'[g] = [roomReq[g] EXCEPT !.missed = roomReq[g].missed \union {r}]
      BY <1>1, <1>2, <1>8
    <2>2. roomReq[g] \in RoomReqs
      BY <1>0
    <2> QED BY <2>1, <2>2 DEF RoomReqs
  <1>9. raced' = raced \union {{r, z} : z \in q.missed}
    BY <1>1, <1>2
  <1>10. {a, b} = {q.actor} \union q.who
    BY <1>6, <1>7
  <1> QED BY <1>4, <1>8, <1>9, <1>10 DEF q

LEMMA MissedStep ==
  ASSUME Core, MissedOK, NEW h \in Handlers, RoomStep(h)
  PROVE  MissedOK'
  <1> SUFFICES ASSUME NEW g \in Handlers,
                      roomReq'[g].op = "create", roomReq'[g].at = "write", roomReq'[g].type = "DIRECT",
                      NEW o \in Users, NEW r \in Rooms, roomReq'[g].who = {o},
                      Lone(r, roomReq[g].actor, o)'
               PROVE  r \in roomReq'[g].missed
    BY DEF MissedOK, Lone, Members
  <1>0. /\ roomReq[h] \in RoomReqs /\ Shape(roomReq[h]) /\ roomReq \in [Handlers -> RoomReqs]
        /\ roomReq[g] \in RoomReqs
    BY DEF Core, RoomTypeOK, ShapeOK
  <1>1. CASE g # h
    <2>1. /\ roomReq[g].op = "create" /\ roomReq[g].at = "write" /\ roomReq[g].type = "DIRECT"
          /\ roomReq[g].who = {o} /\ roomReq'[g].actor = roomReq[g].actor
          /\ ~InsertRoom(h) => roomReq'[g] = roomReq[g]
      BY <1>1, OthersStay DEF Core
    <2>2. Lone(r, roomReq[g].actor, o)'  <=> /\ room'[r].type = "DIRECT" /\ ~room'[r].deleted
                                             /\ r \notin altered'
                                             /\ {u \in Users : member'[r][u] # "none"} = {roomReq[g].actor, o}
      BY <2>1 DEF Lone, Members
    <2>3. PICK a : a = roomReq[g].actor
      OBVIOUS
    <2>4. Lone(r, a, o)'
      BY <2>2, <2>3 DEF Lone, Members
    <2>5. Lone(r, a, o) \/ (InsertRoom(h) /\ room[r] = NoRoom)
      BY <2>4, LoneStep
    <2>6. CASE Lone(r, a, o)
      <3>1. r \in roomReq[g].missed
        BY <2>1, <2>3, <2>6 DEF MissedOK
      <3>2. CASE InsertRoom(h)
        <4>1. PICK y \in Rooms :
                roomReq'[g] = IF RoomAt(g, {"create"}, "write")
                              THEN [roomReq[g] EXCEPT !.missed = roomReq[g].missed \union {y}]
                              ELSE roomReq[g]
          BY <1>1, <3>2 DEF InsertRoom
        <4> QED BY <1>0, <3>1, <4>1 DEF RoomReqs
      <3> QED BY <2>1, <3>1, <3>2
    <2>7. CASE InsertRoom(h) /\ room[r] = NoRoom
      BY <1>1, <2>1, <2>4, <2>7, InsertEffect DEF RoomAt
    <2> QED BY <2>5, <2>6, <2>7
  <1>2. CASE g = h
    <2>f. FinishRoom(h) => roomReq'[h].op = "none"
      BY <1>0 DEF FinishRoom, RoomGo, NoRoomReq
    <2>1. CASE StartCreate(h)
      <3>1. PICK c \in Users, type \in Types : \E S \in SUBSET (Users \ {c}) :
              RoomGo(h, [NoRoomReq EXCEPT !.op = "create", !.actor = c, !.type = type, !.who = S,
                           !.at = IF type = "DIRECT" /\ S # {} THEN "find" ELSE "write"])
        BY <2>1 DEF StartCreate
      <3>2. PICK S \in SUBSET (Users \ {c}) :
              RoomGo(h, [NoRoomReq EXCEPT !.op = "create", !.actor = c, !.type = type, !.who = S,
                           !.at = IF type = "DIRECT" /\ S # {} THEN "find" ELSE "write"])
        BY <3>1
      <3>3. /\ roomReq'[h].type = type /\ roomReq'[h].who = S
            /\ roomReq'[h].at = IF type = "DIRECT" /\ S # {} THEN "find" ELSE "write"
        BY <1>0, <3>2 DEF RoomGo, NoRoomReq
      <3> QED BY <1>2, <3>3
    <2>2. CASE FindDirectRoom(h)
      <3>1. PICK other \in roomReq[h].who :
              IF DirectRooms(roomReq[h].actor, other) # {} THEN FinishRoom(h)
              ELSE RoomProceed(h, "write")
        BY <2>2 DEF FindDirectRoom
      <3>2. DirectRooms(roomReq[h].actor, other) = {} /\ RoomProceed(h, "write")
        BY <1>2, <2>f, <3>1
      <3>3. roomReq'[h].who = roomReq[h].who /\ roomReq'[h].actor = roomReq[h].actor
        BY <1>0, <3>2 DEF RoomProceed, RoomGo, RoomReqs
      <3>4. other = o
        BY <1>2, <3>3
      <3>5. r \in DirectRooms(roomReq[h].actor, other)
        BY <1>2, <2>2, <3>3, <3>4 DEF FindDirectRoom, Lone, Members, DirectRooms
      <3> QED BY <3>2, <3>5
    <2>3. CASE InsertRoom(h)
      <3>1. \E y \in Rooms : roomReq'[h] = IF roomReq[h].who = {} THEN NoRoomReq
                          ELSE [roomReq[h] EXCEPT !.at = "tell", !.room = y,
                                  !.added = roomReq[h].who, !.missed = {}]
        BY <2>3 DEF InsertRoom
      <3>2. roomReq'[h].at # "write"
        BY <1>0, <3>1 DEF NoRoomReq, RoomReqs
      <3> QED BY <1>2, <3>2
    <2>4. CASE StartRequest(h)
      <3>1. PICK op \in RoomOps \ {"create"}, x \in Rooms, a \in Users, S \in SUBSET Users :
              RoomGo(h, [NoRoomReq EXCEPT !.op = op, !.at = "room", !.room = x,
                                          !.actor = a, !.who = S])
        BY <2>4 DEF StartRequest
      <3>2. roomReq'[h].at = "room"
        BY <1>0, <3>1 DEF RoomGo, NoRoomReq
      <3> QED BY <1>2, <3>2
    <2>5. CASE ~(StartCreate(h) \/ FindDirectRoom(h) \/ InsertRoom(h) \/ StartRequest(h))
      <3>1. roomReq[h].op = "create"
        BY <1>2, <2>5, OwnMove DEF NoRoomReq
      <3>2. \A ops, at : RoomAt(h, ops, at) => "create" \in ops
        BY <3>1 DEF RoomAt
      <3>3. ~(DeleteRoom(h) \/ ReadTarget(h) \/ WriteRole(h) \/ ReadRemovable(h) \/ DeleteMembers(h))
        BY <3>2 DEF DeleteRoom, ReadTarget, WriteRole, ReadRemovable, DeleteMembers
      <3>4. ~(ReadInvited(h) \/ InsertMember(h) \/ ReadExisting(h) \/ InsertMembers(h))
        BY <3>2 DEF ReadInvited, InsertMember, ReadExisting, InsertMembers
      <3>5. ~(AssertRoomExists(h) \/ AssertCanManageMembers(h))
        BY <1>0, <3>1 DEF AssertRoomExists, AssertCanManageMembers, Shape
      <3>6. FinishRoom(h)
        BY <2>5, <3>3, <3>4, <3>5 DEF RoomStep, TellMembers, FailRoom
      <3> QED BY <1>2, <2>f, <3>6
    <2> QED BY <2>1, <2>2, <2>3, <2>4, <2>5
  <1> QED BY <1>1, <1>2

LEMMA PairStep ==
  ASSUME Core, MissedOK, OnePair, NEW h \in Handlers, RoomStep(h)
  PROVE  OnePair'
  <1> SUFFICES ASSUME NEW r \in Rooms, NEW x \in Rooms, NEW a \in Users, NEW b \in Users,
                      r # x, a # b, Lone(r, a, b)', Lone(x, a, b)'
               PROVE  {r, x} \in raced'
    BY DEF OnePair, Lone, Members
  <1> DEFINE q == roomReq[h]
  <1>0. raced \subseteq raced'
    BY DEF RoomStep, StartCreate, FindDirectRoom, InsertRoom, StartRequest, AssertRoomExists,
           AssertCanManageMembers, DeleteRoom, ReadTarget, WriteRole, ReadRemovable,
           DeleteMembers, ReadInvited, InsertMember, ReadExisting, InsertMembers,
           TellMembers, FailRoom
  <1>1. CASE Lone(r, a, b) /\ Lone(x, a, b)
    BY <1>0, <1>1 DEF OnePair
  <1>2. ASSUME NEW y \in Rooms, NEW z \in Rooms, y # z, InsertRoom(h), room[y] = NoRoom,
               Lone(y, a, b)', Lone(z, a, b)
        PROVE  {y, z} \in raced'
    <2>1. /\ q.type = "DIRECT" /\ {a, b} = {q.actor} \union q.who
          /\ raced' = raced \union {{y, w} : w \in q.missed}
      BY <1>2, InsertEffect
    <2>2. q.op = "create" /\ q.at = "write" /\ q.actor \notin q.who
      BY <1>2 DEF InsertRoom, RoomAt, Core, ShapeOK, Shape
    <2>3. PICK o \in Users : q.who = {o} /\ {q.actor, o} = {a, b}
      <3>1. CASE q.actor = a
        BY <2>1, <2>2, <3>1
      <3>2. CASE q.actor = b
        BY <2>1, <2>2, <3>2
      <3> QED BY <2>1, <3>1, <3>2
    <2>4. Lone(z, q.actor, o)
      BY <1>2, <2>3 DEF Lone
    <2>5. z \in q.missed
      BY <2>1, <2>2, <2>3, <2>4 DEF MissedOK
    <2> QED BY <2>1, <2>5
  <1>3. ASSUME InsertRoom(h), room[r] = NoRoom, room[x] = NoRoom PROVE FALSE
    <2>1. PICK y \in Rooms : \A z \in Rooms \ {y} : room'[z] = room[z]
      BY <1>3 DEF InsertRoom, Core, RoomTypeOK
    <2>2. room'[r] = NoRoom \/ room'[x] = NoRoom
      BY <1>3, <2>1
    <2> QED BY <2>2 DEF Lone, NoRoom
  <1>4. /\ Lone(r, a, b) \/ (InsertRoom(h) /\ room[r] = NoRoom)
        /\ Lone(x, a, b) \/ (InsertRoom(h) /\ room[x] = NoRoom)
    BY LoneStep
  <1>5. {r, x} = {x, r}
    OBVIOUS
  <1> QED BY <1>1, <1>2, <1>3, <1>4, <1>5

(* Two direct rooms of the same two users exist only if one was inserted   *)
(* between the look-up and the insert of the other, or if members have     *)
(* joined or left one of them.                                             *)
THEOREM DirectRoomsAreOne == RoomSpec => []OneDirectRoom
  <1> DEFINE PairInv == MissedOK /\ OnePair
  <1>1. RoomInit => PairInv
    BY DEF RoomInit, MissedOK, OnePair, Lone, NoRoom, NoRoomReq
  <1>2. Core /\ PairInv /\ [RoomNext]_roomVars => PairInv'
    <2>1. ASSUME PairInv, UNCHANGED roomVars PROVE PairInv'
      BY <2>1 DEF roomVars, MissedOK, OnePair, Lone, Members
    <2> QED BY <2>1, MissedStep, PairStep DEF RoomNext
  <1>3. PairInv => OneDirectRoom
    BY DEF OnePair, OneDirectRoom, Lone
  <1> QED BY <1>1, <1>2, <1>3, CoreInit, CoreStays, PTL DEF RoomSpec

-----------------------------------------------------------------------------
(* The notices of one user                                                 *)

Readings == {"no", "once", "again"}
NoticeRows == [made : BOOLEAN, read : Readings, hidden : BOOLEAN]
NoticeEntries == [has : BOOLEAN, items : SUBSET Notifications, total : Nat, pushed : BOOLEAN]
NoticeQueries == [at : {"none", "asked", "served"}, items : SUBSET Notifications, total : Nat]
Marks == [at : {"none", "sent", "found", "done"}, found : Readings]
Clicks == [op : {"none", "mark", "hide", "all"}, of : SUBSET Notifications,
           at : {"none", "sent", "found", "done"}, found : Readings]

NoticeTypes ==
  /\ row \in [Notifications -> NoticeRows]
  /\ about \in [Notifications -> Views] /\ view \in Views
  /\ pushes \subseteq Notifications /\ online \in BOOLEAN
  /\ entry \in [Lists -> NoticeEntries]
  /\ query \in [Lists -> NoticeQueries]
  /\ told \in BOOLEAN
  /\ marking \subseteq Notifications /\ refused \subseteq Notifications
  /\ mark \in [Notifications -> Marks]
  /\ click \in Clicks
  /\ gap \subseteq Lists

(* What a list holds, or an answer on its way, is what the server has.     *)
IsRight(x, e) == IsPageOf(x.items, e) /\ x.total = Cardinality(Listed)

(* Something will have the tab fetch its lists again.                      *)
WillTell ==
  \/ told \/ pushes # {}
  \/ \E n \in Notifications : mark[n].at = "done"
  \/ click.at = "done"

FreshLists ==
  \A e \in Lists \ gap :
    /\ query[e].at = "none" => WillTell \/ IsRight(entry[e], e)
    /\ query[e].at = "served" => WillTell \/ IsRight(query[e], e)

ToldPends == told => Pending(query, mark, click)

(* NotificationRouteSync asks for a notice once; what it has asked for and *)
(* is not on its way any more has been read.                               *)
MarksOK ==
  \A n \in Notifications :
    /\ mark[n].at # "none" => n \in marking
    /\ mark[n].at = "done" => row[n].read # "no"
    /\ n \in marking /\ mark[n].at = "none" => row[n].read # "no"

ViewOK ==
  \A n \in entry["unread"].items : about[n] = view => n \in marking \union refused

ClickOK == click.op = "mark" => \E n \in Notifications : click.of = {n}

NoticesInv ==
  NoticeTypes /\ FreshLists /\ ToldPends /\ MarksOK /\ ViewOK /\ ClickOK

------------------------------------------------------------------------------
LEMMA NoticesStart == NoticesInit => NoticesInv
<1> SUFFICES ASSUME NoticesInit PROVE NoticesInv
  OBVIOUS
<1>a. \A e \in Lists : query[e] = Asked /\ entry[e] = NoEntry
  BY DEF NoticesInit
<1>b. \A n \in Notifications : mark[n] = NoMark
  BY DEF NoticesInit
<1>1. NoticeTypes
  <2>1. Asked \in NoticeQueries
    BY DEF Asked, NoQuery, NoticeQueries
  <2>2. NoEntry \in NoticeEntries
    BY DEF NoEntry, NoticeEntries
  <2>3. NoMark \in Marks
    BY DEF NoMark, Marks, Readings
  <2>4. NoClick \in Clicks
    BY DEF NoClick, Clicks, Readings
  <2>5. row \in [Notifications -> NoticeRows]
    BY DEF NoticesInit, NoticeRows, Readings
  <2>6. about \in [Notifications -> Views] /\ view \in Views
    BY DEF NoticesInit
  <2> QED
    BY <2>1, <2>2, <2>3, <2>4, <2>5, <2>6 DEF NoticesInit, NoticeTypes
<1>2. FreshLists
  BY <1>a DEF FreshLists, Asked, NoQuery
<1>3. ToldPends
  BY DEF ToldPends, NoticesInit
<1>4. MarksOK
  BY <1>b DEF MarksOK, NoticesInit, NoMark
<1>5. ViewOK
  BY <1>a DEF ViewOK, NoEntry, Lists
<1>6. ClickOK
  BY DEF ClickOK, NoticesInit, NoClick
<1> QED
  BY <1>1, <1>2, <1>3, <1>4, <1>5, <1>6 DEF NoticesInv

------------------------------------------------------------------------------
(* Operators of the model *)

LEMMA ListedFinite ==
  ASSUME NoticesAssumption
  PROVE  IsFiniteSet(Listed) /\ Cardinality(Listed) \in Nat /\ Listed \subseteq Notifications
<1>1. Listed \subseteq Notifications
  BY DEF Listed
<1>2. IsFiniteSet(Listed)
  BY <1>1, FS_Subset DEF NoticesAssumption
<1> QED
  BY <1>1, <1>2, FS_CardinalityType

(* The list of unread notices, which has room for all of them, has all.    *)
LEMMA UnreadHasAll ==
  ASSUME NoticesAssumption, NEW items, IsPageOf(items, "unread")
  PROVE  items = Listed
<1> DEFINE all == Cardinality(Listed)
<1>1. /\ IsFiniteSet(Listed) /\ all \in Nat /\ Listed \subseteq Notifications
  BY ListedFinite
<1>2. Cardinality(Notifications) \in Nat /\ all <= Cardinality(Notifications)
  BY <1>1, FS_Subset, FS_CardinalityType DEF NoticesAssumption
<1>3. items \subseteq Listed
  BY DEF IsPageOf
<1>4. Cardinality(items) = all
  BY <1>1, <1>2 DEF IsPageOf, Limit
<1> QED
  BY <1>1, <1>3, <1>4, FS_Subset

LEMMA ReadAtReads ==
  ASSUME NEW r \in Readings, NEW f \in Readings
  PROVE  /\ ReadAt(r, f) \in Readings
         /\ ReadAt(r, f) # "no"
         /\ r # "no" => ReadAt(r, r) = r
BY DEF ReadAt, Readings

(* Whatever else a step does, when it settles with something to tell, the  *)
(* lists are or will be fetched again.                                     *)
LEMMA SettledTells ==
  ASSUME NEW q, NEW m, NEW c, NEW g, Settled(q, m, c, TRUE, g)
  PROVE  FreshLists'
<1>1. CASE Pending(q, m, c)
  <2>1. told'
    BY <1>1 DEF Settled
  <2> QED
    BY <2>1 DEF FreshLists, WillTell
<1>2. CASE ~Pending(q, m, c)
  <2>1. \A e \in Lists : query'[e].at = "asked"
    BY <1>2 DEF Settled, Asked, NoQuery
  <2> QED
    BY <2>1 DEF FreshLists
<1> QED
  BY <1>1, <1>2

LEMMA SettledPends ==
  ASSUME NEW q, NEW m, NEW c, NEW t \in BOOLEAN, NEW g \in SUBSET Lists, Settled(q, m, c, t, g),
         q \in [Lists -> NoticeQueries]
  PROVE  /\ told' \in BOOLEAN /\ query' \in [Lists -> NoticeQueries] /\ gap' \subseteq Lists
         /\ told' => query' = q /\ Pending(q, m, c)
<1> DEFINE now == t /\ ~Pending(q, m, c)
<1>1. /\ told' = (t /\ ~now)
      /\ query' = [e \in Lists |-> IF now THEN Asked ELSE q[e]]
      /\ gap' = IF now THEN {} ELSE g
  BY DEF Settled
<1>2. Asked \in NoticeQueries
  BY DEF Asked, NoQuery, NoticeQueries
<1>3. CASE now
  BY <1>1, <1>2, <1>3
<1>4. CASE ~now
  <2>1. query' = q /\ gap' = g
    BY <1>1, <1>4
  <2>2. told' \in BOOLEAN /\ (told' => Pending(q, m, c))
    BY <1>1
  <2> QED
    BY <2>1, <2>2
<1> QED
  BY <1>3, <1>4

LEMMA RouteSyncMarks ==
  ASSUME NoticeTypes, MarksOK, ViewOK, NEW u \in NoticeEntries, NEW v \in Views,
         RouteSync(u, v, mark, marking, refused)
  PROVE  /\ mark' \in [Notifications -> Marks] /\ marking' \subseteq Notifications
         /\ refused' \subseteq Notifications
         /\ \A n \in Notifications :
              /\ mark[n].at # "none" => mark'[n] = mark[n]
              /\ mark'[n].at = "none" => mark[n].at = "none" /\ (n \in marking' => n \in marking)
              /\ mark'[n] # mark[n] => mark'[n].at = "sent" /\ n \in marking'
         /\ marking \subseteq marking'
         /\ \A n \in u.items : about[n] = v => n \in marking' \union refused'
<1> DEFINE old == entry["unread"]
           IsNew == u.items # old.items \/ u.pushed # old.pushed
           due == IF IsNew \/ v # view THEN {n \in u.items : about[n] = v} \ marking ELSE {}
<1>1. /\ mark' = [n \in Notifications |-> IF n \in due THEN Sent ELSE mark[n]]
      /\ marking' = marking \union due
      /\ refused' = refused \ due
  BY DEF RouteSync
<1>2. due \subseteq Notifications
  BY DEF NoticeEntries
<1>3. due \cap marking = {}
  OBVIOUS
<1>4. \A n \in u.items : about[n] = v => n \in marking \union due \union refused
  <2>1. CASE IsNew \/ v # view
    BY <2>1
  <2>2. CASE ~IsNew /\ v = view
    BY <2>2 DEF ViewOK
  <2> QED
    BY <2>1, <2>2
<1>5. Sent \in Marks /\ Sent.at = "sent"
  BY DEF Sent, NoMark, Marks, Readings
<1> HIDE DEF due
<1>6. mark' \in [Notifications -> Marks]
  BY <1>1, <1>5 DEF NoticeTypes
<1>7. \A n \in Notifications :
        /\ mark[n].at # "none" => mark'[n] = mark[n]
        /\ mark'[n].at = "none" => mark[n].at = "none" /\ (n \in marking' => n \in marking)
        /\ mark'[n] # mark[n] => mark'[n].at = "sent" /\ n \in marking'
  BY <1>1, <1>3, <1>5 DEF MarksOK
<1> QED
  BY <1>1, <1>2, <1>4, <1>6, <1>7 DEF NoticeTypes

------------------------------------------------------------------------------
(* What an invariant is about stays right when it does not change          *)

LEMMA PendingKept ==
  ASSUME NoticeTypes, MarksOK, ToldPends, UNCHANGED <<told, query>>,
         \A n \in Notifications : mark[n].at # "none" => mark'[n].at # "none",
         click.at # "none" => click'.at # "none"
  PROVE  ToldPends'
BY DEF ToldPends, Pending

(* Nothing that decides whether the lists are right changes, but for what  *)
(* will have them fetched.                                                 *)
LEMMA FreshKept ==
  ASSUME FreshLists, row' = row, UNCHANGED <<query, entry>>, gap \subseteq gap',
         WillTell => WillTell'
  PROVE  FreshLists'
<1>1. Listed' = Listed
  BY DEF Listed
<1>2. \A e \in Lists : IsRight(entry[e], e)' <=> IsRight(entry[e], e)
  BY <1>1 DEF IsRight, IsPageOf, Limit
<1>3. \A e \in Lists : IsRight(query[e], e)' <=> IsRight(query[e], e)
  BY <1>1 DEF IsRight, IsPageOf, Limit
<1> QED
  BY <1>2, <1>3 DEF FreshLists

LEMMA MarksKept ==
  ASSUME MarksOK, UNCHANGED <<mark, marking>>,
         \A n \in Notifications : row[n].read # "no" => row'[n].read # "no"
  PROVE  MarksOK'
BY DEF MarksOK

(* A step that does not move a request of NotificationRouteSync, but may   *)
(* have it ask.                                                            *)
LEMMA MarksSynced ==
  ASSUME NoticeTypes, MarksOK, ViewOK, row' = row, about' = about,
         entry'["unread"] \in NoticeEntries, view' \in Views,
         RouteSync(entry'["unread"], view', mark, marking, refused)
  PROVE  /\ MarksOK' /\ ViewOK'
         /\ mark' \in [Notifications -> Marks] /\ marking' \subseteq Notifications
         /\ refused' \subseteq Notifications
         /\ \A n \in Notifications : mark[n].at # "none" => mark'[n] = mark[n]
<1>1. PICK u \in NoticeEntries : u = entry'["unread"]
  OBVIOUS
<1>2. PICK v \in Views : v = view'
  OBVIOUS
<1>3. RouteSync(u, v, mark, marking, refused)
  BY <1>1, <1>2
<1>4. /\ mark' \in [Notifications -> Marks] /\ marking' \subseteq Notifications
      /\ refused' \subseteq Notifications
      /\ \A n \in Notifications :
           /\ mark[n].at # "none" => mark'[n] = mark[n]
           /\ mark'[n].at = "none" => mark[n].at = "none" /\ (n \in marking' => n \in marking)
           /\ mark'[n] # mark[n] => mark'[n].at = "sent" /\ n \in marking'
      /\ marking \subseteq marking'
      /\ \A n \in u.items : about[n] = v => n \in marking' \union refused'
  BY <1>3, RouteSyncMarks
<1>5. MarksOK'
  BY <1>4 DEF MarksOK
<1>6. ViewOK'
  BY <1>1, <1>2, <1>4 DEF ViewOK
<1> QED
  BY <1>4, <1>5, <1>6

LEMMA ClickKept ==
  ASSUME ClickOK, click'.op \in {click.op, "none"}, click'.of = click.of \/ click'.op = "none"
  PROVE  ClickOK'
BY DEF ClickOK

------------------------------------------------------------------------------
(* The server *)

LEMMA CreateKeeps ==
  ASSUME NoticesInv, NEW n \in Notifications, Create(n)
  PROVE  NoticesInv'
<1> USE DEF NoticesInv
<1>0. /\ row' = [row EXCEPT ![n].made = TRUE]
      /\ online => pushes' = pushes \union {n} /\ gap' = gap
      /\ ~online => pushes' = pushes /\ gap' = Lists
      /\ UNCHANGED <<view, marking, mark, refused, about, online, entry, query, told, click>>
  BY DEF Create, sync
<1>a. row' \in [Notifications -> NoticeRows] /\ \A m \in Notifications : row'[m].read = row[m].read
  <2>1. PICK k \in NoticeRows : k = row[n]
    BY DEF NoticeTypes
  <2>2. [k EXCEPT !.made = TRUE] \in NoticeRows /\ [k EXCEPT !.made = TRUE].read = k.read
    BY DEF NoticeRows
  <2>3. row' = [row EXCEPT ![n] = [k EXCEPT !.made = TRUE]]
    BY <1>0, <2>1
  <2> QED
    BY <2>1, <2>2, <2>3 DEF NoticeTypes
<1>1. NoticeTypes'
  <2>1. pushes' \subseteq Notifications /\ gap' \subseteq Lists
    BY <1>0 DEF NoticeTypes
  <2> QED
    BY <1>0, <1>a, <2>1 DEF NoticeTypes
<1>2. FreshLists'
  <2>1. CASE online
    <3>1. n \in pushes'
      BY <1>0, <2>1
    <3> QED
      BY <3>1 DEF FreshLists, WillTell
  <2>2. CASE ~online
    BY <1>0, <2>2 DEF FreshLists
  <2> QED
    BY <2>1, <2>2
<1>3. ToldPends'
  BY <1>0, PendingKept
<1>4. MarksOK'
  BY <1>0, <1>a, MarksKept
<1>5. ViewOK'
  BY <1>0 DEF ViewOK
<1>6. ClickOK'
  BY <1>0, ClickKept
<1> QED
  BY <1>1, <1>2, <1>3, <1>4, <1>5, <1>6

LEMMA ElsewhereKeeps ==
  ASSUME NoticesInv, NEW n \in Notifications, Elsewhere(n)
  PROVE  NoticesInv'
<1> USE DEF NoticesInv
<1>0. /\ row' = [row EXCEPT ![n].read = "once"] /\ gap' = Lists
      /\ UNCHANGED <<pushes, online, view, marking, mark, refused, about, entry, query, told, click>>
  BY DEF Elsewhere, sync, link
<1>a. /\ row' \in [Notifications -> NoticeRows]
      /\ \A m \in Notifications : row[m].read # "no" => row'[m].read # "no"
  <2>1. PICK k \in NoticeRows : k = row[n]
    BY DEF NoticeTypes
  <2>2. [k EXCEPT !.read = "once"] \in NoticeRows /\ [k EXCEPT !.read = "once"].read # "no"
    BY DEF NoticeRows, Readings
  <2>3. row' = [row EXCEPT ![n] = [k EXCEPT !.read = "once"]]
    BY <1>0, <2>1
  <2> QED
    BY <2>1, <2>2, <2>3 DEF NoticeTypes
<1>1. NoticeTypes'
  BY <1>0, <1>a DEF NoticeTypes
<1>2. FreshLists'
  BY <1>0 DEF FreshLists
<1>3. ToldPends'
  BY <1>0, PendingKept
<1>4. MarksOK'
  BY <1>0, <1>a, MarksKept
<1>5. ViewOK'
  BY <1>0 DEF ViewOK
<1>6. ClickOK'
  BY <1>0, ClickKept
<1> QED
  BY <1>1, <1>2, <1>3, <1>4, <1>5, <1>6

LEMMA FindMarkKeeps ==
  ASSUME NoticesInv, NEW n \in Notifications, FindMark(n)
  PROVE  NoticesInv'
<1> USE DEF NoticesInv
<1>0. /\ mark[n].at = "sent" /\ mark' = [mark EXCEPT ![n] = LookedUp(n, @)]
      /\ UNCHANGED <<row, about, pushes, online, entry, query, told, gap, view, marking, click, refused>>
  BY DEF FindMark, server, link, lists
<1>a. /\ mark' \in [Notifications -> Marks]
      /\ \A m \in Notifications \ {n} : mark'[m] = mark[m]
      /\ mark'[n].at = "found"
  <2>1. PICK k \in Marks : k = mark[n]
    BY DEF NoticeTypes
  <2>2. PICK f \in Readings : f = row[n].read
    BY DEF NoticeTypes, NoticeRows
  <2>3. [k EXCEPT !.at = "found", !.found = f] \in Marks
    BY DEF Marks
  <2>4. mark' = [mark EXCEPT ![n] = [k EXCEPT !.at = "found", !.found = f]]
    BY <1>0, <2>1, <2>2 DEF LookedUp
  <2> QED
    BY <2>3, <2>4 DEF NoticeTypes, Marks
<1>1. NoticeTypes'
  BY <1>0, <1>a DEF NoticeTypes
<1>2. FreshLists'
  <2>1. WillTell => WillTell'
    BY <1>0, <1>a DEF WillTell
  <2> QED
    BY <1>0, <2>1, FreshKept
<1>3. ToldPends'
  BY <1>0, <1>a, PendingKept
<1>4. MarksOK'
  BY <1>0, <1>a DEF MarksOK
<1>5. ViewOK'
  BY <1>0 DEF ViewOK
<1>6. ClickOK'
  BY <1>0, ClickKept
<1> QED
  BY <1>1, <1>2, <1>3, <1>4, <1>5, <1>6

LEMMA UpdateMarkKeeps ==
  ASSUME NoticesInv, NEW n \in Notifications, UpdateMark(n)
  PROVE  /\ NoticesInv'
         /\ \A m \in Notifications : row[m].read # "no" /\ row'[m].read # row[m].read =>
              m = n /\ mark[n].at = "found" /\ mark[n].found # row[n].read
<1> USE DEF NoticesInv
<1>0. /\ mark[n].at = "found" /\ mark' = [mark EXCEPT ![n].at = "done"]
      /\ row' = [row EXCEPT ![n].read = ReadAt(@, mark[n].found)]
      /\ UNCHANGED <<about, pushes, online, entry, query, told, gap, view, marking, click, refused>>
  BY DEF UpdateMark, link, lists
<1>a. /\ mark' \in [Notifications -> Marks]
      /\ \A m \in Notifications \ {n} : mark'[m] = mark[m]
      /\ mark'[n].at = "done"
  <2>1. PICK k \in Marks : k = mark[n]
    BY DEF NoticeTypes
  <2>3. [k EXCEPT !.at = "done"] \in Marks
    BY DEF Marks
  <2>4. mark' = [mark EXCEPT ![n] = [k EXCEPT !.at = "done"]]
    BY <1>0, <2>1
  <2> QED
    BY <2>3, <2>4 DEF NoticeTypes, Marks
<1>b. /\ row' \in [Notifications -> NoticeRows] /\ row'[n].read # "no"
      /\ \A m \in Notifications \ {n} : row'[m] = row[m]
      /\ row[n].read # "no" /\ mark[n].found = row[n].read => row'[n].read = row[n].read
  <2>1. PICK k \in NoticeRows : k = row[n]
    BY DEF NoticeTypes
  <2>2. PICK f \in Readings : f = mark[n].found
    BY DEF NoticeTypes, Marks
  <2>3. k.read \in Readings
    BY DEF NoticeRows
  <2>4. PICK d : d = ReadAt(k.read, f)
    OBVIOUS
  <2>5. d \in Readings /\ d # "no" /\ (k.read # "no" /\ f = k.read => d = k.read)
    BY <2>3, <2>4, ReadAtReads
  <2>6. [k EXCEPT !.read = d] \in NoticeRows /\ [k EXCEPT !.read = d].read = d
    BY <2>5 DEF NoticeRows
  <2>7. row' = [row EXCEPT ![n] = [k EXCEPT !.read = d]]
    BY <1>0, <2>1, <2>2, <2>4
  <2> QED
    BY <2>1, <2>2, <2>5, <2>6, <2>7 DEF NoticeTypes
<1>1. NoticeTypes'
  BY <1>0, <1>a, <1>b DEF NoticeTypes
<1>2. FreshLists'
  BY <1>a DEF FreshLists, WillTell
<1>3. ToldPends'
  BY <1>0, <1>a, PendingKept
<1>4. MarksOK'
  BY <1>0, <1>a, <1>b DEF MarksOK
<1>5. ViewOK'
  BY <1>0 DEF ViewOK
<1>6. ClickOK'
  BY <1>0, ClickKept
<1>7. \A m \in Notifications : row[m].read # "no" /\ row'[m].read # row[m].read =>
        m = n /\ mark[n].at = "found" /\ mark[n].found # row[n].read
  BY <1>0, <1>b
<1> QED
  BY <1>1, <1>2, <1>3, <1>4, <1>5, <1>6, <1>7

LEMMA FindClickKeeps ==
  ASSUME NoticesInv, FindClick
  PROVE  NoticesInv'
<1> USE DEF NoticesInv
<1>0. /\ click.at = "sent" /\ click.op = "mark"
      /\ UNCHANGED <<row, about, pushes, online, entry, query, told, gap, view, marking, mark, refused>>
  BY DEF FindClick, server, link, lists, sync
<1>1. PICK n \in click.of : click' = LookedUp(n, click)
  BY DEF FindClick
<1>a. click' \in Clicks /\ click'.at = "found" /\ click'.op = click.op /\ click'.of = click.of
  <2>1. PICK k \in Clicks : k = click
    BY DEF NoticeTypes
  <2>2. n \in Notifications
    BY <1>1 DEF NoticeTypes, Clicks
  <2>3. PICK f \in Readings : f = row[n].read
    BY <2>2 DEF NoticeTypes, NoticeRows
  <2>4. click' = [k EXCEPT !.at = "found", !.found = f]
    BY <1>1, <2>1, <2>3 DEF LookedUp
  <2> QED
    BY <2>1, <2>4 DEF Clicks
<1>2. NoticeTypes'
  BY <1>0, <1>a DEF NoticeTypes
<1>3. FreshLists'
  <2>1. WillTell => WillTell'
    BY <1>0 DEF WillTell
  <2> QED
    BY <1>0, <2>1, FreshKept
<1>4. ToldPends'
  BY <1>0, <1>a, PendingKept
<1>5. MarksOK'
  BY <1>0, MarksKept
<1>6. ViewOK'
  BY <1>0 DEF ViewOK
<1>7. ClickOK'
  BY <1>a, ClickKept
<1> QED
  BY <1>2, <1>3, <1>4, <1>5, <1>6, <1>7

LEMMA UpdateClickKeeps ==
  ASSUME NoticesInv, UpdateClick
  PROVE  /\ NoticesInv'
         /\ \A m \in Notifications : row[m].read # "no" /\ row'[m].read # row[m].read =>
              click.at = "found" /\ click.of = {m} /\ click.found # row[m].read
<1> USE DEF NoticesInv
<1>0. /\ click.op # "none" /\ (click.op = "mark" => click.at = "found")
      /\ click' = [click EXCEPT !.at = "done"]
      /\ UNCHANGED <<about, pushes, online, entry, query, told, gap, view, marking, mark, refused>>
  BY DEF UpdateClick, link, lists, sync
<1>r. row' = [n \in Notifications |->
       CASE click.op = "mark" /\ n \in click.of -> [row[n] EXCEPT !.read = ReadAt(@, click.found)]
         [] click.op = "hide" /\ n \in click.of -> [row[n] EXCEPT !.hidden = TRUE]
         [] click.op = "all" /\ n \in Listed -> [row[n] EXCEPT !.read = "once"]
         [] OTHER -> row[n]]
  BY DEF UpdateClick
<1>a. click' \in Clicks /\ click'.at = "done" /\ click'.op = click.op /\ click'.of = click.of
  <2>1. PICK k \in Clicks : k = click
    BY DEF NoticeTypes
  <2>4. click' = [k EXCEPT !.at = "done"]
    BY <1>0, <2>1
  <2> QED
    BY <2>1, <2>4 DEF Clicks
<1>b. ASSUME NEW n \in Notifications
      PROVE  /\ row'[n] \in NoticeRows /\ (row[n].read # "no" => row'[n].read # "no")
             /\ row[n].read # "no" /\ row'[n].read # row[n].read =>
                  click.op = "mark" /\ n \in click.of /\ click.found # row[n].read
  <2>1. PICK k \in NoticeRows : k = row[n]
    BY DEF NoticeTypes
  <2>2. PICK f \in Readings : f = click.found
    BY DEF NoticeTypes, Clicks
  <2>3. k.read \in Readings
    BY DEF NoticeRows
  <2>4. PICK d : d = ReadAt(k.read, f)
    OBVIOUS
  <2>5. d \in Readings /\ d # "no" /\ (k.read # "no" /\ f = k.read => d = k.read)
    BY <2>3, <2>4, ReadAtReads
  <2>6. CASE click.op = "mark" /\ n \in click.of
    <3>1. row'[n] = [k EXCEPT !.read = d]
      BY <1>r, <2>1, <2>2, <2>4, <2>6
    <3>2. [k EXCEPT !.read = d] \in NoticeRows /\ [k EXCEPT !.read = d].read = d
      BY <2>5 DEF NoticeRows
    <3> QED
      BY <2>1, <2>2, <2>5, <2>6, <3>1, <3>2
  <2>7. CASE click.op = "hide" /\ n \in click.of
    <3>1. row'[n] = [k EXCEPT !.hidden = TRUE]
      BY <1>r, <2>1, <2>7
    <3>2. [k EXCEPT !.hidden = TRUE] \in NoticeRows /\ [k EXCEPT !.hidden = TRUE].read = k.read
      BY DEF NoticeRows
    <3> QED
      BY <2>1, <3>1, <3>2
  <2>8. CASE click.op = "all" /\ n \in Listed
    <3>1. row'[n] = [k EXCEPT !.read = "once"]
      BY <1>r, <2>1, <2>8
    <3>2. [k EXCEPT !.read = "once"] \in NoticeRows
      BY DEF NoticeRows, Readings
    <3>3. row[n].read = "no"
      BY <2>8 DEF Listed
    <3> QED
      BY <2>1, <3>1, <3>2, <3>3
  <2>9. CASE /\ ~(click.op = "mark" /\ n \in click.of) /\ ~(click.op = "hide" /\ n \in click.of)
             /\ ~(click.op = "all" /\ n \in Listed)
    <3>1. row'[n] = row[n]
      BY <1>r, <2>9
    <3> QED
      BY <2>1, <3>1
  <2> QED
    BY <2>6, <2>7, <2>8, <2>9
<1>c. row' \in [Notifications -> NoticeRows]
  <2>1. DOMAIN row' = Notifications /\ row' = [n \in DOMAIN row' |-> row'[n]]
    BY <1>r
  <2> QED
    BY <1>b, <2>1
<1>1. NoticeTypes'
  BY <1>0, <1>a, <1>c DEF NoticeTypes
<1>2. FreshLists'
  BY <1>a DEF FreshLists, WillTell
<1>3. ToldPends'
  BY <1>0, <1>a, PendingKept
<1>4. MarksOK'
  BY <1>0, <1>b, MarksKept
<1>5. ViewOK'
  BY <1>0 DEF ViewOK
<1>6. ClickOK'
  BY <1>a, ClickKept
<1>7. \A m \in Notifications : row[m].read # "no" /\ row'[m].read # row[m].read =>
        click.at = "found" /\ click.of = {m} /\ click.found # row[m].read
  BY <1>0, <1>b DEF ClickOK
<1> QED
  BY <1>1, <1>2, <1>3, <1>4, <1>5, <1>6, <1>7

LEMMA ReadListKeeps ==
  ASSUME NoticesInv, NoticesAssumption, NEW e \in Lists, ReadList(e)
  PROVE  NoticesInv'
<1> USE DEF NoticesInv
<1>0. /\ query[e].at = "asked"
      /\ UNCHANGED <<row, about, pushes, online, view, marking, mark, refused, entry, told, gap, click>>
  BY DEF ReadList, server, link, sync
<1>1. PICK items \in SUBSET Listed :
        /\ IsPageOf(items, e)
        /\ query' = [query EXCEPT ![e] = [at |-> "served", items |-> items,
                                           total |-> Cardinality(Listed)]]
  BY DEF ReadList
<1>2. Cardinality(Listed) \in Nat /\ Listed \subseteq Notifications
  BY ListedFinite
<1>3. /\ query' \in [Lists -> NoticeQueries] /\ query'[e].at = "served"
      /\ query'[e].items = items /\ query'[e].total = Cardinality(Listed)
      /\ \A f \in Lists \ {e} : query'[f] = query[f]
  BY <1>1, <1>2 DEF NoticeTypes, NoticeQueries
<1>4. NoticeTypes'
  BY <1>0, <1>3 DEF NoticeTypes
<1>5. FreshLists'
  <2>1. Listed' = Listed
    BY <1>0 DEF Listed
  <2>2. \A f \in Lists : IsRight(entry[f], f)' <=> IsRight(entry[f], f)
    BY <1>0, <2>1 DEF IsRight, IsPageOf, Limit
  <2>3. \A f \in Lists \ {e} : IsRight(query[f], f)' <=> IsRight(query[f], f)
    BY <1>3, <2>1 DEF IsRight, IsPageOf, Limit
  <2>4. IsRight(query[e], e)'
    BY <1>1, <1>3, <2>1 DEF IsRight, IsPageOf, Limit
  <2>5. WillTell => WillTell'
    BY <1>0 DEF WillTell
  <2> QED
    BY <1>0, <1>3, <2>2, <2>3, <2>4, <2>5 DEF FreshLists
<1>6. ToldPends'
  <2>1. Pending(query', mark', click')
    BY <1>3 DEF Pending
  <2> QED
    BY <2>1 DEF ToldPends
<1>7. MarksOK'
  BY <1>0, MarksKept
<1>8. ViewOK'
  BY <1>0 DEF ViewOK
<1>9. ClickOK'
  BY <1>0, ClickKept
<1> QED
  BY <1>4, <1>5, <1>6, <1>7, <1>8, <1>9

------------------------------------------------------------------------------
(* The tab *)

LEMMA DisconnectKeeps ==
  ASSUME NoticesInv, Disconnect
  PROVE  NoticesInv'
<1> USE DEF NoticesInv
<1>0. /\ online' = FALSE /\ pushes' = {}
      /\ gap' = IF pushes = {} THEN gap ELSE Lists
      /\ UNCHANGED <<row, about, view, marking, mark, refused, entry, query, told, click>>
  BY DEF Disconnect, server, sync
<1>1. NoticeTypes'
  BY <1>0 DEF NoticeTypes
<1>2. FreshLists'
  <2>1. CASE pushes = {}
    <3>1. WillTell => WillTell'
      BY <1>0, <2>1 DEF WillTell
    <3> QED
      BY <1>0, <2>1, <3>1, FreshKept
  <2>2. CASE pushes # {}
    BY <1>0, <2>2 DEF FreshLists
  <2> QED
    BY <2>1, <2>2
<1>3. ToldPends'
  BY <1>0, PendingKept
<1>4. MarksOK'
  BY <1>0, MarksKept
<1>5. ViewOK'
  BY <1>0 DEF ViewOK
<1>6. ClickOK'
  BY <1>0, ClickKept
<1> QED
  BY <1>1, <1>2, <1>3, <1>4, <1>5, <1>6

LEMMA ConnectKeeps ==
  ASSUME NoticesInv, Connect
  PROVE  NoticesInv'
<1> USE DEF NoticesInv
<1>0. /\ online' = TRUE
      /\ UNCHANGED <<row, about, pushes, view, marking, mark, refused, entry, query, told, gap, click>>
  BY DEF Connect, server, lists, sync
<1>1. NoticeTypes'
  BY <1>0 DEF NoticeTypes
<1>2. FreshLists'
  <2>1. WillTell => WillTell'
    BY <1>0 DEF WillTell
  <2> QED
    BY <1>0, <2>1, FreshKept
<1>3. ToldPends'
  BY <1>0, PendingKept
<1>4. MarksOK'
  BY <1>0, MarksKept
<1>5. ViewOK'
  BY <1>0 DEF ViewOK
<1>6. ClickOK'
  BY <1>0, ClickKept
<1> QED
  BY <1>1, <1>2, <1>3, <1>4, <1>5, <1>6

LEMMA ReceiveKeeps ==
  ASSUME NoticesInv, NEW n \in Notifications, Receive(n)
  PROVE  NoticesInv'
<1> USE DEF NoticesInv
<1>0. /\ pushes' = pushes \ {n}
      /\ entry' = [e \in Lists |-> Prepended(n, e)]
      /\ Settled(query, mark, click, TRUE, gap)
      /\ RouteSync(entry'["unread"], view, mark, marking, refused)
      /\ UNCHANGED <<row, about, online, view, click>>
  BY DEF Receive, server
<1>1. ASSUME NEW e \in Lists
      PROVE  entry'[e] \in NoticeEntries
  <2>1. PICK k \in NoticeEntries : k = entry[e]
    BY DEF NoticeTypes
  <2>2. PICK s : s = IF e = "badge" THEN {n} ELSE k.items \union {n}
    OBVIOUS
  <2>3. s \subseteq Notifications /\ k.total + 1 \in Nat
    BY <2>2 DEF NoticeEntries
  <2>4. [k EXCEPT !.items = s, !.total = k.total + 1, !.pushed = TRUE] \in NoticeEntries
    BY <2>3 DEF NoticeEntries
  <2>5. entry'[e] = k \/ entry'[e] = [k EXCEPT !.items = s, !.total = k.total + 1, !.pushed = TRUE]
    BY <1>0, <2>1, <2>2 DEF Prepended
  <2> QED
    BY <2>4, <2>5
<1>2. entry' \in [Lists -> NoticeEntries]
  BY <1>0, <1>1
<1>3. /\ told' \in BOOLEAN /\ query' \in [Lists -> NoticeQueries] /\ gap' \subseteq Lists
      /\ told' => query' = query /\ Pending(query, mark, click)
  BY <1>0, SettledPends DEF NoticeTypes
<1>4. /\ MarksOK' /\ ViewOK'
      /\ mark' \in [Notifications -> Marks] /\ marking' \subseteq Notifications
      /\ refused' \subseteq Notifications
      /\ \A m \in Notifications : mark[m].at # "none" => mark'[m] = mark[m]
  <2>1. view' \in Views /\ view' = view /\ entry'["unread"] \in NoticeEntries
    BY <1>0, <1>1 DEF NoticeTypes, Lists
  <2>2. RouteSync(entry'["unread"], view', mark, marking, refused)
    BY <1>0, <2>1
  <2> QED
    BY <1>0, <2>1, <2>2, MarksSynced
<1>5. NoticeTypes'
  BY <1>0, <1>2, <1>3, <1>4 DEF NoticeTypes
<1>6. FreshLists'
  BY <1>0, SettledTells
<1>7. ToldPends'
  BY <1>0, <1>3, <1>4 DEF ToldPends, Pending
<1>8. ClickOK'
  BY <1>0, ClickKept
<1> QED
  BY <1>4, <1>5, <1>6, <1>7, <1>8

LEMMA AnswerKeeps ==
  ASSUME NoticesInv, NEW e \in Lists, Answer(e)
  PROVE  NoticesInv'
<1> USE DEF NoticesInv
<1> DEFINE q == [query EXCEPT ![e] = NoQuery]
<1>0. /\ query[e].at = "served"
      /\ entry' = [entry EXCEPT ![e] = [has |-> TRUE, items |-> query[e].items,
                                         total |-> query[e].total, pushed |-> FALSE]]
      /\ Settled(q, mark, click, told, gap)
      /\ RouteSync(entry'["unread"], view, mark, marking, refused)
      /\ UNCHANGED <<row, about, pushes, online, view, click>>
  BY DEF Answer, server, link
<1>1. q \in [Lists -> NoticeQueries]
  <2>1. NoQuery \in NoticeQueries
    BY DEF NoQuery, NoticeQueries
  <2> QED
    BY <2>1 DEF NoticeTypes
<1>q. q[e] = NoQuery /\ \A f \in Lists \ {e} : q[f] = query[f]
  BY DEF NoticeTypes
<1> HIDE DEF q
<1>g. gap \in SUBSET Lists
  BY DEF NoticeTypes
<1>2. /\ entry' \in [Lists -> NoticeEntries]
      /\ entry'[e].items = query[e].items /\ entry'[e].total = query[e].total
      /\ \A f \in Lists \ {e} : entry'[f] = entry[f]
  <2>1. [has |-> TRUE, items |-> query[e].items, total |-> query[e].total, pushed |-> FALSE]
          \in NoticeEntries
    BY DEF NoticeTypes, NoticeQueries, NoticeEntries
  <2> QED
    BY <1>0, <2>1 DEF NoticeTypes
<1>3. /\ told' \in BOOLEAN /\ query' \in [Lists -> NoticeQueries] /\ gap' \subseteq Lists
      /\ told' => query' = q /\ Pending(q, mark, click)
  <2>1. Settled(q, mark, click, told, gap) /\ told \in BOOLEAN
    BY <1>0 DEF NoticeTypes
  <2> QED
    BY <1>1, <1>g, <2>1, SettledPends
<1>4. /\ MarksOK' /\ ViewOK'
      /\ mark' \in [Notifications -> Marks] /\ marking' \subseteq Notifications
      /\ refused' \subseteq Notifications
      /\ \A m \in Notifications : mark[m].at # "none" => mark'[m] = mark[m]
  <2>1. view' \in Views /\ view' = view /\ entry'["unread"] \in NoticeEntries
    BY <1>0, <1>2 DEF NoticeTypes, Lists
  <2>2. RouteSync(entry'["unread"], view', mark, marking, refused)
    BY <1>0, <2>1
  <2> QED
    BY <1>0, <2>1, <2>2, MarksSynced
<1>5. NoticeTypes'
  BY <1>0, <1>2, <1>3, <1>4 DEF NoticeTypes
<1>6. FreshLists'
  <2>1. CASE told = TRUE
    <3>1. Settled(q, mark, click, TRUE, gap)
      BY <1>0, <2>1
    <3> QED
      BY <3>1, SettledTells
  <2>2. CASE told = FALSE
    <3>1. query' = q /\ gap' = gap
      BY <1>0, <1>1, <2>2 DEF Settled
    <3>2. Listed' = Listed
      BY <1>0 DEF Listed
    <3>3. \A f \in Lists \ {e} : /\ IsRight(entry[f], f)' <=> IsRight(entry[f], f)
                                 /\ IsRight(query[f], f)' <=> IsRight(query[f], f)
      BY <1>2, <1>q, <3>1, <3>2 DEF IsRight, IsPageOf, Limit
    <3>4. IsRight(entry[e], e)' <=> IsRight(query[e], e)
      BY <1>2, <3>2 DEF IsRight, IsPageOf, Limit
    <3>5. WillTell => WillTell'
      BY <1>0, <1>4, <2>2 DEF WillTell
    <3>6. query'[e].at = "none"
      BY <1>q, <3>1 DEF NoQuery
    <3> QED
      BY <1>0, <1>q, <3>1, <3>3, <3>4, <3>5, <3>6 DEF FreshLists
  <2> QED
    BY <2>1, <2>2 DEF NoticeTypes
<1>7. ToldPends'
  BY <1>0, <1>3, <1>4 DEF ToldPends, Pending
<1>8. ClickOK'
  BY <1>0, ClickKept
<1> QED
  BY <1>4, <1>5, <1>6, <1>7, <1>8

LEMMA AnswerFailsKeeps ==
  ASSUME NoticesInv, NEW e \in Lists, AnswerFails(e)
  PROVE  NoticesInv'
<1> USE DEF NoticesInv
<1> DEFINE q == [query EXCEPT ![e] = NoQuery]
<1>0. /\ Settled(q, mark, click, told, gap \union {e})
      /\ UNCHANGED <<row, about, pushes, online, view, marking, mark, refused, entry, click>>
  BY DEF AnswerFails, server, link, sync
<1>1. q \in [Lists -> NoticeQueries]
  <2>1. NoQuery \in NoticeQueries
    BY DEF NoQuery, NoticeQueries
  <2> QED
    BY <2>1 DEF NoticeTypes
<1>q. \A f \in Lists \ {e} : q[f] = query[f]
  BY DEF NoticeTypes
<1> HIDE DEF q
<1>g. gap \union {e} \in SUBSET Lists
  BY DEF NoticeTypes
<1>3. /\ told' \in BOOLEAN /\ query' \in [Lists -> NoticeQueries] /\ gap' \subseteq Lists
      /\ told' => query' = q /\ Pending(q, mark, click)
  BY <1>0, <1>1, <1>g, SettledPends DEF NoticeTypes
<1>5. NoticeTypes'
  BY <1>0, <1>3 DEF NoticeTypes
<1>6. FreshLists'
  <2>1. CASE told = TRUE
    <3>1. Settled(q, mark, click, TRUE, gap \union {e})
      BY <1>0, <2>1
    <3> QED
      BY <3>1, SettledTells
  <2>2. CASE told = FALSE
    <3>1. query' = q /\ gap' = gap \union {e}
      BY <1>0, <1>1, <2>2 DEF Settled
    <3>2. Listed' = Listed
      BY <1>0 DEF Listed
    <3>3. \A f \in Lists \ {e} : /\ IsRight(entry[f], f)' <=> IsRight(entry[f], f)
                                 /\ IsRight(query[f], f)' <=> IsRight(query[f], f)
      BY <1>0, <1>q, <3>1, <3>2 DEF IsRight, IsPageOf, Limit
    <3>5. WillTell => WillTell'
      BY <1>0, <2>2 DEF WillTell
    <3> QED
      BY <1>q, <3>1, <3>3, <3>5 DEF FreshLists
  <2> QED
    BY <2>1, <2>2 DEF NoticeTypes
<1>7. ToldPends'
  BY <1>0, <1>3 DEF ToldPends
<1>8. MarksOK'
  BY <1>0, MarksKept
<1>9. ViewOK'
  BY <1>0 DEF ViewOK
<1>10. ClickOK'
  BY <1>0, ClickKept
<1> QED
  BY <1>5, <1>6, <1>7, <1>8, <1>9, <1>10

LEMMA SeeKeeps ==
  ASSUME NoticesInv, NEW v \in Views, See(v)
  PROVE  NoticesInv'
<1> USE DEF NoticesInv
<1> DEFINE used == {e \in {"badge"} : v = Page /\ query[e].at = "none"}
<1>0. /\ view' = v
      /\ query' = [e \in Lists |-> IF e \in used THEN Asked ELSE query[e]]
      /\ gap' = gap \ used
      /\ RouteSync(entry["unread"], v, mark, marking, refused)
      /\ UNCHANGED <<row, about, pushes, online, entry, told, click>>
  BY DEF See, server, link
<1>1. Asked \in NoticeQueries /\ Asked.at = "asked"
  BY DEF Asked, NoQuery, NoticeQueries
<1>2. /\ query' \in [Lists -> NoticeQueries]
      /\ \A e \in used \cap Lists : query'[e].at = "asked"
      /\ \A e \in Lists \ used : query'[e] = query[e]
      /\ \A e \in Lists : query[e].at # "none" => query'[e] = query[e]
  <2> HIDE DEF used
  <2>1. /\ query' \in [Lists -> NoticeQueries]
        /\ \A e \in used \cap Lists : query'[e].at = "asked"
        /\ \A e \in Lists \ used : query'[e] = query[e]
    BY <1>0, <1>1 DEF NoticeTypes
  <2>2. \A e \in used : query[e].at = "none"
    BY DEF used
  <2> QED
    BY <2>1, <2>2
<1> HIDE DEF used
<1>4. /\ MarksOK' /\ ViewOK'
      /\ mark' \in [Notifications -> Marks] /\ marking' \subseteq Notifications
      /\ refused' \subseteq Notifications
      /\ \A m \in Notifications : mark[m].at # "none" => mark'[m] = mark[m]
  <2>1. view' \in Views /\ entry'["unread"] \in NoticeEntries
    BY <1>0 DEF NoticeTypes, Lists
  <2>2. RouteSync(entry'["unread"], view', mark, marking, refused)
    BY <1>0
  <2> QED
    BY <1>0, <2>1, <2>2, MarksSynced
<1>5. NoticeTypes'
  BY <1>0, <1>2, <1>4 DEF NoticeTypes
<1>6. FreshLists'
  <2>2. Listed' = Listed
    BY <1>0 DEF Listed
  <2>3. \A f \in Lists \ used : /\ IsRight(entry[f], f)' <=> IsRight(entry[f], f)
                                /\ IsRight(query[f], f)' <=> IsRight(query[f], f)
    BY <1>0, <1>2, <2>2 DEF IsRight, IsPageOf, Limit
  <2>5. WillTell => WillTell'
    BY <1>0, <1>4 DEF WillTell
  <2> QED
    BY <1>0, <1>2, <2>3, <2>5 DEF FreshLists
<1>7. ToldPends'
  BY <1>0, <1>2, <1>4 DEF ToldPends, Pending
<1>8. ClickOK'
  BY <1>0, ClickKept
<1> QED
  BY <1>4, <1>5, <1>6, <1>7, <1>8

LEMMA MarkEndsKeeps ==
  ASSUME NoticesInv, NEW n \in Notifications, NEW ok \in BOOLEAN, MarkEnds(n, ok)
  PROVE  NoticesInv'
<1> USE DEF NoticesInv
<1>0. /\ mark[n].at = "done" \/ (~ok /\ mark[n].at = "sent")
      /\ mark' = [mark EXCEPT ![n] = NoMark]
      /\ marking' = IF ok THEN marking ELSE marking \ {n}
      /\ refused' = IF ok THEN refused ELSE refused \union {n}
      /\ Settled(query, mark', click, TRUE, gap)
      /\ UNCHANGED <<row, about, pushes, online, entry, view, click>>
  BY DEF MarkEnds, server, link
<1>1. /\ mark' \in [Notifications -> Marks] /\ mark'[n].at = "none"
      /\ \A m \in Notifications \ {n} : mark'[m] = mark[m]
  <2>1. NoMark \in Marks /\ NoMark.at = "none"
    BY DEF NoMark, Marks, Readings
  <2> QED
    BY <1>0, <2>1 DEF NoticeTypes
<1>3. /\ told' \in BOOLEAN /\ query' \in [Lists -> NoticeQueries] /\ gap' \subseteq Lists
      /\ told' => query' = query /\ Pending(query, mark', click)
  <2>1. PICK m : m = mark'
    OBVIOUS
  <2>2. Settled(query, m, click, TRUE, gap)
    BY <1>0, <2>1
  <2>3. /\ told' \in BOOLEAN /\ query' \in [Lists -> NoticeQueries] /\ gap' \subseteq Lists
        /\ told' => query' = query /\ Pending(query, m, click)
    BY <2>2, SettledPends DEF NoticeTypes
  <2> QED
    BY <2>1, <2>3
<1>5. NoticeTypes'
  <2>1. marking' \subseteq Notifications /\ refused' \subseteq Notifications
    BY <1>0 DEF NoticeTypes
  <2> QED
    BY <1>0, <1>1, <1>3, <2>1 DEF NoticeTypes
<1>6. FreshLists'
  <2>1. PICK m : m = mark'
    OBVIOUS
  <2>2. Settled(query, m, click, TRUE, gap)
    BY <1>0, <2>1
  <2> QED
    BY <2>2, SettledTells
<1>7. ToldPends'
  BY <1>0, <1>3 DEF ToldPends
<1>8. MarksOK'
  BY <1>0, <1>1 DEF MarksOK
<1>9. ViewOK'
  BY <1>0 DEF ViewOK
<1>10. ClickOK'
  BY <1>0, ClickKept
<1> QED
  BY <1>5, <1>6, <1>7, <1>8, <1>9, <1>10

LEMMA ClickKeeps ==
  ASSUME NoticesInv, NEW op \in {"mark", "hide", "all"}, NEW of \in SUBSET Notifications,
         op = "mark" => \E n \in Notifications : of = {n},
         Click(op, of)
  PROVE  NoticesInv'
<1> USE DEF NoticesInv
<1>0. /\ click = NoClick /\ click' = [NoClick EXCEPT !.op = op, !.of = of, !.at = "sent"]
      /\ UNCHANGED <<row, about, pushes, online, view, marking, mark, refused, entry, query, told, gap>>
  BY DEF Click, server, link, lists, sync
<1>1. click' \in Clicks /\ click'.op = op /\ click'.of = of /\ click.at = "none"
  BY <1>0 DEF NoClick, Clicks, Readings
<1>2. NoticeTypes'
  BY <1>0, <1>1 DEF NoticeTypes
<1>3. FreshLists'
  <2>1. WillTell => WillTell'
    BY <1>0, <1>1 DEF WillTell
  <2> QED
    BY <1>0, <2>1, FreshKept
<1>4. ToldPends'
  BY <1>0, <1>1, PendingKept
<1>5. MarksOK'
  BY <1>0, MarksKept
<1>6. ViewOK'
  BY <1>0 DEF ViewOK
<1>7. ClickOK'
  BY <1>1 DEF ClickOK
<1> QED
  BY <1>2, <1>3, <1>4, <1>5, <1>6, <1>7

LEMMA ClickEndsKeeps ==
  ASSUME NoticesInv, NEW ok \in BOOLEAN, ClickEnds(ok)
  PROVE  NoticesInv'
<1> USE DEF NoticesInv
<1> DEFINE opened == {about[n] : n \in IF click.op = "mark" THEN click.of ELSE {}}
<1>0. /\ click' = NoClick
      /\ Settled(query, mark, NoClick, TRUE, gap)
      /\ view' = CHOOSE v \in Views : IF opened = {} THEN v = view ELSE v \in opened
      /\ RouteSync(entry["unread"], view', mark, marking, refused)
      /\ UNCHANGED <<row, about, pushes, online, entry>>
  BY DEF ClickEnds, server, link
<1>1. view' \in Views
  <2>1. opened \subseteq Views
    BY DEF NoticeTypes, Clicks
  <2> HIDE DEF opened
  <2>2. CASE opened = {}
    BY <1>0, <2>2 DEF NoticeTypes
  <2>3. CASE opened # {}
    BY <1>0, <2>1, <2>3
  <2> QED
    BY <2>2, <2>3
<1>c. NoClick \in Clicks /\ NoClick.op = "none"
  BY DEF NoClick, Clicks, Readings
<1>3. /\ told' \in BOOLEAN /\ query' \in [Lists -> NoticeQueries] /\ gap' \subseteq Lists
      /\ told' => query' = query /\ Pending(query, mark, NoClick)
  BY <1>0, SettledPends DEF NoticeTypes
<1>4. /\ MarksOK' /\ ViewOK'
      /\ mark' \in [Notifications -> Marks] /\ marking' \subseteq Notifications
      /\ refused' \subseteq Notifications
      /\ \A m \in Notifications : mark[m].at # "none" => mark'[m] = mark[m]
  <2>1. entry'["unread"] \in NoticeEntries /\ entry' = entry
    BY <1>0 DEF NoticeTypes, Lists
  <2>2. RouteSync(entry'["unread"], view', mark, marking, refused)
    BY <1>0
  <2> QED
    BY <1>0, <1>1, <2>1, <2>2, MarksSynced
<1>5. NoticeTypes'
  BY <1>0, <1>1, <1>3, <1>4, <1>c DEF NoticeTypes
<1>6. FreshLists'
  BY <1>0, SettledTells
<1>7. ToldPends'
  BY <1>0, <1>3, <1>4 DEF ToldPends, Pending
<1>8. ClickOK'
  BY <1>0, <1>c DEF ClickOK
<1> QED
  BY <1>4, <1>5, <1>6, <1>7, <1>8

------------------------------------------------------------------------------
(* What follows *)

LEMMA RestIsRight ==
  ASSUME NoticesInv, NoticesAssumption
  PROVE  CountsRight /\ ViewIsRead
<1> SUFFICES ASSUME AtRest
             PROVE  /\ \A e \in Lists \ gap : IsRight(entry[e], e)
                    /\ "unread" \notin gap =>
                         \A n \in Listed : about[n] = view => n \in refused
  BY DEF CountsRight, ViewIsRead, IsRight
<1>1. /\ \A e \in Lists : query[e].at = "none"
      /\ \A n \in Notifications : mark[n].at = "none"
      /\ click.at = "none" /\ pushes = {}
  BY DEF AtRest, Pending, NoticesInv, NoticeTypes, NoticeQueries, Marks, Clicks
<1>2. ~WillTell
  BY <1>1 DEF WillTell, NoticesInv, ToldPends, Pending
<1>3. \A e \in Lists \ gap : IsRight(entry[e], e)
  BY <1>1, <1>2 DEF NoticesInv, FreshLists
<1>4. ASSUME "unread" \notin gap, NEW n \in Listed, about[n] = view
      PROVE  n \in refused
  <2>1. IsPageOf(entry["unread"].items, "unread")
    BY <1>3, <1>4 DEF Lists, IsRight
  <2>2. n \in entry["unread"].items
    BY <2>1, UnreadHasAll
  <2>3. n \in Notifications /\ row[n].read = "no"
    BY DEF Listed
  <2> QED
    BY <1>1, <1>4, <2>2, <2>3 DEF NoticesInv, ViewOK, MarksOK
<1> QED
  BY <1>3, <1>4

(* The rows whose reading a step changes.                                  *)
LEMMA ReadingsKept ==
  ASSUME UNCHANGED row
  PROVE  FirstReadingKept
BY DEF FirstReadingKept

LEMMA NoticesStep ==
  ASSUME NoticesInv, NoticesAssumption, NoticesNext
  PROVE  NoticesInv' /\ FirstReadingKept
<1>1. ASSUME NEW n \in Notifications, Create(n)
      PROVE  NoticesInv' /\ FirstReadingKept
  <2>1. PICK k \in NoticeRows : k = row[n]
    BY DEF NoticesInv, NoticeTypes
  <2>2. row' = [row EXCEPT ![n] = [k EXCEPT !.made = TRUE]] /\ [k EXCEPT !.made = TRUE].read = k.read
    BY <1>1, <2>1 DEF Create, NoticeRows
  <2>3. \A m \in Notifications : row'[m].read = row[m].read
    BY <2>1, <2>2 DEF NoticesInv, NoticeTypes
  <2> QED
    BY <1>1, <2>3, CreateKeeps DEF FirstReadingKept
<1>2. ASSUME NEW n \in Notifications, Receive(n)
      PROVE  NoticesInv' /\ FirstReadingKept
  BY <1>2, ReceiveKeeps, ReadingsKept DEF Receive, server
<1>3. ASSUME NEW n \in Notifications, Elsewhere(n)
      PROVE  NoticesInv' /\ FirstReadingKept
  <2>1. row[n].read = "no" /\ \A m \in Notifications \ {n} : row'[m] = row[m]
    BY <1>3 DEF Elsewhere, NoticesInv, NoticeTypes
  <2> QED
    BY <1>3, <2>1, ElsewhereKeeps DEF FirstReadingKept
<1>4. ASSUME NEW n \in Notifications, FindMark(n)
      PROVE  NoticesInv' /\ FirstReadingKept
  BY <1>4, FindMarkKeeps, ReadingsKept DEF FindMark, server
<1>5. ASSUME NEW n \in Notifications, UpdateMark(n)
      PROVE  NoticesInv' /\ FirstReadingKept
  BY <1>5, UpdateMarkKeeps DEF FirstReadingKept
<1>6. ASSUME NEW n \in Notifications, NEW ok \in BOOLEAN, MarkEnds(n, ok)
      PROVE  NoticesInv' /\ FirstReadingKept
  BY <1>6, MarkEndsKeeps, ReadingsKept DEF MarkEnds, server
<1>7. ASSUME NEW n \in Notifications, NEW op \in {"mark", "hide"}, Click(op, {n})
      PROVE  NoticesInv' /\ FirstReadingKept
  <2>1. NoticesInv'
    <3>1. op \in {"mark", "hide", "all"} /\ {n} \in SUBSET Notifications
      OBVIOUS
    <3> QED
      BY <1>7, <3>1, ClickKeeps
  <2> QED
    BY <1>7, <2>1, ReadingsKept DEF Click, server
<1>8. ASSUME Click("all", {})
      PROVE  NoticesInv' /\ FirstReadingKept
  <2>1. NoticesInv'
    <3>1. "all" \in {"mark", "hide", "all"} /\ "all" # "mark" /\ {} \in SUBSET Notifications
      OBVIOUS
    <3> QED
      BY <1>8, <3>1, ClickKeeps
  <2> QED
    BY <1>8, <2>1, ReadingsKept DEF Click, server
<1>9. ASSUME FindClick
      PROVE  NoticesInv' /\ FirstReadingKept
  BY <1>9, FindClickKeeps, ReadingsKept DEF FindClick, server
<1>10. ASSUME UpdateClick
       PROVE  NoticesInv' /\ FirstReadingKept
  BY <1>10, UpdateClickKeeps DEF FirstReadingKept
<1>11. ASSUME NEW ok \in BOOLEAN, ClickEnds(ok)
       PROVE  NoticesInv' /\ FirstReadingKept
  BY <1>11, ClickEndsKeeps, ReadingsKept DEF ClickEnds, server
<1>12. ASSUME NEW e \in Lists, ReadList(e)
       PROVE  NoticesInv' /\ FirstReadingKept
  BY <1>12, ReadListKeeps, ReadingsKept DEF ReadList, server
<1>13. ASSUME NEW e \in Lists, Answer(e)
       PROVE  NoticesInv' /\ FirstReadingKept
  BY <1>13, AnswerKeeps, ReadingsKept DEF Answer, server
<1>14. ASSUME NEW e \in Lists, AnswerFails(e)
       PROVE  NoticesInv' /\ FirstReadingKept
  BY <1>14, AnswerFailsKeeps, ReadingsKept DEF AnswerFails, server
<1>15. ASSUME Disconnect
       PROVE  NoticesInv' /\ FirstReadingKept
  BY <1>15, DisconnectKeeps, ReadingsKept DEF Disconnect, server
<1>16. ASSUME Connect
       PROVE  NoticesInv' /\ FirstReadingKept
  BY <1>16, ConnectKeeps, ReadingsKept DEF Connect, server
<1>17. ASSUME NEW v \in Views, See(v)
       PROVE  NoticesInv' /\ FirstReadingKept
  BY <1>17, SeeKeeps, ReadingsKept DEF See, server
<1> QED
  BY <1>1, <1>2, <1>3, <1>4, <1>5, <1>6, <1>7, <1>8, <1>9, <1>10, <1>11, <1>12, <1>13, <1>14,
     <1>15, <1>16, <1>17 DEF NoticesNext

LEMMA NoticesStutter ==
  ASSUME NoticesInv, UNCHANGED noticeVars
  PROVE  NoticesInv'
<1>1. UNCHANGED <<row, about, pushes, online, entry, query, told, gap, view, marking, mark, refused, click>>
  BY DEF noticeVars, server, link, lists, sync
<1>2. FreshLists'
  <2>1. WillTell => WillTell'
    BY <1>1 DEF WillTell
  <2> QED
    BY <1>1, <2>1, FreshKept DEF NoticesInv
<1> QED
  BY <1>1, <1>2 DEF NoticesInv, NoticeTypes, ToldPends, MarksOK, ViewOK, ClickOK

(* Whatever order notifications, answers, failures and the user come in,   *)
(* once the tab is at rest its lists and counts are those of the server,   *)
(* no notice about what the screen shows is left unread, and no request    *)
(* writes over when a notice was first read but one that had looked        *)
(* before: for every set of notices and views, with no bound on what       *)
(* happens.                                                                *)
THEOREM NoticesComeOutRight == NoticesSpec => NoticesSound
<1> USE NoticesAssumption
<1>1. NoticesInit => NoticesInv
  BY NoticesStart
<1>2. NoticesInv /\ [NoticesNext]_noticeVars => NoticesInv'
  BY NoticesStep, NoticesStutter
<1>3. NoticesInv => CountsRight /\ ViewIsRead
  BY RestIsRight
<1>4. NoticesInv /\ [NoticesNext]_noticeVars => [FirstReadingKept]_noticeVars
  BY NoticesStep
<1> QED
  BY <1>1, <1>2, <1>3, <1>4, PTL DEF NoticesSpec, NoticesSound
===============================================================================
