------------------------------ MODULE RoomRoles ------------------------------
(***************************************************************************)
(* What the modules of the chat share: users, rooms, the slots of the      *)
(* server that work on requests, and the roles a member of a room can have *)
(* (RoomRole, as seeded).                                                  *)
(***************************************************************************)
CONSTANTS
  Users,
  Rooms,     \* room ids
  Handlers,  \* requests in flight: bounds the interleavings
  None       \* no user, room, topic, message or scope

ASSUME NoneAssumption == None \notin Users \union Rooms

(* ASSIGNABLE_ROOM_ROLE_NAMES: the roles a request may give.  Nobody can   *)
(* be given the seeded role moderator, so no member has it.                *)
Assignable == {"admin", "member"}

Roles == Assignable \union {"owner"}

(* userHasRoomPermission for the permissions that manage members, topics   *)
(* and visibility, or pin messages: the seed gives none of them to member. *)
Managers == {"owner", "admin"}
==============================================================================
