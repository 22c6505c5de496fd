------------------------------- MODULE MCRooms -------------------------------
(***************************************************************************)
(* Instances of Rooms and of Notices for TLC; scenario says which of them, *)
(* and which requests meet.                                                *)
(***************************************************************************)
EXTENDS Rooms, Notices, TLC

CONSTANTS
  Pair,   \* users of the scenario that needs two
  Lobby,  \* the room of the scenarios that need one
  Pace    \* of notifications made, moves of the user and mishaps together

VARIABLE scenario

Meet == [direct  |-> {"create", "delete", "remove"},
         joining |-> {"create", "add", "batch", "bulkAdd", "remove"},
         ruling  |-> {"create", "role", "remove", "bulkRemove"}]

(* direct: rooms of two; joining: one room, of its creator at first, and   *)
(* up to two users per request; ruling: one room of three.                 *)
Fits(q) ==
  LET all == q.who \union q.added IN
  /\ q.op \in Meet[scenario] \union {"none"}
  /\ scenario # "direct" => q.room \in {Lobby, None}
  /\ (scenario # "ruling" /\ q.op = "remove") => q.who = {q.actor}
  /\ CASE scenario = "direct"  -> all \union {q.actor} \subseteq Pair \union {None}
       [] scenario = "joining" -> /\ q.op = "create" => all = {}
                                  /\ Cardinality(all) <= 2
                                  /\ (q.op = "batch" /\ q.at = "room") => Cardinality(all) = 2
       [] scenario = "ruling"  -> q.op = "create" => Cardinality(all) = 2
  /\ q.op = "create" => q.type = IF scenario = "direct" THEN "DIRECT" ELSE "GROUP"

MCInit ==
  /\ RoomInit /\ scenario \in DOMAIN Meet \union {"notices"}
  /\ NoticesInit
  /\ scenario # "notices" =>
       /\ \A n \in Notifications : ~row[n].made /\ about[n] = CHOOSE v \in Views \ {Page} : TRUE
       /\ view = Page

RoomsMeet ==
  /\ RoomNext /\ UNCHANGED noticeVars
  /\ \A h \in Handlers : Fits(roomReq'[h])
  /\ scenario # "direct" => \A r \in Rooms \ {Lobby} : UNCHANGED room[r]

NoticesMeet ==
  /\ NoticesNext /\ UNCHANGED roomVars
  /\ moves' + mishaps' + Cardinality({n \in Notifications : row'[n].made}) <= Pace

MCNext ==
  /\ \/ scenario \in DOMAIN Meet /\ RoomsMeet
     \/ scenario = "notices" /\ NoticesMeet
  /\ UNCHANGED scenario

MCSpec == MCInit /\ [][MCNext]_<<roomVars, noticeVars, scenario>>

Symmetry == Permutations(Pair) \union Permutations(Handlers) \union Permutations(Notifications)
==============================================================================
