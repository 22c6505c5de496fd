----------------------------- MODULE ApiSlices -----------------------------
(***************************************************************************)
(* The API slices of the client (src/client/src/api), whose caches the tab *)
(* of a user shows: which tags a query provides and a mutation             *)
(* invalidates, and what follows for one watched entry of one query while  *)
(* mutations of the tab are answered in any order with its own queries.    *)
(*                                                                         *)
(* A slice is a table.  Its rows say, of a query, the tags it provides and *)
(* the facts of the server it reads; of a mutation, the tags it            *)
(* invalidates and the facts it writes.  A tag or a fact is <<type,        *)
(* scope>>: of every id ("all"), of the id of the argument ("one"), of     *)
(* every row of the answer ("each"), or of the reader ("mine").  Another   *)
(* slice knows nothing of the tags of this one.                            *)
(***************************************************************************)
EXTENDS Naturals, FiniteSets

CONSTANTS
  Ids,      \* of the rows of a slice
  own,      \* the argument of the watched query, and the id of its reader
  Changes,    \* mutations of the tab
  UserIds,  \* who sign in, one after the other
  Nobody

ASSUME SlicesAssumption == own \in Ids /\ Nobody \notin UserIds

VARIABLES
  watched,  \* the query, with the rows its answer lists
  entry,    \* its entry in the cache of the slice, or what NoEntry says
  change,     \* change[s]: a mutation and how far it has got
  others,   \* is another query of the slice on its way
  delayed,  \* tags that wait until nothing of the slice is pending
  reader    \* the user signed in

sliceVars == <<watched, entry, change, others, delayed, reader>>

All(t) == <<t, "all">>
One(t) == <<t, "one">>
PerRow(t) == <<t, "each">>
Mine(t) == <<t, "mine">>

Endpoint(tags, facts) == [tags |-> tags, facts |-> facts]

------------------------------------------------------------------------------
(* The slices.  A fact named in the plural is which rows there are.        *)

UnitEndpoints ==
  [slice |-> "org",
   queries |->
     [getOrgTree        |-> Endpoint({All("OrgTree")}, {All("units"), All("unit")}),
      getOrgUnitById    |-> Endpoint({One("OrgUnit")}, {One("unit")}),
      getOrgUnitMembers |-> Endpoint({One("OrgUnitMembers")}, {One("members"), All("position")}),
      getOrgUnitTags    |-> Endpoint({One("OrgUnitTags")}, {One("unitTags"), All("tag")})],
   mutations |->
     [createOrgUnit               |-> Endpoint({All("OrgTree")}, {All("units")}),
      updateOrgUnit               |-> Endpoint({All("OrgTree"), One("OrgUnit")}, {One("unit")}),
      deleteOrgUnit               |-> Endpoint({All("OrgTree"), One("OrgUnit")}, {All("units"), One("unit")}),
      addOrgUnitMember            |-> Endpoint({One("OrgUnitMembers")}, {One("members")}),
      changeOrgUnitMemberPosition |-> Endpoint({One("OrgUnitMembers")}, {One("members")}),
      removeOrgUnitMember         |-> Endpoint({One("OrgUnitMembers")}, {One("members")}),
      addOrgUnitTag               |-> Endpoint({One("OrgUnitTags")}, {One("unitTags")}),
      removeOrgUnitTag            |-> Endpoint({One("OrgUnitTags")}, {One("unitTags")})]]

(* The server has no handler for updateTag.                                *)
PositionEndpoints ==
  [slice |-> "org",
   queries |->
     [listPositions     |-> Endpoint({All("Positions")}, {All("positions"), All("position")}),
      listPositionRoles |-> Endpoint({One("PositionRoles")}, {One("positionRoles")}),
      listTags          |-> Endpoint({All("Tags")}, {All("tags"), All("tag")})],
   mutations |->
     [createPosition      |-> Endpoint({All("Positions")}, {All("positions")}),
      updatePosition      |-> Endpoint({All("Positions")}, {One("position")}),
      deletePosition      |-> Endpoint({All("Positions")}, {All("positions"), One("position")}),
      assignPositionRoles |-> Endpoint({One("PositionRoles")}, {One("positionRoles")}),
      removePositionRole  |-> Endpoint({One("PositionRoles")}, {One("positionRoles")}),
      createTag           |-> Endpoint({All("Tags")}, {All("tags")}),
      updateTag           |-> Endpoint({All("Tags")}, {}),
      deleteTag           |-> Endpoint({All("Tags")}, {All("tags"), One("tag")})]]

RoleEndpoints ==
  [slice |-> "rbac",
   queries |->
     [listRoles     |-> Endpoint({All("Roles")}, {All("roles"), All("role")}),
      getRole       |-> Endpoint({One("Role")}, {One("role"), One("rolePermissions")}),
      listUserRoles |-> Endpoint({One("UserRoles")}, {One("userRoles"), All("role")}),
      listMyRoles   |-> Endpoint({One("UserRoles")}, {One("userRoles"), All("role")})],
   mutations |->
     [createRole           |-> Endpoint({All("Roles")}, {All("roles")}),
      updateRole           |-> Endpoint({All("Roles"), One("Role")}, {One("role")}),
      deleteRole           |-> Endpoint({All("Roles")}, {All("roles"), One("role")}),
      addRolePermissions   |-> Endpoint({All("Roles"), One("Role")}, {One("rolePermissions")}),
      removeRolePermission |-> Endpoint({All("Roles"), One("Role")}, {One("rolePermissions")}),
      assignUserRoles      |-> Endpoint({One("UserRoles")}, {One("userRoles")}),
      removeUserRole       |-> Endpoint({One("UserRoles")}, {One("userRoles")})]]

RoomRoleEndpoints ==
  [slice |-> "rbac",
   queries |->
     [listRoomRoles |-> Endpoint({All("RoomRoles")}, {All("roomRoles"), All("roomRole")}),
      getRoomRole   |-> Endpoint({One("RoomRoles")}, {One("roomRole")})],
   mutations |->
     [createRoomRole           |-> Endpoint({All("RoomRoles")}, {All("roomRoles")}),
      updateRoomRole           |-> Endpoint({All("RoomRoles"), One("RoomRoles")}, {One("roomRole")}),
      addRoomRolePermissions   |-> Endpoint({All("RoomRoles"), One("RoomRoles")}, {One("roomRole")}),
      removeRoomRolePermission |-> Endpoint({All("RoomRoles"), One("RoomRoles")}, {One("roomRole")})]]

(* getMyProfile and updateMe are about the reader, whose id is own.        *)
UserEndpoints ==
  LET administer == Endpoint({All("Users"), One("User")}, {One("user")}) IN
  [slice |-> "users",
   queries |->
     [getMyProfile         |-> Endpoint({All("User"), All("Me")}, {One("user")}),
      listUsers            |-> Endpoint({All("Users"), PerRow("User")}, {All("users"), All("user")}),
      searchUsersDirectory |-> Endpoint({All("Users")}, {All("users"), All("user")}),
      getUserById          |-> Endpoint({One("User")}, {One("user")}),
      getUserProfileById   |-> Endpoint({One("User")}, {One("user")})],
   mutations |->
     [createUser |-> Endpoint({All("Users")}, {All("users")}),
      updateUser |-> Endpoint({One("User")}, {One("user")}),
      deleteUser |-> Endpoint({All("Users")}, {All("users"), One("user")}),
      updateMe   |-> Endpoint({All("Me"), All("Profile")}, {Mine("user")}),
      blockUser |-> administer, unblockUser |-> administer, activateUser |-> administer,
      deactivateUser |-> administer, resetUserPassword |-> administer]]

TaskEndpoints ==
  LET list == Endpoint({All("Tasks"), PerRow("Task")}, {All("tasks"), All("task")})
      edit == Endpoint({All("Tasks"), One("Task")}, {One("task")})
  IN
  [slice |-> "tasks",
   queries |->
     [getMyTasks |-> list, getCreatedTasks |-> list, getTask |-> Endpoint({One("Task")}, {One("task")})],
   mutations |->
     [createTask |-> Endpoint({All("Tasks")}, {All("tasks")}),
      deleteTask |-> Endpoint({All("Tasks")}, {All("tasks"), One("task")}),
      updateTask |-> edit, assignParticipants |-> edit, removeParticipant |-> edit,
      updateWorkStatus |-> edit, reviewParticipant |-> edit]]

EventEndpoints ==
  LET list == Endpoint({All("Events"), PerRow("Event")}, {All("events"), All("event")})
      edit == Endpoint({All("Events"), One("Event")}, {One("event")})
  IN
  [slice |-> "events",
   queries |->
     [getMyEvents |-> list, getCreatedEvents |-> list, getEvent |-> Endpoint({One("Event")}, {One("event")})],
   mutations |->
     [createEvent |-> Endpoint({All("Events")}, {All("events")}),
      deleteEvent |-> Endpoint({All("Events")}, {All("events"), One("event")}),
      updateEvent |-> edit, inviteParticipants |-> edit, removeParticipant |-> edit,
      confirmAttendance |-> edit]]

PollEndpoints ==
  LET list == Endpoint({All("Polls"), PerRow("Poll")}, {All("polls"), All("poll")})
      edit == Endpoint({All("Polls"), One("Poll")}, {One("poll")})
  IN
  [slice |-> "polls",
   queries |->
     [getMyPolls |-> list, getCreatedPolls |-> list, getPoll |-> Endpoint({One("Poll")}, {One("poll")})],
   mutations |->
     [createPoll |-> Endpoint({All("Polls")}, {All("polls")}),
      deletePoll |-> Endpoint({All("Polls")}, {All("polls"), One("poll")}),
      updatePoll |-> edit, inviteParticipants |-> edit, removeParticipant |-> edit,
      vote |-> edit, retractVote |-> edit]]

NotificationEndpoints ==
  [slice |-> "notifications",
   queries |-> [getNotifications |-> Endpoint({All("Notifications"), PerRow("Notifications")}, {All("notification")})],
   mutations |->
     [markAsRead       |-> Endpoint({One("Notifications"), All("Notifications")}, {One("notification")}),
      markAllAsRead    |-> Endpoint({All("Notifications")}, {All("notification")}),
      hideNotification |-> Endpoint({All("Notifications")}, {One("notification")})]]

(* An approved registration is also a new user, of the slice "users".      *)
AuthEndpoints ==
  LET session == Endpoint({All("User")}, {})
      decision == Endpoint({All("PasswordResetRequests")}, {All("resets")})
  IN
  [slice |-> "auth",
   queries |->
     [getMe                     |-> Endpoint({All("User")}, {All("me")}),
      listPasswordResetRequests |-> Endpoint({All("PasswordResetRequests")}, {All("resets")}),
      listRegistrationRequests  |-> Endpoint({All("RegistrationRequests")}, {All("registrations")})],
   mutations |->
     [approveRegistrationRequest |->
        Endpoint({All("RegistrationRequests"), All("User")}, {All("registrations"), All("users")}),
      rejectRegistrationRequest |-> Endpoint({All("RegistrationRequests")}, {All("registrations")}),
      approvePasswordResetRequest |-> decision, rejectPasswordResetRequest |-> decision,
      refresh |-> session, changePassword |-> session, logout |-> session]]

Slices ==
  {UnitEndpoints, PositionEndpoints, RoleEndpoints, RoomRoleEndpoints, UserEndpoints,
   TaskEndpoints, EventEndpoints, PollEndpoints, NotificationEndpoints, AuthEndpoints}

(* A watched query has argument own; its answer, if it has tags of its     *)
(* rows, lists all rows or, on another page, none.                         *)
Queries ==
  UNION {UNION {[slice : {s.slice}, name : {q}, tags : {s.queries[q].tags},
                 facts : {s.queries[q].facts},
                 rows : {r \in {{}, Ids} : r = Ids => \E t \in s.queries[q].tags : t[2] = "each"}]
                : q \in DOMAIN s.queries}
         : s \in Slices}

Mutations ==
  UNION {UNION {[slice : {s.slice}, name : {m}, tags : {s.mutations[m].tags},
                 facts : {s.mutations[m].facts}, arg : Ids] : m \in DOMAIN s.mutations}
         : s \in Slices}

(* The ids a scope stands for; {} is the tag or fact without an id.        *)
IdsOf(scope, arg, rows) ==
  CASE scope = "all"  -> {{}}
    [] scope = "one"  -> {{arg}}
    [] scope = "each" -> {{i} : i \in rows}
    [] scope = "mine" -> {{own}}

Instances(forms, arg, rows) == UNION {{f[1]} \X IdsOf(f[2], arg, rows) : f \in forms}

(* The answer of q depends on what m writes.                               *)
Touches(m, q) ==
  \E w \in Instances(m.facts, m.arg, {}), r \in Instances(q.facts, own, Ids) :
    /\ w[1] = r[1]
    /\ w[2] = {} \/ r[2] = {} \/ w[2] = r[2]

(* RTK Query: a tag without an id hits whoever provides its type, a tag    *)
(* with an id hits the providers of that id.  A query that failed provides *)
(* what it provides without an answer.                                     *)
Hit(t, e) ==
  \E p \in Instances(watched.tags, own, IF e.failed THEN {} ELSE watched.rows) :
    t[1] = p[1] /\ (t[2] = {} \/ t[2] = p[2])

------------------------------------------------------------------------------
(* RTK Query *)

(* held: the mutations its rows contain; of: whose rows they are.          *)
NoEntry == [in |-> FALSE, mounted |-> FALSE, fetch |-> "none", asker |-> Nobody, got |-> {},
            held |-> {}, of |-> Nobody, failed |-> FALSE]

Fetching(e) == [e EXCEPT !.in = TRUE, !.fetch = "asked", !.asker = reader]

Landed(e) == [e EXCEPT !.fetch = "none", !.held = e.got, !.of = e.asker, !.got = {}, !.failed = FALSE]

Failed(e) == [e EXCEPT !.fetch = "none", !.got = {}, !.failed = TRUE]

(* kept: the slice still knows of the change.                              *)
Unused == [at |-> "unused", done |-> FALSE, ok |-> FALSE, kept |-> FALSE, mutation |-> Nobody]

Sending(m) == [Unused EXCEPT !.at = "sent", !.kept = TRUE, !.mutation = m]

OnTheWay(c) == c.at \in {"sent", "written"}

Done == {s \in Changes : change[s].done}

(* Mutant: invalidationBehavior "immediately".                             *)
BusyNever(e, changes, o) == FALSE

(* Is a query or a mutation of the slice on its way (hasPendingRequests)?  *)
BusyWith(e, changes, o) ==
  \/ e.fetch # "none"
  \/ o
  \/ \E s \in Changes : OnTheWay(changes[s]) /\ changes[s].kept /\ changes[s].mutation.slice = watched.slice

(* Tags are invalidated once nothing of the slice is pending               *)
(* (invalidationBehavior "delayed"): an entry that is hit is fetched       *)
(* again, or dropped if nobody uses it; a query on its way is not sent     *)
(* twice.                                                                  *)
Tell(e, changes, o, tags) ==
  LET due == delayed \union tags
      hit == \E t \in due : Hit(t, e)
  IN /\ change' = changes /\ others' = o
     /\ IF BusyWith(e, changes, o)
        THEN entry' = e /\ delayed' = due
        ELSE /\ entry' = CASE ~e.in \/ ~hit -> e
                           [] e.in /\ hit /\ ~e.mounted -> NoEntry
                           [] e.in /\ hit /\ e.mounted -> IF e.fetch = "none" THEN Fetching(e) ELSE e
             /\ delayed' = {}
     /\ UNCHANGED <<watched, reader>>

------------------------------------------------------------------------------
(* A component uses the query: fetched again even when cached              *)
(* (refetchOnMountOrArgChange), unless it is on its way.                   *)
Use ==
  /\ ~entry.mounted
  /\ entry' = [(IF entry.fetch = "none" THEN Fetching(entry) ELSE entry) EXCEPT !.mounted = TRUE]
  /\ UNCHANGED <<watched, change, others, delayed, reader>>

Leave ==
  /\ entry.mounted
  /\ entry' = [entry EXCEPT !.mounted = FALSE]
  /\ UNCHANGED <<watched, change, others, delayed, reader>>

(* Nobody has used it for a minute (keepUnusedDataFor).                    *)
Drop ==
  /\ entry.in /\ ~entry.mounted
  /\ entry' = NoEntry
  /\ UNCHANGED <<watched, change, others, delayed, reader>>

(* The server reads the rows for whoever has asked.                        *)
Read ==
  /\ entry.fetch = "asked"
  /\ entry' = [entry EXCEPT !.fetch = "served", !.got = Done]
  /\ UNCHANGED <<watched, change, others, delayed, reader>>

Answer ==
  /\ entry.fetch = "served"
  /\ Tell(Landed(entry), change, others, {})

AnswerFails ==
  /\ entry.fetch # "none"
  /\ Tell(Failed(entry), change, others, {})

OthersAsk ==
  /\ ~others
  /\ others' = TRUE
  /\ UNCHANGED <<watched, entry, change, delayed, reader>>

OthersEnd ==
  /\ others
  /\ Tell(entry, change, FALSE, {})

(* Mutations the watched rows depend on; the others are among what         *)
(* keeps the slice busy.                                                   *)
Relevant == {m \in Mutations : Touches(m, watched)}

Mutate(s, m) ==
  /\ change[s] = Unused
  /\ change' = [change EXCEPT ![s] = Sending(m)]
  /\ UNCHANGED <<watched, entry, others, delayed, reader>>

Perform(s) ==
  /\ change[s].at = "sent"
  /\ change' = [change EXCEPT ![s].at = "written", ![s].done = TRUE]
  /\ UNCHANGED <<watched, entry, others, delayed, reader>>

(* The tab has given up on a change, and the server makes it after all.    *)
PerformLate(s) ==
  /\ change[s].at = "settled" /\ ~change[s].ok /\ ~change[s].done
  /\ change' = [change EXCEPT ![s].at = "late", ![s].done = TRUE]
  /\ UNCHANGED <<watched, entry, others, delayed, reader>>

(* onQueryStarted of approveRegistrationRequest, once the answer is there. *)
AcrossSlices(m) ==
  IF m.name = "approveRegistrationRequest" /\ watched.slice = "users" THEN {<<"Users", {}>>} ELSE {}

(* A mutation that is refused, or whose answer is lost, invalidates the    *)
(* same tags as one that succeeds.                                         *)
MutationEnds(s, ok) ==
  LET m == change[s].mutation
      tags == IF m.slice = watched.slice THEN Instances(m.tags, m.arg, {}) ELSE {}
  IN /\ OnTheWay(change[s])
     /\ ok => change[s].at = "written"
     /\ Tell(entry, [change EXCEPT ![s].at = "settled", ![s].ok = ok], others,
                   tags \union IF ok THEN AcrossSlices(m) ELSE {})

(* The user signs out and another one signs in; five of the slices forget  *)
(* what they hold and what is on its way (resetApiState).                  *)
ResetSlices == {"users", "auth", "org", "chat", "notifications"}

ChangeUser(u) ==
  /\ reader' = u /\ u # reader
  /\ IF watched.slice \in ResetSlices
     THEN /\ entry' = NoEntry /\ others' = FALSE
          /\ change' = [s \in Changes |-> [change[s] EXCEPT !.kept = FALSE]]
     ELSE /\ entry' = [entry EXCEPT !.mounted = FALSE]
          /\ UNCHANGED <<change, others>>
  /\ UNCHANGED <<watched, delayed>>

SlicesInit ==
  /\ watched \in Queries
  /\ entry = NoEntry
  /\ change = [s \in Changes |-> Unused]
  /\ others = FALSE
  /\ delayed = {}
  /\ reader \in UserIds

SlicesNext ==
  \/ Use \/ Leave \/ Drop
  \/ Read \/ Answer \/ AnswerFails
  \/ OthersAsk \/ OthersEnd
  \/ \E s \in Changes : \/ \E m \in Relevant : Mutate(s, m)
                       \/ Perform(s) \/ PerformLate(s)
                       \/ \E ok \in BOOLEAN : MutationEnds(s, ok)
  \/ \E u \in UserIds : ChangeUser(u)

SlicesSpec == SlicesInit /\ [][SlicesNext]_sliceVars

------------------------------------------------------------------------------
(* What a mutation changes and the entry is never told of: what is made    *)
(* after the tab has given up on it, and what its tags leave out.          *)

Deletions == {"deleteOrgUnit", "deletePosition", "deleteTag", "deleteRole", "deleteUser",
              "deleteTask", "deleteEvent", "deletePoll"}

(* The rows of one thing, which the page leaves once it is deleted.        *)
OfOneRow == {"getOrgUnitById", "getRole", "getUserById", "getUserProfileById", "getTask",
             "getEvent", "getPoll"}

(* A name shown beside the rows of something else.                         *)
ShowsNameOf ==
  {"getOrgUnitMembers"} \X {"updatePosition", "deletePosition"}
  \union {"getOrgUnitTags"} \X {"deleteTag"}
  \union {"listUserRoles", "listMyRoles"} \X {"updateRole", "deleteRole"}

Untold(q, c) ==
  LET m == c.mutation
  IN \/ c.at = "late"
     \/ m.slice # q.slice /\ ~(q.slice = "users" /\ c.ok)
     \/ m.name \in Deletions /\ q.name \in OfOneRow
     \/ <<q.name, m.name>> \in ShowsNameOf
     \/ m.name = "updateMe" /\ q.name # "getMyProfile"
     \/ m.slice = "users" /\ q.name = "getMyProfile" /\ m.name # "updateMe"
     \/ m.name = "updateUser" /\ q.name = "searchUsersDirectory"
     \/ m.name = "updateUser" /\ q.name = "listUsers" /\ m.arg \notin q.rows

NothingPending == ~BusyWith(entry, change, others) /\ \A s \in Changes : ~OnTheWay(change[s])

(* Once nothing is on its way, rows on the screen contain every change     *)
(* this tab has made, whatever order its answers came in, but for the      *)
(* changes their slice is not told of; and no query waits to be told.      *)
FreshUnlessUntold ==
  NothingPending /\ entry.mounted /\ ~entry.failed =>
    /\ \A s \in Done : s \in entry.held \/ Untold(watched, change[s])
    /\ delayed = {}

(* What the screen shows was read for the user who is signed in, unless    *)
(* its slice is one that signing out does not reset: there the rows of the *)
(* user before stay for a minute, and an answer to that user still lands   *)
(* (TopBar.tsx resets five of the nine slices).                            *)
OwnRowsUnlessKept ==
  entry.mounted /\ watched.slice \notin {"rbac", "tasks", "events", "polls"} =>
    entry.of \in {Nobody, reader}

EntriesSound == FreshUnlessUntold /\ OwnRowsUnlessKept

==============================================================================
